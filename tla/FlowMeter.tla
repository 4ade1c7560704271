----------------------------- MODULE FlowMeter ------------------------------
(***************************************************************************)
(* The model-spend meter of one delivery flow under an accepted policy:    *)
(* one Redis hash, initialized once, that is the flow's whole spend (there *)
(* is no ledger behind it).  modules/gateway/src/orchestration/            *)
(* flow_meter.py, the strict half of budget/reservations.py, and the       *)
(* admission and finalizer of budget/enforcement_service.py.               *)
(*                                                                         *)
(* Requests admitted while enforcement is on hold their estimate and a     *)
(* pending marker until a receipt settles them; requests let through while *)
(* it is off leave an unbounded marker or an accounting gap.  Every script *)
(* is atomic; between two calls of one request anything may happen: other  *)
(* requests, the repair pass, a mode switch, the loss of the hash.         *)
(*                                                                         *)
(* Deadlines are kept as the time left.                                    *)
(***************************************************************************)
EXTENDS Amounts

CONSTANTS
    Requests,   \* model requests of the flow, each with its own request id
    Cap,        \* policy.limits.max_spend_usd
    Est,        \* total_usd of a request's quote
    Ceiling,    \* maximum_cost_usd of a request's quote
    Costs,      \* what a request may turn out to cost
    TTL,        \* lifetime of a charge (ttl_seconds of meter_target)
    SLACK,      \* charges are renewed once they are this much older than new
    MARK,       \* PENDING_MARKER_SECONDS
    GRACE       \* ABANDONED_PENDING_GRACE_SECONDS

ASSUME FlowMeterAssumption ==
    /\ IsFiniteSet(Requests)
    /\ Cap \in Nat
    /\ Est \in [Requests -> Nat]
    /\ Ceiling \in [Requests -> Nat]
    /\ Costs \in [Requests -> SUBSET Nat]
    /\ TTL \in Nat /\ SLACK \in Nat /\ SLACK < TTL
    /\ MARK \in Nat \ {0}
    /\ GRACE \in Nat

VARIABLES
    enabled,    \* the enforcement switch (BudgetEnforcementSetting)
    init,       \* the durable one-time claim and the write that follows it
    anchored,   \* the hash has its __initialized__ field
    lost,       \* history: an initialized hash was lost
    left,       \* left[q]: time left on the charge of q; Absent if no field
    amount,     \* the amount of that charge
    pending,    \* requests with a pending: field
    due,        \* due[q]: time left on that field, down to -GRACE
    bounded,    \* requests with a bounded: field
    unbounded,  \* requests with an unbounded: field
    stage,      \* where request q is
    off,        \* requests let through while enforcement was off
    cost,       \* what q cost, once its response ended
    receipts,   \* requests with a committed BudgetSettlementReceipt
    gaps        \* requests with a BudgetAccountingGap under the flow's key

hash == <<anchored, left, amount, pending, due, bounded, unbounded>>
vars == <<enabled, init, lost, hash, stage, off, cost, receipts, gaps>>

Absent == -1
Charged == {q \in Requests : left[q] # Absent}

(* "retaining", "marking": between two Redis calls of the unknown-usage     *)
(* finalizer.  "refused": not let through, but its script may have run.     *)
Stages == {"new", "observing", "checked", "extended", "refused", "running", "ended",
           "retaining", "marking", "closed"}
Started == {q \in Requests : stage[q] \in {"running", "ended", "retaining", "marking", "closed"}}

TypeOK ==
    /\ enabled \in BOOLEAN
    /\ init \in {"none", "claimed", "over"}
    /\ anchored \in BOOLEAN
    /\ lost \in BOOLEAN
    /\ left \in [Requests -> Absent .. TTL]
    /\ amount \in [Requests -> Nat]
    /\ pending \subseteq Requests
    /\ due \in [Requests -> (-GRACE) .. MARK]
    /\ bounded \subseteq Charged
    /\ unbounded \subseteq Requests
    /\ stage \in [Requests -> Stages]
    /\ off \subseteq Requests
    /\ cost \in [Requests -> Nat]
    /\ receipts \subseteq Requests
    /\ gaps \subseteq off

Init ==
    /\ enabled \in BOOLEAN
    /\ init = "none"
    /\ anchored = FALSE
    /\ lost = FALSE
    /\ left = [q \in Requests |-> Absent]
    /\ amount = [q \in Requests |-> 0]
    /\ pending = {}
    /\ due = [q \in Requests |-> 0]
    /\ bounded = {}
    /\ unbounded = {}
    /\ stage = [q \in Requests |-> "new"]
    /\ off = {}
    /\ cost = [q \in Requests |-> 0]
    /\ receipts = {}
    /\ gaps = {}

Goto(q, s) == stage' = [stage EXCEPT ![q] = s]

-----------------------------------------------------------------------------
(* Operators named Mutant... are deliberate faults, one per property; they  *)
(* are used by nothing and show that the property can fail.                 *)

(* The hash: one operator per script, as an action on its fields. *)

(* Pass 1 of _RESERVE_SCRIPT: what the live charges of others add up to. *)
InFlight(q) == Total({r \in Requests \ {q} : left[r] > 0}, amount)

(* Pass 2 prunes expired fields; S are the fields the script writes. *)
Pruned(S) == [r \in Requests |-> IF r \in S THEN TTL ELSE IF left[r] = 0 THEN Absent ELSE left[r]]

MutantIgnoresUnbounded(q) ==
    /\ anchored
    /\ \A r \in pending : due[r] > 0 /\ left[r] # 0
    /\ InFlight(q) + Est[q] <= Cap

(* A strict meter admits only if its total is known and has room: no        *)
(* unbounded field, the anchor, no expired pending field and no expired     *)
(* charge that is still pending.                                            *)
Admits(q) ==
    /\ unbounded = {}
    /\ anchored
    /\ \A r \in pending : due[r] > 0 /\ left[r] # 0
    /\ InFlight(q) + Est[q] <= Cap

Hold(q) ==
    /\ left' = Pruned({q})
    /\ amount' = [amount EXCEPT ![q] = Est[q]]
    /\ pending' = pending \union {q}
    /\ due' = [due EXCEPT ![q] = MARK]
    /\ bounded' = {r \in bounded : left[r] # 0}
    /\ UNCHANGED <<anchored, unbounded>>

(* extend_flow_retention validates the hash: the anchor, and a charge       *)
(* behind every marker.                                                     *)
Sound == anchored /\ pending \union bounded \union unbounded \subseteq Charged

MutantNoRenewal == UNCHANGED hash

(* It then renews every charge, expired ones too, once one of them (or the  *)
(* anchor, whose deadline is not modelled) is below the renewal floor.      *)
Renew ==
    \E renew \in {b \in BOOLEAN : (\E q \in Charged : left[q] < TTL - SLACK) => b} :
        /\ left' = [q \in Requests |-> IF renew /\ q \in Charged THEN TTL ELSE left[q]]
        /\ UNCHANGED <<anchored, amount, pending, due, bounded, unbounded>>

(* _RECONCILE_SCRIPT: only a live charge takes the cost; an expired one is  *)
(* deleted unless the hash is initialized.                                  *)
Settle(q) ==
    IF left[q] > 0
    THEN /\ amount' = [amount EXCEPT ![q] = cost[q]]
         /\ left' = [left EXCEPT ![q] = TTL]
         /\ pending' = pending \ {q}
         /\ due' = [due EXCEPT ![q] = 0]
         /\ bounded' = bounded \ {q}
         /\ unbounded' = unbounded \ {q}
         /\ UNCHANGED anchored
    ELSE /\ left' = IF anchored THEN left ELSE [left EXCEPT ![q] = Absent]
         /\ UNCHANGED <<anchored, amount, pending, due, bounded, unbounded>>

(* observe. *)
Placeholder(q) ==
    /\ left' = [left EXCEPT ![q] = TTL]
    /\ amount' = [amount EXCEPT ![q] = 0]
    /\ unbounded' = unbounded \union {q}
    /\ UNCHANGED <<anchored, pending, due, bounded>>

-----------------------------------------------------------------------------
(* The switch and the life of the hash. *)

SetEnforcement ==
    /\ enabled' = ~enabled
    /\ UNCHANGED <<init, lost, hash, stage, off, cost, receipts, gaps>>

MutantClaimAgain ==
    /\ init # "claimed"
    /\ Started = {}
    /\ init' = "claimed"
    /\ UNCHANGED <<enabled, lost, hash, stage, off, cost, receipts, gaps>>

(* claim_policy_budget_initialization: a conditional put, without expiry,   *)
(* and only while nothing of the flow has run.                              *)
Claim ==
    /\ init = "none"
    /\ Started = {}
    /\ init' = "claimed"
    /\ UNCHANGED <<enabled, lost, hash, stage, off, cost, receipts, gaps>>

(* prepare_flow_meter, after a fresh claim: the anchor is an ordinary       *)
(* reservation of 0, refused next to an unbounded field or a full hash.  A  *)
(* crash or a Redis failure leaves the claim without its anchor.            *)
Initialize ==
    /\ init = "claimed"
    /\ init' = "over"
    /\ \/ /\ unbounded = {}
          /\ Total({r \in Requests : left[r] > 0}, amount) <= Cap
          /\ anchored' = TRUE
          /\ left' = Pruned({})
          /\ UNCHANGED <<amount, pending, due, bounded, unbounded>>
       \/ UNCHANGED hash
    /\ UNCHANGED <<enabled, lost, stage, off, cost, receipts, gaps>>

(* Redis loses the initialized hash: a failover, an eviction, or its EXPIRE *)
(* after a long idle time.                                                  *)
LoseMeter ==
    /\ anchored
    /\ lost' = TRUE
    /\ anchored' = FALSE
    /\ left' = [q \in Requests |-> Absent]
    /\ amount' = [q \in Requests |-> 0]
    /\ pending' = {} /\ bounded' = {} /\ unbounded' = {}
    /\ due' = [q \in Requests |-> 0]
    /\ UNCHANGED <<enabled, init, stage, off, cost, receipts, gaps>>

-----------------------------------------------------------------------------
(* A request. *)

(* The posture is read once: the switch, and a gap refuses while it is on.  *)
ReadEnforcement(q) ==
    /\ stage[q] = "new"
    /\ \/ enabled /\ gaps = {} /\ Goto(q, "checked")
       \/ ~enabled /\ Goto(q, "observing")
    /\ UNCHANGED <<enabled, init, lost, hash, off, cost, receipts, gaps>>

(* _observe_without_enforcement: the request runs whether or not its        *)
(* placeholder was seen to be written; if not, a gap is recorded first.     *)
(* Without the gap's commit the request is refused.                         *)
Observe(q) ==
    /\ stage[q] = "observing"
    /\ \/ Placeholder(q) /\ Goto(q, "running") /\ off' = off \union {q} /\ gaps' = gaps
       \/ /\ Placeholder(q) \/ UNCHANGED hash
          /\ Goto(q, "running")
          /\ off' = off \union {q}
          /\ gaps' = gaps \union {q}
       \/ /\ Placeholder(q) \/ UNCHANGED hash
          /\ Goto(q, "refused")
          /\ UNCHANGED <<off, gaps>>
    /\ UNCHANGED <<enabled, init, lost, cost, receipts>>

(* ReservationStore.reserve, first call: extend_flow_retention of the flow  *)
(* meter.  A refusal is retryable and leaves no trace.                      *)
Extend(q) ==
    /\ stage[q] = "checked"
    /\ \/ Sound /\ Renew /\ Goto(q, "extended")
       \/ UNCHANGED hash /\ Goto(q, "new")
    /\ UNCHANGED <<enabled, init, lost, off, cost, receipts, gaps>>

(* Second call: the reservation script.  _reserve_or_degrade is strict: an  *)
(* unknown or full meter refuses, and so does a Redis failure, although the *)
(* script may have run.                                                     *)
Reserve(q) ==
    /\ stage[q] = "extended"
    /\ \/ Admits(q) /\ Hold(q) /\ Goto(q, "running")
       \/ Admits(q) /\ Hold(q) /\ Goto(q, "refused")
       \/ UNCHANGED hash /\ Goto(q, "new")
    /\ UNCHANGED <<enabled, init, lost, off, cost, receipts, gaps>>

(* The provider's response ended. *)
Finish(q) ==
    /\ stage[q] = "running"
    /\ Goto(q, "ended")
    /\ \E c \in Costs[q] : cost' = [cost EXCEPT ![q] = c]
    /\ UNCHANGED <<enabled, init, lost, hash, off, receipts, gaps>>

(* settle_usage commits, for the finalizer's write_usage (whose answer may  *)
(* be lost) or for a later recovery of it.                                  *)
SettleUsage(q) ==
    /\ stage[q] \in {"ended", "retaining", "marking", "closed"}
    /\ q \notin receipts
    /\ receipts' = receipts \union {q}
    /\ UNCHANGED <<enabled, init, lost, hash, stage, off, cost, gaps>>

(* The finalizer with a committed receipt. *)
ReconcileKnown(q) ==
    /\ stage[q] = "ended"
    /\ q \in receipts
    /\ Settle(q)
    /\ Goto(q, "closed")
    /\ UNCHANGED <<enabled, init, lost, off, cost, receipts, gaps>>

MutantGapAlways(q) ==
    /\ stage[q] = "ended"
    /\ gaps' = gaps \union {q}
    /\ Goto(q, "closed")
    /\ UNCHANGED <<hash, enabled, init, lost, off, cost, receipts>>

(* The finalizer without one: no usage, no price, or the write raised (it   *)
(* may have committed).  Off mode records a gap; on mode first raises the   *)
(* charge to the ceiling of the quote: retain_maximum.                      *)
ReconcileUnknown(q) ==
    /\ stage[q] = "ended"
    /\ \/ /\ q \in off
          /\ gaps' = gaps \union {q}
          /\ Goto(q, "closed")
          /\ UNCHANGED hash
       \/ /\ q \notin off
          /\ amount' = IF left[q] > 0 /\ Ceiling[q] > Est[q] /\ amount[q] < Ceiling[q]
                       THEN [amount EXCEPT ![q] = Ceiling[q]] ELSE amount
          /\ Goto(q, "retaining")
          /\ UNCHANGED <<anchored, left, pending, due, bounded, unbounded, gaps>>
    /\ UNCHANGED <<enabled, init, lost, off, cost, receipts>>

(* retain_failed_bound: the admitted bound stands and nothing waits. *)
RetainFailedBound(q) ==
    /\ stage[q] = "retaining"
    /\ anchored /\ left[q] > 0 /\ q \notin unbounded
    /\ IF q \in pending
       THEN /\ bounded' = bounded \union {q}
            /\ pending' = pending \ {q}
            /\ due' = [due EXCEPT ![q] = 0]
       ELSE UNCHANGED <<bounded, pending, due>>
    /\ Goto(q, "closed")
    /\ UNCHANGED <<anchored, left, amount, unbounded>>
    /\ UNCHANGED <<enabled, init, lost, off, cost, receipts, gaps>>

(* mark_unknown, when the caller did not ask to retain or retaining failed: *)
(* HEXISTS, and a separate HSET of a pending marker that is already over.   *)
MarkUnknown(q) ==
    /\ stage[q] = "retaining"
    /\ Goto(q, IF q \in Charged THEN "marking" ELSE "closed")
    /\ UNCHANGED <<enabled, init, lost, hash, off, cost, receipts, gaps>>

MarkUnknownSet(q) ==
    /\ stage[q] = "marking"
    /\ Goto(q, "closed")
    /\ pending' = pending \union {q}
    /\ due' = [due EXCEPT ![q] = 0]
    /\ UNCHANGED <<anchored, left, amount, bounded, unbounded>>
    /\ UNCHANGED <<enabled, init, lost, off, cost, receipts, gaps>>

(* The finalizer is lost: the pod is killed, its deadline passed, or Redis  *)
(* failed (swallowed).                                                      *)
Crash(q) ==
    /\ stage[q] \in {"running", "ended", "retaining", "marking"}
    /\ Goto(q, "closed")
    /\ UNCHANGED <<enabled, init, lost, hash, off, receipts, gaps>>
    /\ \/ stage[q] = "running" /\ \E c \in Costs[q] : cost' = [cost EXCEPT ![q] = c]
       \/ stage[q] # "running" /\ cost' = cost

-----------------------------------------------------------------------------
(* reconcile_flow_meter, run before every later admission of the flow: it   *)
(* gives up at once unless the hash is sound.                               *)

RepairExtend ==
    /\ Sound
    /\ Renew
    /\ UNCHANGED <<enabled, init, lost, stage, off, cost, receipts, gaps>>

(* reconcile_receipt, for an unresolved request with a receipt. *)
RepairReceipt(q) ==
    /\ Sound
    /\ q \in (pending \union bounded) \intersect receipts
    /\ q \notin unbounded /\ left[q] > 0
    /\ amount' = [amount EXCEPT ![q] = cost[q]]
    /\ pending' = pending \ {q}
    /\ due' = [due EXCEPT ![q] = 0]
    /\ bounded' = bounded \ {q}
    /\ UNCHANGED <<anchored, left, unbounded>>
    /\ UNCHANGED <<enabled, init, lost, stage, off, cost, receipts, gaps>>

(* settle_expired_pending: the bound is charged and the marker removed.     *)
(* The gap recorded with it is an audit row under the Redis key, which      *)
(* read_enforcement never looks up: not a member of gaps.                   *)
RepairExpired(q) ==
    /\ Sound
    /\ q \in pending /\ q \notin unbounded /\ left[q] > 0
    /\ due[q] <= -GRACE
    /\ pending' = pending \ {q}
    /\ due' = [due EXCEPT ![q] = 0]
    /\ bounded' = bounded \ {q}
    /\ UNCHANGED <<anchored, left, amount, unbounded>>
    /\ UNCHANGED <<enabled, init, lost, stage, off, cost, receipts, gaps>>

(* One unit of time passes.  A unit is longer than two consecutive Redis    *)
(* calls of a request or of the initialization.                             *)
Tick ==
    /\ init # "claimed"
    /\ \A q \in Requests : stage[q] # "extended"
    /\ left' = [q \in Requests |-> IF left[q] > 0 THEN left[q] - 1 ELSE left[q]]
    /\ due' = [q \in Requests |-> IF q \in pending /\ due[q] > -GRACE THEN due[q] - 1 ELSE due[q]]
    /\ UNCHANGED <<anchored, amount, pending, bounded, unbounded>>
    /\ UNCHANGED <<enabled, init, lost, stage, off, cost, receipts, gaps>>

RequestStep(q) ==
    \/ ReadEnforcement(q) \/ Observe(q) \/ Extend(q) \/ Reserve(q)
    \/ Finish(q) \/ SettleUsage(q) \/ ReconcileKnown(q) \/ ReconcileUnknown(q)
    \/ RetainFailedBound(q) \/ MarkUnknown(q) \/ MarkUnknownSet(q) \/ Crash(q)

Next ==
    \/ SetEnforcement \/ Claim \/ Initialize \/ LoseMeter \/ Tick \/ RepairExtend
    \/ \E q \in Requests : RequestStep(q) \/ RepairReceipt(q) \/ RepairExpired(q)

Spec == Init /\ [][Next]_vars

(* A pair of consecutive calls ends, time passes, and the flow keeps asking *)
(* for work, so that the repair pass keeps running: it renews the charges   *)
(* and settles within one pass, hence strong fairness.  Nothing else is     *)
(* obliged to happen; requests may retry for ever.                          *)
Fairness ==
    /\ WF_vars(Initialize)
    /\ SF_vars(Tick)
    /\ WF_vars(RepairExtend)
    /\ \A q \in Requests : WF_vars(Reserve(q)) /\ SF_vars(RepairExpired(q))

FairSpec == Spec /\ Fairness

-----------------------------------------------------------------------------
(* Properties *)

(* What q takes from the flow's allowance for certain.  What an admitted    *)
(* request costs beyond its quote is covered by no charge; what an          *)
(* unenforced one costs is.                                                 *)
Exposure ==
    [q \in Requests |->
        IF q \in off THEN cost[q]
        ELSE IF stage[q] = "running" THEN Est[q] ELSE Smaller(Est[q], cost[q])]

(* Requests whose usage must be accounted for: a gap is a recorded refusal  *)
(* to account.                                                              *)
Accountable == Started \ gaps

(* "A missing Redis accumulator [...] is unknown usage, never a new zero    *)
(* allowance", "ON cannot count it as zero": a request is let through only  *)
(* if everything the flow ever started fits in the cap with it, whatever    *)
(* was lost, crashed, repaired, expired or switched off on the way, and     *)
(* only if no unenforced request is still running.                          *)
AdmissionCovered ==
    [][\A q \in Requests :
         (stage[q] = "extended" /\ stage'[q] = "running")
            => /\ Total(Accountable, Exposure) + Est[q] <= Cap
               /\ \A r \in Accountable \intersect off : stage[r] # "running"]_vars

(* "Redis loss must never authorize a fresh allowance": a lost meter is     *)
(* never initialized again.                                                 *)
LostStaysLost == lost => ~anchored

(* A request whose usage never arrived makes the meter unreadable, for      *)
(* every worker of the flow, only for a while (#7451).                      *)
Unreadable == anchored /\ \E q \in pending : due[q] <= 0

MeterRecovers == Unreadable ~> ~Unreadable

(* "A trusted receipt that won the race must never become estimated again": *)
(* a charge that was settled by its receipt keeps the receipt's amount      *)
(* while the hash exists.                                                   *)
Settled(q) == q \in receipts /\ left[q] > 0 /\ q \notin pending \union bounded \union unbounded
                /\ amount[q] = cost[q]

SettledStaysSettled ==
    [][\A q \in Requests : Settled(q) /\ anchored' => amount'[q] = amount[q]]_vars

=============================================================================
