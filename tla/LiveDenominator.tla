-------------------------- MODULE LiveDenominator ---------------------------
(***************************************************************************)
(* Live-denominator budget enforcement of the gateway for the hierarchy    *)
(* budgets (user, team, department, organisation, each per period):        *)
(* modules/gateway/src/budget/reservations.py (_RESERVE_SCRIPT and         *)
(* _RECONCILE_SCRIPT on keys without an initialization anchor), the check  *)
(* and the reservation of budget/enforcement_service.py, the settlement of *)
(* budget/settlement.py and the finalizer of proxy/service.py.             *)
(*                                                                         *)
(* A request reads the ledger of each of its budgets, one read at a time,  *)
(* then reserves its estimate in all of them by one Redis script; its cost *)
(* reaches the ledger later, and its reservation is adjusted to the cost   *)
(* and left to expire.  The question is whether the cap holds in between.  *)
(*                                                                         *)
(* Times are kept as the time left (left, ttl) or the time spent (age).    *)
(***************************************************************************)
EXTENDS Amounts

CONSTANTS
    Requests,      \* model requests, each with its own request id
    Budgets,       \* (entity, period) budgets with a hard limit
    BudgetsOf,     \* the budgets of a request (its hierarchy x periods)
    Cap,           \* budget_amount_usd
    Est,           \* estimated_cost of a request
    Costs,         \* what a request may turn out to cost
    TTL,           \* budget_reservation_ttl_seconds
    MAX_CHECK,     \* longest time from the first ledger read to the reservation
    MAX_POST       \* longest time from the reservation to the ledger's debit

ASSUME LiveDenominatorAssumption ==
    /\ IsFiniteSet(Requests)
    /\ BudgetsOf \in [Requests -> (SUBSET Budgets) \ {{}}]
    /\ Cap \in [Budgets -> Nat]
    /\ Est \in [Requests -> Nat]
    /\ Costs \in [Requests -> SUBSET Nat]
    /\ TTL \in Nat \ {0}
    /\ MAX_CHECK \in Nat
    /\ MAX_POST \in Nat

VARIABLES
    amount,    \* amount[b][q]: the amount of field q in the hash of budget b
    left,      \* left[b][q]: time left on that field; Absent if no such field
    ttl,       \* ttl[b]: time left before Redis drops the whole hash
    stage,     \* where request q is
    seen,      \* seen[q][b]: the debits of budget b that q's ledger read saw
    read,      \* the budgets q has read
    age,       \* time since q's first read, or since its reservation
    admitted,  \* requests let through by the reservation script
    cost,      \* what q cost, once its response ended
    posted,    \* requests with a BudgetSettlementReceipt, hence debited
    late       \* history: requests whose reservation ran out while needed

vars == <<amount, left, ttl, stage, seen, read, age, admitted, cost, posted, late>>
hash == <<amount, left, ttl>>

Absent == -1
Stages == {"new", "checking", "denied", "running", "ended", "closed", "lost"}

TypeOK ==
    /\ amount \in [Budgets -> [Requests -> Nat]]
    /\ left \in [Budgets -> [Requests -> Absent .. TTL]]
    /\ ttl \in [Budgets -> 0 .. TTL]
    /\ stage \in [Requests -> Stages]
    /\ seen \in [Requests -> [Budgets -> SUBSET Requests]]
    /\ read \in [Requests -> SUBSET Budgets]
    /\ age \in [Requests -> Nat]
    /\ admitted \subseteq Requests
    /\ cost \in [Requests -> Nat]
    /\ posted \subseteq Requests
    /\ late \subseteq admitted

Init ==
    /\ amount = [b \in Budgets |-> [q \in Requests |-> 0]]
    /\ left = [b \in Budgets |-> [q \in Requests |-> Absent]]
    /\ ttl = [b \in Budgets |-> 0]
    /\ stage = [q \in Requests |-> "new"]
    /\ seen = [q \in Requests |-> [b \in Budgets |-> {}]]
    /\ read = [q \in Requests |-> {}]
    /\ age = [q \in Requests |-> 0]
    /\ admitted = {}
    /\ cost = [q \in Requests |-> 0]
    /\ posted = {}
    /\ late = {}

-----------------------------------------------------------------------------
(* Operators named Mutant... are deliberate faults, one per property; they  *)
(* are used by nothing and show that the property can fail.                 *)

(* The ledger: BudgetUsage rows in Postgres. *)

Of(b) == {q \in Requests : b \in BudgetsOf[q]}

(* total_cost_usd: receipt and debit commit in one transaction. *)
CurrentSpend(b) == Total(posted \intersect Of(b), cost)

(* headroom_usd, as it was when q read the ledger: a debit never changes.   *)
Headroom(q, b) == Cap[b] - Total(seen[q][b] \intersect Of(b), cost)

(* _check_entity_budget: the settled total alone may already deny.  Each    *)
(* budget is read by its own statement, so the reads of one check can       *)
(* straddle a settlement.                                                   *)
CheckEntityBudget(q, b) ==
    /\ stage[q] \in {"new", "checking"}
    /\ b \in BudgetsOf[q] \ read[q]
    /\ IF CurrentSpend(b) + Est[q] > Cap[b]
       THEN /\ stage' = [stage EXCEPT ![q] = "denied"]
            /\ read' = [read EXCEPT ![q] = {}]
            /\ seen' = [seen EXCEPT ![q] = [c \in Budgets |-> {}]]
            /\ age' = [age EXCEPT ![q] = 0]
       ELSE /\ stage' = [stage EXCEPT ![q] = "checking"]
            /\ read' = [read EXCEPT ![q] = @ \union {b}]
            /\ seen' = [seen EXCEPT ![q][b] = posted]
            /\ age' = age
    /\ UNCHANGED <<hash, admitted, cost, posted, late>>

-----------------------------------------------------------------------------
(* The reservation: one script over all keys. *)

(* Pass 1 ignores q's own field and expired fields. *)
InFlight(q, b) == Total({r \in Requests \ {q} : left[b][r] > 0}, amount[b])

HasRoom(q, b) == InFlight(q, b) + Est[q] <= Headroom(q, b)

MutantPerKey(q) ==
    LET B == {b \in BudgetsOf[q] : HasRoom(q, b)}
    IN  /\ amount' = [b \in Budgets |->
                        IF b \in B THEN [amount[b] EXCEPT ![q] = Est[q]] ELSE amount[b]]
        /\ left' = [b \in Budgets |-> IF b \in B THEN [left[b] EXCEPT ![q] = TTL] ELSE left[b]]
        /\ ttl' = [b \in Budgets |-> IF b \in B THEN TTL ELSE ttl[b]]
        /\ stage' = [stage EXCEPT ![q] = IF B = BudgetsOf[q] THEN "running" ELSE "denied"]
        /\ admitted' = IF B = BudgetsOf[q] THEN admitted \union {q} ELSE admitted

(* Pass 2: prune what expired, HSET the field, EXPIRE the key. *)
Commit(q) ==
    /\ amount' = [b \in Budgets |->
                    IF b \in BudgetsOf[q] THEN [amount[b] EXCEPT ![q] = Est[q]] ELSE amount[b]]
    /\ left' = [b \in Budgets |->
                  IF b \in BudgetsOf[q]
                  THEN [r \in Requests |->
                          IF r = q THEN TTL ELSE IF left[b][r] <= 0 THEN Absent ELSE left[b][r]]
                  ELSE left[b]]
    /\ ttl' = [b \in Budgets |-> IF b \in BudgetsOf[q] THEN TTL ELSE ttl[b]]

Fits(q) == \A b \in BudgetsOf[q] : HasRoom(q, b)

(* The check is over: its reads are used. *)
Leave(q) ==
    /\ stage[q] = "checking"
    /\ read[q] = BudgetsOf[q]
    /\ read' = [read EXCEPT ![q] = {}]
    /\ seen' = [seen EXCEPT ![q] = [b \in Budgets |-> {}]]
    /\ age' = [age EXCEPT ![q] = 0]
    /\ UNCHANGED <<cost, posted, late>>

(* _reserve_or_degrade with Redis answering. *)
Decide(q) ==
    \/ /\ Fits(q)
       /\ Commit(q)
       /\ stage' = [stage EXCEPT ![q] = "running"]
       /\ admitted' = admitted \union {q}
    \/ /\ ~Fits(q)
       /\ stage' = [stage EXCEPT ![q] = "denied"]
       /\ UNCHANGED <<hash, admitted>>

Reserve(q) == Leave(q) /\ Decide(q)

(* Redis raised: the settled-ledger verdict stands and the request runs.    *)
(* The script may have run all the same, with its reply lost.               *)
ReserveDegraded(q) ==
    /\ Leave(q)
    /\ stage' = [stage EXCEPT ![q] = "running"]
    /\ admitted' = admitted
    /\ \/ Fits(q) /\ Commit(q)
       \/ UNCHANGED hash

-----------------------------------------------------------------------------
(* The response and its finalizer. *)

(* The provider's response ended and its usage is known. *)
Finish(q) ==
    /\ stage[q] = "running"
    /\ stage' = [stage EXCEPT ![q] = "ended"]
    /\ \E c \in Costs[q] : cost' = [cost EXCEPT ![q] = c]
    /\ UNCHANGED <<hash, seen, read, age, admitted, posted, late>>

(* settle_usage, called by the gateway's write_usage or by the tracker that *)
(* reads the chat logs, whichever is first: the receipt makes the second    *)
(* one a no-op.                                                             *)
SettleUsage(q) ==
    /\ stage[q] \in {"ended", "closed"}
    /\ q \notin posted
    /\ posted' = posted \union {q}
    /\ age' = [age EXCEPT ![q] = 0]
    /\ UNCHANGED <<hash, stage, seen, read, admitted, cost, late>>

MutantResurrect(q) ==
    /\ stage[q] = "ended"
    /\ stage' = [stage EXCEPT ![q] = "closed"]
    /\ LET present == {b \in BudgetsOf[q] : left[b][q] # Absent}
       IN  /\ amount' = [b \in Budgets |->
                           IF b \in present THEN [amount[b] EXCEPT ![q] = cost[q]] ELSE amount[b]]
           /\ left' = [b \in Budgets |-> IF b \in present THEN [left[b] EXCEPT ![q] = TTL] ELSE left[b]]
           /\ ttl' = [b \in Budgets |-> IF b \in present THEN TTL ELSE ttl[b]]
    /\ UNCHANGED <<seen, read, age, admitted, cost, posted, late>>

MutantExtend(q) ==
    /\ stage[q] = "ended"
    /\ stage' = [stage EXCEPT ![q] = "closed"]
    /\ left' = [b \in Budgets |->
                  IF b \in BudgetsOf[q]
                  THEN [left[b] EXCEPT ![q] = IF left[b][q] > 0 THEN left[b][q] + TTL ELSE Absent]
                  ELSE left[b]]
    /\ UNCHANGED <<amount, ttl, seen, read, age, admitted, cost, posted, late>>

MutantDelete(q) ==
    /\ stage[q] = "ended"
    /\ stage' = [stage EXCEPT ![q] = "closed"]
    /\ left' = [b \in Budgets |->
                  IF b \in BudgetsOf[q] THEN [left[b] EXCEPT ![q] = Absent] ELSE left[b]]
    /\ UNCHANGED <<amount, ttl, seen, read, age, admitted, cost, posted, late>>

(* _RECONCILE_SCRIPT: a live field takes the actual cost and a fresh        *)
(* deadline, an expired one is deleted.                                     *)
Reconcile(q) ==
    /\ stage[q] = "ended"
    /\ stage' = [stage EXCEPT ![q] = "closed"]
    /\ LET live == {b \in BudgetsOf[q] : left[b][q] > 0}
       IN  /\ amount' = [b \in Budgets |->
                           IF b \in live THEN [amount[b] EXCEPT ![q] = cost[q]] ELSE amount[b]]
           /\ left' = [b \in Budgets |->
                         IF b \in BudgetsOf[q]
                         THEN [left[b] EXCEPT ![q] = IF b \in live THEN TTL ELSE Absent]
                         ELSE left[b]]
           /\ ttl' = [b \in Budgets |-> IF b \in live THEN TTL ELSE ttl[b]]
    /\ UNCHANGED <<seen, read, age, admitted, cost, posted, late>>

(* The finalizer does not reconcile: the pod was killed, the usage is       *)
(* unknown (the estimate is kept), or Redis failed (swallowed).  Without a  *)
(* receipt the cost of the request is never known.                          *)
Lose(q) ==
    /\ stage[q] \in {"running", "ended"}
    /\ stage' = [stage EXCEPT ![q] = IF q \in posted THEN "closed" ELSE "lost"]
    /\ age' = [age EXCEPT ![q] = 0]
    /\ UNCHANGED <<hash, seen, read, admitted, cost, posted, late>>

-----------------------------------------------------------------------------
Unposted(q) == stage[q] \in {"running", "ended", "closed"} /\ q \notin posted

(* A deadline comes closer; what expired stays in the hash until pruned. *)
Down(n) == IF n > 0 THEN n - 1 ELSE 0

(* Redis drops a key whose EXPIRE is reached. *)
KeyExpires(b) == ttl[b] <= 1

(* Nothing but its reservation tells of q: its debit is not in the ledger,  *)
(* or a check that read the ledger before the debit has not reserved yet.   *)
Needed(q, b) ==
    \/ q \notin posted
    \/ \E r \in Requests : b \in read[r] /\ q \notin seen[r][b]

(* One unit of time passes; calls and checks end within their bounds, which *)
(* may be longer than TTL: nothing in the code relates the two.             *)
Tick ==
    /\ \A q \in Requests :
         /\ stage[q] = "checking" => age[q] < MAX_CHECK
         /\ Unposted(q) => age[q] < MAX_POST
    /\ left' = [b \in Budgets |-> [q \in Requests |->
                  IF left[b][q] = Absent \/ KeyExpires(b) THEN Absent
                  ELSE Down(left[b][q])]]
    /\ ttl' = [b \in Budgets |-> Down(ttl[b])]
    /\ age' = [q \in Requests |->
                 IF stage[q] = "checking" \/ Unposted(q) THEN age[q] + 1 ELSE 0]
    /\ late' = late \union {q \in admitted : \E b \in BudgetsOf[q] :
                              left[b][q] > 0 /\ (left[b][q])' <= 0 /\ Needed(q, b)}
    /\ UNCHANGED <<amount, stage, seen, read, admitted, cost, posted>>

RequestStep(q) ==
    \/ \E b \in Budgets : CheckEntityBudget(q, b)
    \/ Reserve(q) \/ ReserveDegraded(q)
    \/ Finish(q) \/ SettleUsage(q) \/ Reconcile(q) \/ Lose(q)

Next == Tick \/ \E q \in Requests : RequestStep(q)

Spec == Init /\ [][Next]_vars

-----------------------------------------------------------------------------
(* Properties *)

(* What q is certain to take from a cap: its estimate while it runs, then   *)
(* what it cost (what it cost beyond its estimate no reservation covers).   *)
Exposure ==
    [q \in Requests |-> IF stage[q] = "running" THEN Est[q] ELSE Smaller(Est[q], cost[q])]

(* Admitted by the reservation script and accounted for to the end.         *)
Counted(b) == {q \in admitted : b \in BudgetsOf[q] /\ stage[q] # "lost"}

(* "caps stay sound" (reservations.py), taken at its word: the requests let *)
(* through never exceed the cap of any budget by more than what they cost   *)
(* beyond their estimates.                                                  *)
SpendWithinCap == \A b \in Budgets : Total(Counted(b), Exposure) <= Cap[b]

(* What the reservations do guarantee, however long calls and checks take:  *)
(* whatever a burst of concurrent requests reads from a lagging ledger, and *)
(* in whatever order settlements, adjustments and expiries happen, only     *)
(* requests whose own reservation ran out while it was needed take a budget *)
(* over its cap, and by no more than their own exposure (_RESERVE_SCRIPT,   *)
(* _RECONCILE_SCRIPT).                                                      *)
OverrunOnlyByLate ==
    \A b \in Budgets : Total(Counted(b) \ late, Exposure) <= Cap[b]

(* One script over all keys: a request holds a reservation with the same    *)
(* deadline in all of its budgets or in none, and a denied one in none.     *)
AllBudgetsOrNone ==
    \A q \in Requests : \A b, c \in BudgetsOf[q] :
        left[b][q] > 0 => left[c][q] = left[b][q] /\ stage[q] # "denied"

(* "An expired reservation must NOT be resurrected": no finalizer, however  *)
(* late, puts back a field that stopped counting.                           *)
ExpiredStaysExpired ==
    [][\A q \in Requests : \A b \in Budgets :
         (stage[q] \notin {"new", "checking"} /\ left[b][q] <= 0) => (left[b][q])' <= 0]_vars

=============================================================================
