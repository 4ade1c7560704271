----------------------------- MODULE Admission ------------------------------
(***************************************************************************)
(* Admission of an approved operation by the harness: admit_operation and  *)
(* reconcile_interrupted_admissions of modules/harness/jobs/harness_jobs/  *)
(* admission.py, the two inserts of store.admit, and the reservation       *)
(* ledger they call (superplane's operation_budget_ledger.py).             *)
(*                                                                         *)
(* A writer spends one approval: it takes the approval's session lock,     *)
(* commits an intent, reserves and confirms at the ledger, and commits     *)
(* operation, outbox row and consumption in one transaction.  A sweeper    *)
(* settles intents that were interrupted.  Database statements need the    *)
(* session; calls of the ledger, another database, do not.  Each is one    *)
(* step; the ledger executes a call while its caller waits, and the answer *)
(* may be lost either way.  A process that crashes or whose request is     *)
(* cancelled loses its session with its memory; a session may also be lost *)
(* alone, which frees the lock while its process still waits for a call.   *)
(*                                                                         *)
(* Operation, job and attempt identities are derived from the approval, so *)
(* each of them is named by the approval; all envelopes are of one size.   *)
(* An operation's row and its outbox row are committed with the            *)
(* consumption and stand for it.                                           *)
(***************************************************************************)
EXTENDS Naturals, FiniteSets

CONSTANTS
    Approvals,    \* approvals that permit their request
    Request,      \* the operation request of each; two may approve the same
    Writers,      \* processes that admit
    Sweepers,     \* processes that reconcile
    Nobody,       \* a lock that is free
    LIMIT,        \* holds that the workspace's limits leave room for
    MAX_LOST,     \* bound on lost answers and failed commits
    MAX_CRASHES,  \* bound on crashes and cancelled requests
    MAX_SESSIONS  \* bound on sessions lost under a living process

ASSUME AdmissionAssumption ==
    /\ Writers \cap Sweepers = {}
    /\ Nobody \notin Writers \cup Sweepers \cup Approvals
    /\ LIMIT \in Nat
    /\ MAX_LOST \in Nat /\ MAX_CRASHES \in Nat /\ MAX_SESSIONS \in Nat

VARIABLES
    intent,    \* harness_admission_intent.stage
    consumed,  \* harness_approval_consumption has a row
    ledger,    \* operation_budget_reservations.state
    owner,     \* the session that holds the approval's advisory lock
    pc,        \* where each process stands: "idle" or inside one admission
    at,        \* the approval it is at
    want,      \* the settlement it asks of the ledger
    faults     \* how many faults of each kind have happened

local == <<pc, at, want>>
vars == <<intent, consumed, ledger, owner, local, faults>>

(* Operators named Mutant... are deliberate faults, one per property; they  *)
(* are used by nothing and show that the property can fail.                 *)
Processes == Writers \cup Sweepers
Unresolved == {"intended", "reserved", "confirmed"}
(* COMMITTED_STATES *)
Committed == {"reserved", "confirmed", "retained"}

(* A settlement either resolves the intent afterwards ("settling") or       *)
(* leaves it to the sweep ("abandoning").                                   *)
Steps == {"reserving", "reserved", "confirming", "confirmed", "committing",
          "checking", "settling", "abandoning", "resolving"}

TypeOK ==
    /\ intent \in [Approvals -> {"none", "resolved"} \cup Unresolved]
    /\ consumed \in [Approvals -> BOOLEAN]
    /\ ledger \in [Approvals -> {"none", "released"} \cup Committed]
    /\ owner \in [Approvals -> Processes \cup {Nobody}]
    /\ pc \in [Processes -> {"idle"} \cup Steps]
    /\ at \in [Processes -> Approvals \cup {Nobody}]
    /\ want \in [Processes -> {"released", "retained"}]
    /\ \A p \in Processes: pc[p] = "idle" <=> at[p] = Nobody
    /\ \A a \in Approvals: owner[a] # Nobody => at[owner[a]] = a
    /\ faults \in [{"lost", "crash", "session"} -> Nat]
    /\ faults["lost"] <= MAX_LOST
    /\ faults["crash"] <= MAX_CRASHES
    /\ faults["session"] <= MAX_SESSIONS

Init ==
    /\ intent = [a \in Approvals |-> "none"]
    /\ consumed = [a \in Approvals |-> FALSE]
    /\ ledger = [a \in Approvals |-> "none"]
    /\ owner = [a \in Approvals |-> Nobody]
    /\ pc = [p \in Processes |-> "idle"]
    /\ at = [p \in Processes |-> Nobody]
    /\ want = [p \in Processes |-> "released"]
    /\ faults = [k \in {"lost", "crash", "session"} |-> 0]

-----------------------------------------------------------------------------
MutantPooled(p) == TRUE

(* A statement of p's session reaches the database. *)
Connected(p) == owner[at[p]] = p

MutantNoUnlock(p) == owner

Unlocked(p) == IF Connected(p) THEN [owner EXCEPT ![at[p]] = Nobody] ELSE owner

Goto(p, step) ==
    pc' = [pc EXCEPT ![p] = step] /\ UNCHANGED <<at, want, owner>>
(* _admission_ownership is entered, and left with an answer or an exception. *)
Enter(p, a, step) ==
    /\ pc[p] = "idle"
    /\ owner[a] = Nobody
    /\ owner' = [owner EXCEPT ![a] = p]
    /\ pc' = [pc EXCEPT ![p] = step]
    /\ at' = [at EXCEPT ![p] = a]
    /\ UNCHANGED want
Leave(p) ==
    /\ pc' = [pc EXCEPT ![p] = "idle"]
    /\ at' = [at EXCEPT ![p] = Nobody]
    /\ owner' = Unlocked(p)
    /\ UNCHANGED want
(* Towards a release or a retention of the hold at the ledger. *)
Towards(p, step, state) ==
    /\ pc' = [pc EXCEPT ![p] = step]
    /\ want' = [want EXCEPT ![p] = state]
    /\ UNCHANGED <<at, owner>>

Fault(kind, bound) ==
    /\ faults[kind] < bound
    /\ faults' = [faults EXCEPT ![kind] = @ + 1]

(* The outbox row of the approval's operation (_outbox_row_exists). *)
OutboxRowExists(a) == consumed[a]

-----------------------------------------------------------------------------
(* The ledger.  Each call is one transaction that either answers or denies. *)

Room == Cardinality({a \in Approvals: ledger[a] \in Committed}) < LIMIT

(* reserve returns what its key already holds, but never a released hold. *)
CanReserve(a) ==
    \/ ledger[a] \in Committed
    \/ ledger[a] = "none" /\ Room
Reserved(a) == [ledger EXCEPT ![a] = IF @ \in Committed THEN @ ELSE "reserved"]

(* confirm is refused once the hold was released or retained. *)
CanConfirm(a) == ledger[a] \in {"reserved", "confirmed"}

(* release and retain: repeating one is harmless, released is final and a   *)
(* retained hold is not released.                                           *)
CanSettle(a, state) ==
    \/ ledger[a] = state
    \/ ledger[a] \in {"reserved", "confirmed"}

(* A call that leaves the reservations S when it is executed is answered,   *)
(* or BudgetUnavailable is raised and nobody knows whether it was executed. *)
Answered(S) == ledger' = S /\ UNCHANGED faults
Unavailable(S) == ledger' \in {S, ledger} /\ Fault("lost", MAX_LOST)

-----------------------------------------------------------------------------
(* The writer: _admit_approved_operation.  A replay of a consumed approval  *)
(* is answered with its operation and a settled one is refused, neither     *)
(* changes anything.  The intent is recorded again from the start.          *)
Begin(p, a) ==
    /\ ~ consumed[a]
    /\ intent[a] # "resolved"
    /\ Enter(p, a, "reserving")
    /\ intent' = [intent EXCEPT ![a] = "intended"]
    /\ UNCHANGED <<consumed, ledger, faults>>

MutantListed(a) == intent[a] \in {"reserved", "confirmed"}

(* list_interrupted_admissions *)
Listed(a) == intent[a] \in Unresolved

MutantResume(a) == IF intent[a] = "intended" THEN "reserving" ELSE "checking"

(* A consumption owns the hold; otherwise the hold is named first, where no *)
(* reply was recorded, and settled (_settle_interrupted_intent).            *)
Resume(a) == IF consumed[a] THEN "resolving"
             ELSE IF intent[a] = "intended" THEN "reserving" ELSE "checking"

(* The sweep skips an approval that is owned (pg_try_advisory_lock), and    *)
(* rereads the listed intent under the lock.                                *)
Sweep(p, a) ==
    /\ Listed(a)
    /\ Enter(p, a, Resume(a))
    /\ UNCHANGED <<intent, consumed, ledger, faults>>

(* _reserve, and the sweep's reserve under the same key. *)
Reserve(p) ==
    LET a == at[p]
    IN  /\ pc[p] = "reserving"
        /\ \/ CanReserve(a) /\ Answered(Reserved(a)) /\ Goto(p, "reserved")
           \/ CanReserve(a) /\ Unavailable(Reserved(a)) /\ Leave(p)
           \/ ~ CanReserve(a) /\ UNCHANGED <<ledger, faults>> /\ Leave(p)
        /\ UNCHANGED <<intent, consumed>>

(* _advance_intent: after the ledger's reply; it never reopens a settled row. *)
Advance(p) ==
    LET a == at[p]
        next == IF pc[p] = "confirmed" THEN "committing"
                ELSE IF p \in Sweepers THEN "checking" ELSE "confirming"
    IN  /\ pc[p] \in {"reserved", "confirmed"}
        /\ IF Connected(p)
           THEN /\ intent' = [intent EXCEPT ![a] =
                               IF @ = "resolved" THEN @ ELSE pc[p]]
                /\ Goto(p, next)
           ELSE UNCHANGED intent /\ Leave(p)
        /\ UNCHANGED <<consumed, ledger, faults>>

(* _confirm: a lost answer retains the hold, a denial releases it. *)
Confirm(p) ==
    LET a == at[p]
        done == [ledger EXCEPT ![a] = "confirmed"]
    IN  /\ pc[p] = "confirming"
        /\ \/ CanConfirm(a) /\ Answered(done) /\ Goto(p, "confirmed")
           \/ CanConfirm(a) /\ Unavailable(done)
              /\ Towards(p, "abandoning", "retained")
           \/ ~ CanConfirm(a) /\ UNCHANGED <<ledger, faults>>
              /\ Towards(p, "abandoning", "released")
        /\ UNCHANGED <<intent, consumed>>

(* Another approval already paid for the same request. *)
Rival(a) == \E b \in Approvals \ {a}: consumed[b] /\ Request[b] = Request[a]

(* _commit_admission: the single transaction, or the constraint on the      *)
(* operation (the hold is orphaned), or a failure that rolls back.          *)
Commit(p) ==
    LET a == at[p]
    IN  /\ pc[p] = "committing"
        /\ \/ /\ Connected(p) /\ ~ Rival(a)
              /\ consumed' = [consumed EXCEPT ![a] = TRUE]
              /\ Goto(p, "resolving")
              /\ UNCHANGED faults
           \/ /\ Connected(p) /\ Rival(a)
              /\ Towards(p, "settling", "released")
              /\ UNCHANGED <<consumed, faults>>
           \/ /\ Connected(p) => Fault("lost", MAX_LOST)
              /\ ~ Connected(p) => UNCHANGED faults
              /\ Goto(p, "checking")
              /\ UNCHANGED consumed
        /\ UNCHANGED <<intent, ledger>>

(* A hold is returned only after nothing is known to have been dispatched,  *)
(* by the sweep and by a writer whose commit failed.                        *)
Check(p) ==
    /\ pc[p] = "checking"
    /\ IF Connected(p)
       THEN Towards(p, "settling",
                    IF OutboxRowExists(at[p]) THEN "retained" ELSE "released")
       ELSE Leave(p)
    /\ UNCHANGED <<intent, consumed, ledger, faults>>

MutantResolveFirst(p, answered) == pc[p] = "settling"

(* The intent is resolved after the settlement is known to have happened.   *)
MayResolve(p, answered) == pc[p] = "settling" /\ answered

(* release or retain at the ledger, quietly or not: unless it succeeds and  *)
(* settles the intent, the process ends with the intent left to the sweep.  *)
Settle(p) ==
    LET a == at[p]
        done == [ledger EXCEPT ![a] = want[p]]
        After(answered) ==
            IF MayResolve(p, answered) THEN Goto(p, "resolving") ELSE Leave(p)
    IN  /\ pc[p] \in {"settling", "abandoning"}
        /\ \/ CanSettle(a, want[p]) /\ Answered(done) /\ After(TRUE)
           \/ CanSettle(a, want[p]) /\ Unavailable(done) /\ After(FALSE)
           \/ ~ CanSettle(a, want[p]) /\ UNCHANGED <<ledger, faults>>
              /\ After(FALSE)
        /\ UNCHANGED <<intent, consumed>>

(* _resolve_intent *)
Resolve(p) ==
    /\ pc[p] = "resolving"
    /\ intent' = IF Connected(p)
                 THEN [intent EXCEPT ![at[p]] = "resolved"] ELSE intent
    /\ Leave(p)
    /\ UNCHANGED <<consumed, ledger, faults>>

-----------------------------------------------------------------------------
(* The process dies or its request is cancelled: nothing is compensated. *)
Crash(p) ==
    /\ pc[p] # "idle"
    /\ Fault("crash", MAX_CRASHES)
    /\ Leave(p)
    /\ UNCHANGED <<intent, consumed, ledger>>

(* The database drops the session; its process does not know yet. *)
LoseSession(p) ==
    /\ pc[p] # "idle"
    /\ Connected(p)
    /\ Fault("session", MAX_SESSIONS)
    /\ owner' = [owner EXCEPT ![at[p]] = Nobody]
    /\ UNCHANGED <<intent, consumed, ledger, local>>

Step(p) ==
    \/ Reserve(p) \/ Advance(p) \/ Confirm(p) \/ Commit(p) \/ Check(p)
    \/ Settle(p) \/ Resolve(p)

Next ==
    \/ \E p \in Writers, a \in Approvals: Begin(p, a)
    \/ \E p \in Sweepers, a \in Approvals: Sweep(p, a)
    \/ \E p \in Processes: Step(p) \/ Crash(p) \/ LoseSession(p)

Spec == Init /\ [][Next]_vars

(* Every call is answered or given up, and the sweep is run again and again *)
(* and visits every listed intent in each run.  Writers need not retry.     *)
Fairness ==
    /\ \A p \in Processes: WF_vars(Step(p))
    /\ \A p \in Sweepers, a \in Approvals: SF_vars(Sweep(p, a))

LiveSpec == Spec /\ Fairness

-----------------------------------------------------------------------------
(* "A hold can only exist if a row here describes it": whatever is lost and *)
(* whoever dies, budget held at the ledger has an unresolved intent or a    *)
(* consumption that accounts for it (harness_admission_intent, schema.py).  *)
HoldDescribed ==
    \A a \in Approvals:
        ledger[a] \in Committed => intent[a] \in Unresolved \/ consumed[a]

(* An admitted operation's envelope stays confirmed: no sweep, late writer, *)
(* failed confirm or rival gives its budget back or takes it out of the     *)
(* state it may be delivered in (admit_operation,                           *)
(* reconcile_interrupted_admissions).                                       *)
AdmittedStaysFunded ==
    \A a \in Approvals: consumed[a] => ledger[a] = "confirmed"

(* So it is as long as no session is lost under a living process. *)
FundedWithoutSessionLoss == faults["session"] = 0 => AdmittedStaysFunded

(* An admission that was settled without dispatch stays so: its approval    *)
(* admits nothing and holds nothing any more (_admit_approved_operation,    *)
(* reserve).                                                                *)
SettledIsFinal ==
    [][\A a \in Approvals:
         intent[a] = "resolved" /\ ~ consumed[a] =>
            /\ intent'[a] = "resolved" /\ ~ consumed'[a]
            /\ ledger'[a] = "released"]_vars

(* Budget does not stay in between: a hold is admitted, returned or         *)
(* explicitly retained in the end, also when its writer died or a rival     *)
(* paid (reconcile_interrupted_admissions).                                 *)
HoldsDecided ==
    \A a \in Approvals:
        ledger[a] \in {"reserved", "confirmed"} ~>
            (consumed[a] \/ ledger[a] \in {"released", "retained"})

(* Running the sweep until nothing is outstanding ends: every intent is     *)
(* resolved in the end (schema.py, DOWNGRADES[3]).                          *)
IntentsResolved ==
    \A a \in Approvals: intent[a] \in Unresolved ~> intent[a] = "resolved"

=============================================================================
