------------------------------ MODULE Delivery ------------------------------
(***************************************************************************)
(* What the dispatch of admitted operations promises, with no word of      *)
(* claims, generations, workers or crashes: a queued operation is handed   *)
(* to an executor at least once before it counts as delivered, giving it   *)
(* up and recording that its outcome is unknown are one fact, a conclusion *)
(* is final, and its budget is given back only when nothing was created.   *)
(* The module Outbox implements this specification.                        *)
(***************************************************************************)
CONSTANT Operations

VARIABLES
    status,    \* the queue entry: pending, delivered, givenup or withdrawn
    verdict,   \* the conclusion of the operation, "open" while it has none
    handed,    \* an executor holds a durable copy of the dispatch
    budget,    \* the reservation: confirmed, retained or released
    effects,   \* a provider resource was created
    reopened   \* the one reauthorization of an undispatched operation is spent

vars == <<status, verdict, handed, budget, effects, reopened>>

Conclusions == {"succeeded", "failed", "cancelled", "unknown"}

Init ==
    /\ status = [o \in Operations |-> "pending"]
    /\ verdict = [o \in Operations |-> "open"]
    /\ handed = [o \in Operations |-> FALSE]
    /\ budget = [o \in Operations |-> "confirmed"]
    /\ effects = [o \in Operations |-> FALSE]
    /\ reopened = [o \in Operations |-> FALSE]

(* An open operation reaches an executor, possibly again. *)
HandOff(o) ==
    /\ verdict[o] = "open"
    /\ handed' = [handed EXCEPT ![o] = TRUE]
    /\ UNCHANGED <<status, verdict, budget, effects, reopened>>

(* The entry leaves the queue only after a hand-off. *)
Deliver(o) ==
    /\ status[o] = "pending"
    /\ handed[o]
    /\ status' = [status EXCEPT ![o] = "delivered"]
    /\ UNCHANGED <<verdict, handed, budget, effects, reopened>>

(* The executor creates a resource: only for an open, funded operation. *)
Create(o) ==
    /\ handed[o]
    /\ verdict[o] = "open"
    /\ budget[o] = "confirmed"
    /\ effects' = [effects EXCEPT ![o] = TRUE]
    /\ UNCHANGED <<status, verdict, handed, budget, reopened>>

(* An executor that was handed the operation reports what came of it. *)
Conclude(o) ==
    /\ handed[o]
    /\ verdict[o] = "open"
    /\ \E v \in Conclusions: verdict' = [verdict EXCEPT ![o] = v]
    /\ UNCHANGED <<status, handed, budget, effects, reopened>>

(* Retrying stops; the outcome is unknown unless a better answer is known. *)
GiveUp(o) ==
    /\ status[o] = "pending"
    /\ status' = [status EXCEPT ![o] = "givenup"]
    /\ verdict' = [verdict EXCEPT ![o] = IF @ = "open" THEN "unknown" ELSE @]
    /\ UNCHANGED <<handed, budget, effects, reopened>>

(* Cancellation concludes the operation and may take its entry back or     *)
(* end its retrying.                                                        *)
Cancel(o) ==
    /\ verdict[o] = "open"
    /\ verdict' = [verdict EXCEPT ![o] =
                     IF effects[o] THEN "unknown" ELSE "cancelled"]
    /\ \/ UNCHANGED status
       \/ /\ status[o] = "pending"
          /\ \E s \in {"withdrawn", "givenup"}:
               status' = [status EXCEPT ![o] = s]
    /\ UNCHANGED <<handed, budget, effects, reopened>>

(* The entry of a concluded operation may be taken back. *)
Withdraw(o) ==
    /\ verdict[o] # "open"
    /\ status[o] = "pending"
    /\ status' = [status EXCEPT ![o] = "withdrawn"]
    /\ UNCHANGED <<verdict, handed, budget, effects, reopened>>

(* Money goes back only for a concluded operation that created nothing. *)
Release(o) ==
    /\ verdict[o] # "open"
    /\ ~ effects[o]
    /\ budget' = [budget EXCEPT ![o] = "released"]
    /\ UNCHANGED <<status, verdict, handed, effects, reopened>>

Retain(o) ==
    /\ verdict[o] # "open"
    /\ budget' = [budget EXCEPT ![o] = "retained"]
    /\ UNCHANGED <<status, verdict, handed, effects, reopened>>

(* One fresh authorization of an operation no executor ever received. *)
Reopen(o) ==
    /\ status[o] = "givenup"
    /\ verdict[o] = "unknown"
    /\ ~ handed[o]
    /\ ~ reopened[o]
    /\ status' = [status EXCEPT ![o] = "pending"]
    /\ verdict' = [verdict EXCEPT ![o] = "open"]
    /\ reopened' = [reopened EXCEPT ![o] = TRUE]
    /\ UNCHANGED <<handed, budget, effects>>

Next ==
    \E o \in Operations:
        \/ HandOff(o) \/ Deliver(o) \/ Create(o) \/ Conclude(o) \/ GiveUp(o)
        \/ Cancel(o) \/ Withdraw(o) \/ Release(o) \/ Retain(o) \/ Reopen(o)

Spec == Init /\ [][Next]_vars

=============================================================================
