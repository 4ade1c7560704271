------------------------------ MODULE PlanRun ------------------------------
(***************************************************************************)
(* What the execution of an admitted plan promises, with no word of leases,*)
(* fences, executors or recovery: the steps reach the provider in order,   *)
(* each at most once and only after the one before it was performed; a     *)
(* conclusion is final and true of what the provider did; nothing reaches  *)
(* the provider once the operation counts as succeeded, failed or          *)
(* cancelled.  The module Execution implements this specification.         *)
(***************************************************************************)
EXTENDS Naturals

CONSTANTS Operations, STEPS

VARIABLES
    started,   \* provider calls made for the operation
    done,      \* those that the provider performed
    halted,    \* the provider refused one
    verdict    \* the conclusion, "open" while there is none

vars == <<started, done, halted, verdict>>

Init ==
    /\ started = [o \in Operations |-> 0]
    /\ done = [o \in Operations |-> 0]
    /\ halted = [o \in Operations |-> FALSE]
    /\ verdict = [o \in Operations |-> "open"]

InFlight(o) == started[o] > done[o] /\ ~ halted[o]

(* The next step goes to the provider; an operation given up as unknown may *)
(* still have an executor at work.                                          *)
Start(o) ==
    /\ verdict[o] \in {"open", "unknown"}
    /\ started[o] = done[o]
    /\ started[o] < STEPS
    /\ started' = [started EXCEPT ![o] = @ + 1]
    /\ UNCHANGED <<done, halted, verdict>>

Perform(o) ==
    /\ InFlight(o)
    /\ done' = [done EXCEPT ![o] = @ + 1]
    /\ UNCHANGED <<started, halted, verdict>>

Refuse(o) ==
    /\ InFlight(o)
    /\ halted' = [halted EXCEPT ![o] = TRUE]
    /\ UNCHANGED <<started, done, verdict>>

Conclude(o) ==
    /\ verdict[o] = "open"
    /\ \/ /\ done[o] = STEPS
          /\ verdict' = [verdict EXCEPT ![o] = "succeeded"]
       \/ /\ ~ InFlight(o)
          /\ verdict' = [verdict EXCEPT ![o] = "failed"]
       \/ /\ ~ InFlight(o)
          /\ done[o] = 0
          /\ verdict' = [verdict EXCEPT ![o] = "cancelled"]
       \/ verdict' = [verdict EXCEPT ![o] = "unknown"]
    /\ UNCHANGED <<started, done, halted>>

Next ==
    \E o \in Operations: Start(o) \/ Perform(o) \/ Refuse(o) \/ Conclude(o)

Spec == Init /\ [][Next]_vars

=============================================================================
