------------------------- MODULE MCLiveDenominator --------------------------
(* Three requests: q1 and q2 of the same user (and of the organisation), q3 *)
(* of another user whose own budget is not limited.                         *)
EXTENDS LiveDenominator

CONSTANTS q1, q2, q3

MCRequests == {q1, q2, q3}
MCBudgets == {"user", "org"}
MCBudgetsOf == [q \in Requests |-> IF q = q3 THEN {"org"} ELSE {"user", "org"}]
MCCap == [b \in Budgets |-> IF b = "user" THEN 2 ELSE 3]
MCEst == [q \in Requests |-> IF q = q3 THEN 2 ELSE 1]
(* A response may fail for free, cost its estimate, or cost more. *)
MCCosts == [q \in Requests |-> IF q = q1 THEN {0, 2} ELSE {Est[q]}]
=============================================================================
