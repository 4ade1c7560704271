---------------------------- MODULE MCFlowMeter -----------------------------
(* Requests of one flow.  The quotes fit the cap in pairs, not all together. *)
EXTENDS FlowMeter, TLC

CONSTANTS q1, q2, q3

MCRequests == {q1, q2, q3}
MCRequestsPair == {q1, q2}
MCEst == [q \in Requests |-> IF q = q1 THEN 2 ELSE 1]
MCCeiling == [q \in Requests |-> IF q = q1 THEN 3 ELSE 1]
(* q1 costs less than its quote (or nothing), the others more than theirs.  *)
MCCosts == [q \in Requests |-> IF q = q1 THEN {0, 1} ELSE {2}]
Sym == Permutations({q2, q3})
=============================================================================
