---------------------------- MODULE MCAdmission -----------------------------
(* Instances of Admission for TLC: two approvals of one request and one of  *)
(* another, or a single approval; one writer and one sweeper.               *)
EXTENDS Admission

CONSTANTS a1, a2, a3, w1, s1

MCApprovals == {a1, a2, a3}
MCOneApproval == {a1}
MCRequest == [a \in MCApprovals |-> IF a = a3 THEN "other" ELSE "same"]
MCWriters == {w1}
MCSweepers == {s1}

=============================================================================
