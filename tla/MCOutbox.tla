------------------------------ MODULE MCOutbox ------------------------------
(* An instance of Outbox for TLC: one operation, three workers of which one *)
(* also recovers abandoned rows.                                            *)
EXTENDS Outbox

CONSTANTS o1, w1, w2, w3

MCOperations == {o1}
MCWorkers == {w1, w2, w3}
MCSweepers == {w1}

=============================================================================
