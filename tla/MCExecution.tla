----------------------------- MODULE MCExecution -----------------------------
(* Instances of Execution for TLC: one operation; two executors and two     *)
(* recovery passes for safety, one of each for liveness.                    *)
EXTENDS Execution, TLC

CONSTANTS o1, e1, e2, r1, r2

MCOperations == {o1}
MCOneExecutor == {e1}
MCTwoExecutors == {e1, e2}
MCOneSweeper == {r1}
MCTwoSweepers == {r1, r2}
MCSymmetry == Permutations(MCTwoExecutors) \cup Permutations(MCTwoSweepers)

=============================================================================
