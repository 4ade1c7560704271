------------------------------ MODULE Amounts -------------------------------
(* Sums of money amounts over a set of requests.  An amount is a number of  *)
(* units (a request's cost in the smallest unit that matters); the sum is   *)
(* the number of distinct <<request, unit>> pairs, so that the theorems on  *)
(* finite cardinalities give its laws (a fold has none in the provers'      *)
(* reach).                                                                  *)
EXTENDS Integers, FiniteSets

Units(S, f) == UNION {{q} \X (1 .. f[q]) : q \in S}

(* The sum of f[q] over q in the finite set S, every f[q] a natural number. *)
Total(S, f) == Cardinality(Units(S, f))

Smaller(m, n) == IF m <= n THEN m ELSE n

=============================================================================
