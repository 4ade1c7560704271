--------------------------- MODULE AmountsProofs ----------------------------
(* The laws of Total that the proofs about budgets rest on. *)
EXTENDS Amounts, FiniteSetTheorems, TLAPS

(* A pair is a unit of q exactly when q is summed and the unit is within    *)
(* its amount.                                                              *)
LEMMA UnitsMember ==
    ASSUME NEW S, NEW f
    PROVE  Units(S, f) = {u \in S \X Int : u[2] \in 1 .. f[u[1]]}
  <1>1. ASSUME NEW u \in Units(S, f)
        PROVE  u \in S \X Int /\ u[2] \in 1 .. f[u[1]]
    <2>1. PICK q \in S : u \in {q} \X (1 .. f[q])
      BY <1>1 DEF Units
    <2>. QED
      BY <2>1
  <1>2. ASSUME NEW u \in S \X Int, u[2] \in 1 .. f[u[1]]
        PROVE  u \in Units(S, f)
    <2>1. u \in {u[1]} \X (1 .. f[u[1]]) /\ u[1] \in S
      BY <1>2
    <2>. QED
      BY <2>1 DEF Units
  <1>. QED
    BY <1>1, <1>2

(* A finite number of natural amounts has a natural sum. *)
LEMMA TotalType ==
    ASSUME NEW S, IsFiniteSet(S), NEW f, \A q \in S : f[q] \in Nat
    PROVE  IsFiniteSet(Units(S, f)) /\ Total(S, f) \in Nat
  <1>. DEFINE Col == [q \in S |-> {q} \X (1 .. f[q])]
              Cols == {Col[q] : q \in S}
  <1>1. \A q \in S : IsFiniteSet(Col[q])
    <2>. SUFFICES ASSUME NEW q \in S PROVE IsFiniteSet(Col[q])
      OBVIOUS
    <2>1. IsFiniteSet(1 .. f[q])
      BY FS_Interval
    <2>2. IsFiniteSet({q})
      BY FS_Singleton
    <2>. QED
      BY <2>1, <2>2, FS_Product
  <1>2. Col \in Surjection(S, Cols)
    BY DEF Surjection
  <1>3. IsFiniteSet(Cols)
    BY <1>2, FS_Surjection, Zenon
  <1>4. IsFiniteSet(UNION Cols)
    BY <1>1, <1>3, FS_UNION, Zenon
  <1>5. UNION Cols = Units(S, f)
    BY DEF Units
  <1>. QED
    BY <1>4, <1>5, FS_CardinalityType DEF Total

(* More requests or larger amounts never make a smaller sum. *)
LEMMA TotalMonotone ==
    ASSUME NEW T, IsFiniteSet(T), NEW S \in SUBSET T, NEW f, NEW g,
           \A q \in T : g[q] \in Nat,
           \A q \in S : f[q] \in Nat /\ f[q] <= g[q]
    PROVE  Total(S, f) <= Total(T, g)
  <1>1. Units(S, f) \subseteq Units(T, g)
    BY UnitsMember
  <1>2. IsFiniteSet(Units(T, g))
    BY TotalType
  <1>. QED
    BY <1>1, <1>2, FS_Subset DEF Total

(* A sum over a union is at most the two sums. *)
LEMMA TotalUnion ==
    ASSUME NEW S, IsFiniteSet(S), NEW T, IsFiniteSet(T), NEW f,
           \A q \in S \union T : f[q] \in Nat
    PROVE  Total(S \union T, f) <= Total(S, f) + Total(T, f)
  <1>1. Units(S \union T, f) = Units(S, f) \union Units(T, f)
    BY UnitsMember
  <1>2. IsFiniteSet(Units(S, f)) /\ IsFiniteSet(Units(T, f))
    BY TotalType
  <1>3. Cardinality(Units(S, f) \union Units(T, f))
          = Cardinality(Units(S, f)) + Cardinality(Units(T, f))
              - Cardinality(Units(S, f) \intersect Units(T, f))
    BY <1>2, FS_Union
  <1>4. Cardinality(Units(S, f) \intersect Units(T, f)) \in Nat
    BY <1>2, FS_Intersection, FS_CardinalityType
  <1>5. Cardinality(Units(S, f)) \in Nat /\ Cardinality(Units(T, f)) \in Nat
    BY <1>2, FS_CardinalityType
  <1>6. /\ Total(S \union T, f) = Cardinality(Units(S, f) \union Units(T, f))
        /\ Total(S, f) = Cardinality(Units(S, f))
        /\ Total(T, f) = Cardinality(Units(T, f))
    BY <1>1, Zenon DEF Total
  <1>. QED
    BY <1>3, <1>4, <1>5, <1>6

(* The sum over one request is its amount. *)
LEMMA TotalSingle ==
    ASSUME NEW q, NEW f, f[q] \in Nat
    PROVE  Total({q}, f) = f[q]
  <1>1. Units({q}, f) = {q} \X (1 .. f[q])
    BY DEF Units
  <1>2. IsFiniteSet({q}) /\ Cardinality({q}) = 1
    BY FS_Singleton
  <1>3. IsFiniteSet(1 .. f[q]) /\ Cardinality(1 .. f[q]) = f[q]
    BY FS_Interval
  <1>4. Cardinality({q} \X (1 .. f[q])) = 1 * f[q]
    BY <1>2, <1>3, FS_Product, Zenon
  <1>5. Total({q}, f) = 1 * f[q]
    BY <1>1, <1>4, Zenon DEF Total
  <1>. QED
    BY <1>5

(* The sum over nothing is zero. *)
LEMMA TotalNone ==
    ASSUME NEW f
    PROVE  Total({}, f) = 0
  <1>1. Units({}, f) = {}
    BY DEF Units
  <1>. QED
    BY <1>1, FS_EmptySet DEF Total
=============================================================================
