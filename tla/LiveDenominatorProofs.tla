----------------------- MODULE LiveDenominatorProofs ------------------------
(* Proofs about the live denominator, for any requests, budgets, caps,      *)
(* estimates and costs, and however long checks and calls take compared     *)
(* with the lifetime of a reservation.                                      *)
EXTENDS LiveDenominator, AmountsProofs

(* Where a request can be when it is settled, admitted, reading or not yet  *)
(* decided; only a decided request has ever had a live field.               *)
StageInv ==
    /\ \A q \in posted : stage[q] \in {"ended", "closed"}
    /\ \A q \in admitted : stage[q] \in {"running", "ended", "closed", "lost"}
    /\ \A q \in Requests : stage[q] # "checking" => read[q] = {}
    /\ \A q \in Requests : \A b \in Budgets : seen[q][b] \subseteq posted
    /\ \A q \in Requests : \A b \in Budgets :
         stage[q] \in {"new", "checking", "denied"} \/ b \notin BudgetsOf[q] => left[b][q] <= 0

(* The EXPIRE of a hash never drops a field that still counts. *)
KeyInv == \A b \in Budgets : \A q \in Requests : left[b][q] <= ttl[b]

(* A counted reservation is at least what its request takes from the cap. *)
AmountInv ==
    \A q \in admitted : \A b \in BudgetsOf[q] :
        stage[q] # "lost" /\ left[b][q] > 0 => Exposure[q] <= amount[b][q]

Shape == TypeOK /\ StageInv /\ KeyInv /\ AmountInv /\ AllBudgetsOrNone

(* A request whose reservation did not run out while it was needed has a    *)
(* live field in each of its budgets for as long as one is needed.          *)
CoverInv ==
    \A q \in admitted \ late : \A b \in BudgetsOf[q] :
        stage[q] # "lost" /\ Needed(q, b) => left[b][q] > 0

(* The counted requests of a budget that are not late. *)
OnTime(b) == Counted(b) \ late

IInv == Shape /\ CoverInv /\ OverrunOnlyByLate

-----------------------------------------------------------------------------
(* Types, one value at a time *)

(* The types of single values, read off TypeOK. *)
LEMMA ValueTypes ==
    ASSUME TypeOK, NEW b \in Budgets, NEW q \in Requests
    PROVE  /\ amount[b][q] \in Nat
           /\ left[b][q] \in Int /\ -1 <= left[b][q] /\ left[b][q] <= TTL
           /\ ttl[b] \in Nat /\ ttl[b] <= TTL
           /\ age[q] \in Nat /\ cost[q] \in Nat
           /\ read[q] \subseteq Budgets /\ seen[q][b] \subseteq Requests
           /\ BudgetsOf[q] \subseteq Budgets /\ BudgetsOf[q] # {}
           /\ Est[q] \in Nat /\ Cap[b] \in Nat /\ TTL \in Nat
           /\ MAX_CHECK \in Nat /\ MAX_POST \in Nat
  BY LiveDenominatorAssumption DEF TypeOK, Absent

(* What a request takes from a cap is a natural number. *)
LEMMA ExposureType ==
    ASSUME TypeOK
    PROVE  \A q \in Requests : Exposure[q] \in Nat
  BY LiveDenominatorAssumption DEF TypeOK, Exposure, Smaller

(* The fields after the second pass of the reservation script. *)
LEMMA CommitEffect ==
    ASSUME TypeOK, NEW q \in Requests, Commit(q)
    PROVE  /\ \A b \in Budgets : \A r \in Requests :
                /\ amount'[b][r] = IF b \in BudgetsOf[q] /\ r = q THEN Est[q] ELSE amount[b][r]
                /\ left'[b][r] = IF b \in BudgetsOf[q]
                                 THEN IF r = q THEN TTL
                                      ELSE IF left[b][r] <= 0 THEN Absent ELSE left[b][r]
                                 ELSE left[b][r]
           /\ \A b \in Budgets : ttl'[b] = IF b \in BudgetsOf[q] THEN TTL ELSE ttl[b]
           /\ amount' \in [Budgets -> [Requests -> Nat]]
           /\ left' \in [Budgets -> [Requests -> Absent .. TTL]]
           /\ ttl' \in [Budgets -> 0 .. TTL]
  <1>. USE LiveDenominatorAssumption
  <1>1. \A b \in Budgets : \A r \in Requests :
          amount'[b][r] = IF b \in BudgetsOf[q] /\ r = q THEN Est[q] ELSE amount[b][r]
    BY DEF Commit, TypeOK
  <1>2. \A b \in Budgets : \A r \in Requests :
          left'[b][r] = IF b \in BudgetsOf[q]
                        THEN IF r = q THEN TTL
                             ELSE IF left[b][r] <= 0 THEN Absent ELSE left[b][r]
                        ELSE left[b][r]
    BY DEF Commit
  <1>3. amount' \in [Budgets -> [Requests -> Nat]]
    BY DEF Commit, TypeOK
  <1>4. left' \in [Budgets -> [Requests -> Absent .. TTL]]
    <2>1. \A b \in Budgets : left'[b] \in [Requests -> Absent .. TTL]
      BY DEF Commit, TypeOK, Absent
    <2>. QED
      BY <2>1 DEF Commit
  <1>5. /\ ttl' \in [Budgets -> 0 .. TTL]
        /\ \A b \in Budgets : ttl'[b] = IF b \in BudgetsOf[q] THEN TTL ELSE ttl[b]
    BY DEF Commit, TypeOK
  <1>. QED
    BY <1>1, <1>2, <1>3, <1>4, <1>5

(* The fields after the reconciliation script. *)
LEMMA ReconcileEffect ==
    ASSUME TypeOK, NEW q \in Requests, Reconcile(q)
    PROVE  /\ \A b \in Budgets : \A r \in Requests :
                /\ amount'[b][r] = IF b \in BudgetsOf[q] /\ r = q /\ left[b][q] > 0
                                   THEN cost[q] ELSE amount[b][r]
                /\ left'[b][r] = IF b \in BudgetsOf[q] /\ r = q
                                 THEN IF left[b][q] > 0 THEN TTL ELSE Absent
                                 ELSE left[b][r]
           /\ \A b \in Budgets :
                ttl'[b] = IF b \in BudgetsOf[q] /\ left[b][q] > 0 THEN TTL ELSE ttl[b]
           /\ amount' \in [Budgets -> [Requests -> Nat]]
           /\ left' \in [Budgets -> [Requests -> Absent .. TTL]]
           /\ ttl' \in [Budgets -> 0 .. TTL]
  <1>. USE LiveDenominatorAssumption
  <1>1. \A b \in Budgets : \A r \in Requests :
          amount'[b][r] = IF b \in BudgetsOf[q] /\ r = q /\ left[b][q] > 0
                          THEN cost[q] ELSE amount[b][r]
    BY DEF Reconcile, TypeOK
  <1>2. \A b \in Budgets : \A r \in Requests :
          left'[b][r] = IF b \in BudgetsOf[q] /\ r = q
                        THEN IF left[b][q] > 0 THEN TTL ELSE Absent
                        ELSE left[b][r]
    BY DEF Reconcile, TypeOK
  <1>3. amount' \in [Budgets -> [Requests -> Nat]]
    BY DEF Reconcile, TypeOK
  <1>4. left' \in [Budgets -> [Requests -> Absent .. TTL]]
    <2>1. \A b \in Budgets : left'[b] \in [Requests -> Absent .. TTL]
      BY DEF Reconcile, TypeOK, Absent
    <2>. QED
      BY <2>1 DEF Reconcile
  <1>5. /\ ttl' \in [Budgets -> 0 .. TTL]
        /\ \A b \in Budgets :
             ttl'[b] = IF b \in BudgetsOf[q] /\ left[b][q] > 0 THEN TTL ELSE ttl[b]
    BY DEF Reconcile, TypeOK
  <1>. QED
    BY <1>1, <1>2, <1>3, <1>4, <1>5

(* The fields after a unit of time: a field that counts loses one unit and  *)
(* is still there, because the hash lives at least as long.                 *)
LEMMA TickEffect ==
    ASSUME TypeOK, KeyInv, Tick
    PROVE  /\ \A b \in Budgets : \A r \in Requests :
                /\ left[b][r] > 0 => left'[b][r] = left[b][r] - 1 \/ left[b][r] = 1
                /\ left'[b][r] <= left[b][r] /\ left'[b][r] <= ttl'[b]
                /\ left[b][r] <= 1 => left'[b][r] <= 0
           /\ left' \in [Budgets -> [Requests -> Absent .. TTL]]
           /\ ttl' \in [Budgets -> 0 .. TTL]
           /\ age' \in [Requests -> Nat]
  <1>. USE LiveDenominatorAssumption
  <1>1. left' \in [Budgets -> [Requests -> Absent .. TTL]]
    <2>1. \A b \in Budgets : left'[b] \in [Requests -> Absent .. TTL]
      BY DEF Tick, TypeOK, Absent, Down
    <2>. QED
      BY <2>1 DEF Tick
  <1>2. ttl' \in [Budgets -> 0 .. TTL]
    BY DEF Tick, TypeOK, Down
  <1>3. age' \in [Requests -> Nat]
    BY DEF Tick, TypeOK
  <1>4. ASSUME NEW b \in Budgets, NEW r \in Requests
        PROVE  /\ left[b][r] > 0 => left'[b][r] = left[b][r] - 1 \/ left[b][r] = 1
               /\ left'[b][r] <= left[b][r] /\ left'[b][r] <= ttl'[b]
               /\ left[b][r] <= 1 => left'[b][r] <= 0
    <2>1. left'[b][r] = IF left[b][r] = Absent \/ ttl[b] <= 1 THEN Absent
                        ELSE IF left[b][r] > 0 THEN left[b][r] - 1 ELSE 0
      BY DEF Tick, Down, KeyExpires
    <2>2. ttl'[b] = IF ttl[b] > 0 THEN ttl[b] - 1 ELSE 0
      BY DEF Tick, Down
    <2>. QED
      BY <2>1, <2>2, ValueTypes DEF KeyInv, Absent
  <1>. QED
    BY <1>1, <1>2, <1>3, <1>4

-----------------------------------------------------------------------------
(* The shape of the reservations *)

(* A request becomes late by the passage of time only. *)
LEMMA LateByTickOnly ==
    ASSUME NEW q \in Requests, RequestStep(q)
    PROVE  UNCHANGED late
  BY DEF RequestStep, CheckEntityBudget, Reserve, ReserveDegraded, Leave, Finish,
         SettleUsage, Reconcile, Lose

(* Nothing is reserved, read or settled at the start. *)
LEMMA ShapeInit == ASSUME Init PROVE Shape
  <1>. USE LiveDenominatorAssumption DEF Init, Absent
  <1>1. TypeOK
    BY DEF TypeOK, Stages
  <1>2. StageInv
    BY DEF StageInv
  <1>3. KeyInv
    BY DEF KeyInv
  <1>4. AmountInv /\ AllBudgetsOrNone
    BY DEF AmountInv, AllBudgetsOrNone
  <1>. QED
    BY <1>1, <1>2, <1>3, <1>4 DEF Shape

(* A step that leaves the hashes alone. *)
LEMMA ShapeSameHash ==
    ASSUME Shape, NEW q \in Requests,
           \/ \E b \in Budgets : CheckEntityBudget(q, b)
           \/ Leave(q) /\ stage' = [stage EXCEPT ![q] = "denied"] /\ UNCHANGED <<hash, admitted>>
           \/ Leave(q) /\ stage' = [stage EXCEPT ![q] = "running"] /\ UNCHANGED <<hash, admitted>>
           \/ Finish(q) \/ SettleUsage(q) \/ Lose(q),
           UNCHANGED late
    PROVE  Shape'
  <1>. USE LiveDenominatorAssumption
  <1>1. /\ UNCHANGED <<amount, left, ttl, admitted>>
        /\ \A r \in Requests \ {q} : stage'[r] = stage[r] /\ cost'[r] = cost[r]
    BY DEF Shape, TypeOK, CheckEntityBudget, Leave, Finish, SettleUsage, Lose, hash
  <1>2. TypeOK'
    <2>. USE DEF Shape, TypeOK
    <2>1. stage' \in [Requests -> Stages]
      BY DEF Stages, CheckEntityBudget, Leave, Finish, SettleUsage, Lose
    <2>2. seen' \in [Requests -> [Budgets -> SUBSET Requests]]
      <3>1. ASSUME NEW b \in Budgets, CheckEntityBudget(q, b)
            PROVE  seen' \in [Requests -> [Budgets -> SUBSET Requests]]
        <4>1. [c \in Budgets |-> {}] \in [Budgets -> SUBSET Requests]
          OBVIOUS
        <4>2. [seen[q] EXCEPT ![b] = posted] \in [Budgets -> SUBSET Requests]
          OBVIOUS
        <4>3. \/ seen' = [seen EXCEPT ![q] = [c \in Budgets |-> {}]]
              \/ seen' = [seen EXCEPT ![q] = [seen[q] EXCEPT ![b] = posted]]
          BY <3>1, Zenon DEF CheckEntityBudget
        <4>. QED
          BY <4>1, <4>2, <4>3
      <3>2. ASSUME Leave(q) PROVE seen' \in [Requests -> [Budgets -> SUBSET Requests]]
        <4>1. [c \in Budgets |-> {}] \in [Budgets -> SUBSET Requests]
          OBVIOUS
        <4>2. seen' = [seen EXCEPT ![q] = [c \in Budgets |-> {}]]
          BY <3>2, Zenon DEF Leave
        <4>. QED
          BY <4>1, <4>2
      <3>3. CASE Finish(q) \/ SettleUsage(q) \/ Lose(q)
        BY <3>3 DEF Finish, SettleUsage, Lose
      <3>. QED
        BY <3>1, <3>2, <3>3
    <2>3. read' \in [Requests -> SUBSET Budgets]
      <3>1. ASSUME NEW b \in Budgets, CheckEntityBudget(q, b)
            PROVE  read' \in [Requests -> SUBSET Budgets]
        <4>1. read[q] \union {b} \in SUBSET Budgets
          OBVIOUS
        <4>2. \/ read' = [read EXCEPT ![q] = {}]
              \/ read' = [read EXCEPT ![q] = read[q] \union {b}]
          BY <3>1 DEF CheckEntityBudget
        <4>. QED
          BY <4>1, <4>2
      <3>2. CASE Leave(q) \/ Finish(q) \/ SettleUsage(q) \/ Lose(q)
        <4>1. read' = read \/ read' = [read EXCEPT ![q] = {}]
          BY <3>2 DEF Leave, Finish, SettleUsage, Lose
        <4>. QED
          BY <4>1
      <3>. QED
        BY <3>1, <3>2
    <2>4. age' \in [Requests -> Nat]
      BY DEF CheckEntityBudget, Leave, Finish, SettleUsage, Lose
    <2>5. cost' \in [Requests -> Nat]
      <3>1. CASE Finish(q)
        <4>1. PICK c \in Costs[q] : cost' = [cost EXCEPT ![q] = c]
          BY <3>1 DEF Finish
        <4>2. c \in Nat
          BY <4>1
        <4>. QED
          BY <4>1, <4>2
      <3>2. CASE ~Finish(q)
        BY <3>2 DEF CheckEntityBudget, Leave, SettleUsage, Lose
      <3>. QED
        BY <3>1, <3>2
    <2>6. posted' \subseteq Requests
      BY DEF CheckEntityBudget, Leave, Finish, SettleUsage, Lose
    <2>. QED
      BY <1>1, <2>1, <2>2, <2>3, <2>4, <2>5, <2>6
  <1>3. StageInv'
    <2>1. \A r \in posted' : stage'[r] \in {"ended", "closed"}
      BY DEF Shape, TypeOK, StageInv, CheckEntityBudget, Leave, Finish, SettleUsage, Lose
    <2>2. \A r \in admitted' : stage'[r] \in {"running", "ended", "closed", "lost"}
      BY <1>1 DEF Shape, TypeOK, StageInv, CheckEntityBudget, Leave, Finish, SettleUsage, Lose
    <2>3. \A r \in Requests : stage'[r] # "checking" => read'[r] = {}
      <3>1. ASSUME NEW b \in Budgets, CheckEntityBudget(q, b)
            PROVE  \A r \in Requests : stage'[r] # "checking" => read'[r] = {}
        <4>1. \/ read' = [read EXCEPT ![q] = {}] /\ stage' = [stage EXCEPT ![q] = "denied"]
              \/ /\ read' = [read EXCEPT ![q] = read[q] \union {b}]
                 /\ stage' = [stage EXCEPT ![q] = "checking"]
          BY <3>1 DEF CheckEntityBudget
        <4>. QED
          BY <4>1 DEF Shape, TypeOK, StageInv
      <3>2. CASE Leave(q)
        <4>1. read' = [read EXCEPT ![q] = {}]
          BY <3>2 DEF Leave
        <4>. QED
          BY <1>1, <4>1 DEF Shape, TypeOK, StageInv
      <3>3. CASE Finish(q) \/ SettleUsage(q) \/ Lose(q)
        <4>1. read' = read /\ stage[q] # "checking"
          BY <3>3 DEF Finish, SettleUsage, Lose
        <4>. QED
          BY <1>1, <4>1 DEF Shape, TypeOK, StageInv
      <3>. QED
        BY <3>1, <3>2, <3>3
    <2>4. \A r \in Requests : \A b \in Budgets : seen'[r][b] \subseteq posted'
      BY DEF Shape, TypeOK, StageInv, CheckEntityBudget, Leave, Finish, SettleUsage, Lose
    <2>5. \A r \in Requests : \A b \in Budgets :
            stage'[r] \in {"new", "checking", "denied"} \/ b \notin BudgetsOf[r] => left'[b][r] <= 0
      BY <1>1 DEF Shape, TypeOK, StageInv, CheckEntityBudget, Leave, Finish, SettleUsage, Lose
    <2>. QED
      BY <2>1, <2>2, <2>3, <2>4, <2>5 DEF StageInv
  <1>4. KeyInv'
    BY <1>1 DEF Shape, KeyInv
  <1>5. AmountInv'
    <2>. SUFFICES ASSUME NEW r \in admitted, NEW b \in BudgetsOf[r],
                         stage'[r] # "lost", left[b][r] > 0
                  PROVE  Exposure'[r] <= amount[b][r]
      BY <1>1 DEF AmountInv
    <2>1. r \in Requests /\ b \in Budgets
      BY DEF Shape, TypeOK
    <2>2. CASE r # q
      <3>1. Exposure'[r] = Exposure[r] /\ stage[r] # "lost"
        BY <1>1, <2>1, <2>2 DEF Exposure
      <3>. QED
        BY <3>1 DEF Shape, AmountInv
    <2>3. CASE r = q
      <3>1. stage[q] \in {"running", "ended", "closed", "lost"}
        BY <2>3 DEF Shape, StageInv
      <3>2. stage[q] # "lost" /\ stage'[q] \in {"ended", "closed"}
        BY <3>1, <2>3 DEF Shape, TypeOK, CheckEntityBudget, Leave, Finish, SettleUsage, Lose
      <3>3. Exposure'[q] = Smaller(Est[q], cost'[q]) /\ Exposure'[q] <= Est[q]
        BY <3>2, <1>2 DEF Exposure, Smaller, TypeOK
      <3>4. Exposure'[q] <= Exposure[q]
        <4>1. CASE stage[q] = "running"
          BY <4>1, <3>3 DEF Exposure
        <4>2. CASE stage[q] # "running"
          <5>1. cost' = cost
            BY <3>1, <4>2 DEF CheckEntityBudget, Leave, Finish, SettleUsage, Lose
          <5>. QED
            BY <5>1, <4>2, <3>3, ExposureType DEF Exposure, Shape
        <4>. QED
          BY <4>1, <4>2
      <3>5. Exposure[q] <= amount[b][q]
        BY <2>3, <3>2 DEF Shape, AmountInv
      <3>6. Exposure[q] \in Nat /\ Exposure'[q] \in Int /\ amount[b][q] \in Nat
        BY <3>3, <1>2, <2>1, ExposureType DEF Shape, TypeOK, Smaller
      <3>. QED
        BY <3>4, <3>5, <3>6, <2>3
    <2>. QED
      BY <2>2, <2>3
  <1>6. AllBudgetsOrNone'
    <2>. SUFFICES ASSUME NEW r \in Requests, NEW b \in BudgetsOf[r], NEW c \in BudgetsOf[r],
                         left[b][r] > 0
                  PROVE  left[c][r] = left[b][r] /\ stage'[r] # "denied"
      BY <1>1 DEF AllBudgetsOrNone
    <2>1. left[c][r] = left[b][r]
      BY DEF Shape, AllBudgetsOrNone
    <2>2. b \in Budgets
      OBVIOUS
    <2>3. stage'[r] # "denied"
      BY <1>1, <1>3, <2>2, ValueTypes DEF StageInv, Shape
    <2>. QED
      BY <2>1, <2>3
  <1>. QED
    BY <1>2, <1>3, <1>4, <1>5, <1>6 DEF Shape

(* The reservation script admits, whether or not its reply arrives. *)
LEMMA ShapeCommit ==
    ASSUME Shape, NEW q \in Requests, Leave(q), Commit(q),
           stage' = [stage EXCEPT ![q] = "running"],
           admitted' = admitted \/ admitted' = admitted \union {q},
           UNCHANGED late
    PROVE  Shape'
  <1>. USE LiveDenominatorAssumption
  <1>1. /\ stage[q] = "checking" /\ stage' = [stage EXCEPT ![q] = "running"]
        /\ read' = [read EXCEPT ![q] = {}]
        /\ seen' = [seen EXCEPT ![q] = [b \in Budgets |-> {}]]
        /\ age' = [age EXCEPT ![q] = 0]
        /\ UNCHANGED <<cost, posted>>
    BY DEF Leave
  <1>2. TypeOK'
    <2>1. [b \in Budgets |-> {}] \in [Budgets -> SUBSET Requests]
      OBVIOUS
    <2>2. seen' \in [Requests -> [Budgets -> SUBSET Requests]]
      BY <1>1, <2>1 DEF Shape, TypeOK
    <2>. QED
      BY <1>1, <2>2, CommitEffect DEF Shape, TypeOK, Stages
  <1>3. StageInv'
    <2>1. \A r \in posted' : stage'[r] \in {"ended", "closed"}
      BY <1>1 DEF Shape, TypeOK, StageInv
    <2>2. \A r \in admitted' : stage'[r] \in {"running", "ended", "closed", "lost"}
      BY <1>1 DEF Shape, TypeOK, StageInv
    <2>3. \A r \in Requests : stage'[r] # "checking" => read'[r] = {}
      BY <1>1 DEF Shape, TypeOK, StageInv
    <2>4. \A r \in Requests : \A b \in Budgets : seen'[r][b] \subseteq posted'
      BY <1>1 DEF Shape, TypeOK, StageInv
    <2>5. ASSUME NEW r \in Requests, NEW b \in Budgets,
                 stage'[r] \in {"new", "checking", "denied"} \/ b \notin BudgetsOf[r]
          PROVE  left'[b][r] <= 0
      <3>1. ~(b \in BudgetsOf[q] /\ r = q)
        BY <1>1, <2>5 DEF Shape, TypeOK
      <3>2. left[b][r] <= 0
        BY <1>1, <2>5 DEF Shape, TypeOK, StageInv
      <3>3. left'[b][r] = Absent \/ left'[b][r] = left[b][r]
        BY <3>1, CommitEffect DEF Shape
      <3>. QED
        BY <3>2, <3>3 DEF Absent
    <2>. QED
      BY <2>1, <2>2, <2>3, <2>4, <2>5 DEF StageInv
  <1>4. KeyInv'
    <2>. SUFFICES ASSUME NEW b \in Budgets, NEW r \in Requests PROVE left'[b][r] <= ttl'[b]
      BY DEF KeyInv
    <2>1. left[b][r] <= ttl[b]
      BY DEF Shape, KeyInv
    <2>2. /\ left[b][r] \in Int /\ left[b][r] <= TTL /\ ttl[b] \in Nat /\ TTL \in Nat
      BY ValueTypes DEF Shape
    <2>3. /\ left'[b][r] = IF b \in BudgetsOf[q]
                           THEN IF r = q THEN TTL
                                ELSE IF left[b][r] <= 0 THEN Absent ELSE left[b][r]
                           ELSE left[b][r]
          /\ ttl'[b] = IF b \in BudgetsOf[q] THEN TTL ELSE ttl[b]
      BY CommitEffect DEF Shape
    <2>. QED
      BY <2>1, <2>2, <2>3 DEF Absent
  <1>5. AmountInv'
    <2>. SUFFICES ASSUME NEW r \in admitted', NEW b \in BudgetsOf[r],
                         stage'[r] # "lost", left'[b][r] > 0
                  PROVE  Exposure'[r] <= amount'[b][r]
      BY DEF AmountInv
    <2>1. r \in Requests /\ b \in Budgets
      BY <1>2 DEF TypeOK
    <2>2. CASE r = q
      <3>1. Exposure'[q] = Est[q]
        BY <1>1 DEF Exposure, Shape, TypeOK
      <3>2. amount'[b][q] = Est[q]
        BY <2>1, <2>2, CommitEffect DEF Shape
      <3>. QED
        BY <2>2, <3>1, <3>2
    <2>3. CASE r # q
      <3>1. r \in admitted /\ stage[r] # "lost" /\ Exposure'[r] = Exposure[r]
        BY <1>1, <2>1, <2>3 DEF Exposure, Shape, TypeOK
      <3>2. amount'[b][r] = amount[b][r]
        BY <2>1, <2>3, CommitEffect DEF Shape
      <3>3. left[b][r] > 0
        BY <2>1, <2>3, CommitEffect, ValueTypes DEF Shape, Absent
      <3>. QED
        BY <3>1, <3>2, <3>3 DEF Shape, AmountInv
    <2>. QED
      BY <2>2, <2>3
  <1>6. AllBudgetsOrNone'
    <2>. SUFFICES ASSUME NEW r \in Requests, NEW b \in BudgetsOf[r], NEW c \in BudgetsOf[r],
                         left'[b][r] > 0
                  PROVE  left'[c][r] = left'[b][r] /\ stage'[r] # "denied"
      BY DEF AllBudgetsOrNone
    <2>1. b \in Budgets /\ c \in Budgets
      OBVIOUS
    <2>2. CASE r = q
      BY <1>1, <2>1, <2>2, CommitEffect DEF Shape, TypeOK
    <2>3. CASE r # q
      <3>1. left[b][r] > 0 /\ left'[b][r] = left[b][r]
        BY <2>1, <2>3, CommitEffect, ValueTypes DEF Shape, Absent
      <3>2. left[c][r] = left[b][r] /\ stage[r] # "denied"
        BY <3>1 DEF Shape, AllBudgetsOrNone
      <3>3. left'[c][r] = left[c][r]
        BY <2>1, <2>3, <3>1, <3>2, CommitEffect, ValueTypes DEF Shape
      <3>. QED
        BY <1>1, <2>3, <3>1, <3>2, <3>3 DEF Shape, TypeOK
    <2>. QED
      BY <2>2, <2>3
  <1>. QED
    BY <1>2, <1>3, <1>4, <1>5, <1>6 DEF Shape

(* The finalizer adjusts the reservation. *)
LEMMA ShapeReconcile ==
    ASSUME Shape, NEW q \in Requests, Reconcile(q), UNCHANGED late
    PROVE  Shape'
  <1>. USE LiveDenominatorAssumption
  <1>1. /\ stage[q] = "ended" /\ stage' = [stage EXCEPT ![q] = "closed"]
        /\ UNCHANGED <<seen, read, age, admitted, cost, posted>>
    BY DEF Reconcile
  <1>2. TypeOK'
    BY <1>1, ReconcileEffect DEF Shape, TypeOK, Stages
  <1>3. StageInv'
    <2>1. /\ \A r \in posted' : stage'[r] \in {"ended", "closed"}
          /\ \A r \in admitted' : stage'[r] \in {"running", "ended", "closed", "lost"}
          /\ \A r \in Requests : stage'[r] # "checking" => read'[r] = {}
          /\ \A r \in Requests : \A b \in Budgets : seen'[r][b] \subseteq posted'
      BY <1>1 DEF Shape, TypeOK, StageInv
    <2>2. ASSUME NEW r \in Requests, NEW b \in Budgets,
                 stage'[r] \in {"new", "checking", "denied"} \/ b \notin BudgetsOf[r]
          PROVE  left'[b][r] <= 0
      <3>1. ~(b \in BudgetsOf[q] /\ r = q)
        BY <1>1, <2>2 DEF Shape, TypeOK
      <3>2. left[b][r] <= 0
        BY <1>1, <2>2 DEF Shape, TypeOK, StageInv
      <3>3. left'[b][r] = left[b][r]
        BY <3>1, ReconcileEffect DEF Shape
      <3>. QED
        BY <3>2, <3>3
    <2>. QED
      BY <2>1, <2>2 DEF StageInv
  <1>4. KeyInv'
    <2>. SUFFICES ASSUME NEW b \in Budgets, NEW r \in Requests PROVE left'[b][r] <= ttl'[b]
      BY DEF KeyInv
    <2>1. left[b][r] <= ttl[b]
      BY DEF Shape, KeyInv
    <2>2. /\ left[b][r] \in Int /\ left[b][r] <= TTL /\ ttl[b] \in Nat /\ TTL \in Nat
      BY ValueTypes DEF Shape
    <2>3. /\ left'[b][r] = IF b \in BudgetsOf[q] /\ r = q
                           THEN IF left[b][q] > 0 THEN TTL ELSE Absent
                           ELSE left[b][r]
          /\ ttl'[b] = IF b \in BudgetsOf[q] /\ left[b][q] > 0 THEN TTL ELSE ttl[b]
      BY ReconcileEffect DEF Shape
    <2>. QED
      BY <2>1, <2>2, <2>3 DEF Absent
  <1>5. AmountInv'
    <2>. SUFFICES ASSUME NEW r \in admitted, NEW b \in BudgetsOf[r],
                         stage'[r] # "lost", left'[b][r] > 0
                  PROVE  Exposure'[r] <= amount'[b][r]
      BY <1>1 DEF AmountInv
    <2>1. r \in Requests /\ b \in Budgets
      BY DEF Shape, TypeOK
    <2>2. Exposure'[r] = Exposure[r] /\ stage[r] # "lost"
      BY <1>1, <2>1 DEF Exposure, Shape, TypeOK
    <2>3. CASE r = q
      <3>1. left[b][q] > 0 /\ amount'[b][q] = cost[q]
        BY <2>1, <2>3, ReconcileEffect DEF Shape, Absent
      <3>2. Exposure[q] <= cost[q]
        BY <1>1, ValueTypes, <2>1 DEF Exposure, Smaller, Shape
      <3>. QED
        BY <2>2, <2>3, <3>1, <3>2
    <2>4. CASE r # q
      <3>1. left'[b][r] = left[b][r] /\ amount'[b][r] = amount[b][r]
        BY <2>1, <2>4, ReconcileEffect DEF Shape
      <3>. QED
        BY <2>2, <3>1 DEF Shape, AmountInv
    <2>. QED
      BY <2>3, <2>4
  <1>6. AllBudgetsOrNone'
    <2>. SUFFICES ASSUME NEW r \in Requests, NEW b \in BudgetsOf[r], NEW c \in BudgetsOf[r],
                         left'[b][r] > 0
                  PROVE  left'[c][r] = left'[b][r] /\ stage'[r] # "denied"
      BY DEF AllBudgetsOrNone
    <2>1. b \in Budgets /\ c \in Budgets
      OBVIOUS
    <2>2. left[b][r] > 0
      BY <2>1, ReconcileEffect DEF Shape, Absent
    <2>3. left[c][r] = left[b][r] /\ stage[r] # "denied"
      BY <2>2 DEF Shape, AllBudgetsOrNone
    <2>4. left'[c][r] = left'[b][r]
      BY <2>1, <2>2, <2>3, ReconcileEffect DEF Shape
    <2>. QED
      BY <1>1, <2>3, <2>4 DEF Shape, TypeOK
  <1>. QED
    BY <1>2, <1>3, <1>4, <1>5, <1>6 DEF Shape

(* Time passes. *)
LEMMA ShapeTick ==
    ASSUME Shape, Tick
    PROVE  Shape'
  <1>. USE LiveDenominatorAssumption
  <1>1. UNCHANGED <<amount, stage, seen, read, admitted, cost, posted>>
    BY DEF Tick
  <1>2. TypeOK'
    <2>1. late' \subseteq admitted'
      BY DEF Tick, Shape, TypeOK
    <2>. QED
      BY <1>1, <2>1, TickEffect DEF Shape, TypeOK
  <1>3. StageInv'
    <2>1. ASSUME NEW r \in Requests, NEW b \in Budgets,
                 stage[r] \in {"new", "checking", "denied"} \/ b \notin BudgetsOf[r]
          PROVE  left'[b][r] <= 0
      <3>1. left[b][r] <= 0
        BY <2>1 DEF Shape, StageInv
      <3>. QED
        BY <3>1, TickEffect, ValueTypes DEF Shape
    <2>. QED
      BY <1>1, <2>1 DEF Shape, StageInv
  <1>4. KeyInv'
    BY TickEffect DEF KeyInv, Shape
  <1>5. AmountInv'
    <2>. SUFFICES ASSUME NEW r \in admitted, NEW b \in BudgetsOf[r],
                         stage[r] # "lost", left'[b][r] > 0
                  PROVE  Exposure[r] <= amount[b][r]
      BY <1>1 DEF AmountInv, Exposure
    <2>1. r \in Requests /\ b \in Budgets
      BY DEF Shape, TypeOK
    <2>2. left[b][r] > 0
      BY <2>1, <1>2, TickEffect, ValueTypes DEF Shape
    <2>. QED
      BY <2>2 DEF Shape, AmountInv
  <1>6. AllBudgetsOrNone'
    <2>. SUFFICES ASSUME NEW r \in Requests, NEW b \in BudgetsOf[r], NEW c \in BudgetsOf[r],
                         left'[b][r] > 0
                  PROVE  left'[c][r] = left'[b][r] /\ stage[r] # "denied"
      BY <1>1 DEF AllBudgetsOrNone
    <2>1. b \in Budgets /\ c \in Budgets
      OBVIOUS
    <2>2. left[b][r] > 0 /\ left[b][r] > 1
      BY <2>1, TickEffect, ValueTypes DEF Shape
    <2>3. left[c][r] = left[b][r] /\ stage[r] # "denied"
      BY <2>2 DEF Shape, AllBudgetsOrNone
    <2>4. left'[b][r] = left[b][r] - 1 /\ left'[c][r] = left[c][r] - 1
      BY <2>1, <2>2, <2>3, TickEffect, ValueTypes DEF Shape
    <2>. QED
      BY <2>3, <2>4
  <1>. QED
    BY <1>2, <1>3, <1>4, <1>5, <1>6 DEF Shape

(* Every step of a request and of time keeps the shape. *)
LEMMA ShapeNext ==
    ASSUME Shape, [Next]_vars
    PROVE  Shape'
  <1>1. CASE UNCHANGED vars
    BY <1>1 DEF vars, Shape, TypeOK, StageInv, KeyInv, AmountInv, AllBudgetsOrNone, Exposure
  <1>2. CASE Tick
    BY <1>2, ShapeTick
  <1>3. ASSUME NEW q \in Requests, RequestStep(q), UNCHANGED late
        PROVE  Shape'
    <2>1. CASE Reconcile(q)
      BY <1>3, <2>1, ShapeReconcile
    <2>2. CASE Reserve(q)
      BY <1>3, <2>2, ShapeCommit, ShapeSameHash DEF Reserve, Decide
    <2>3. CASE ReserveDegraded(q)
      BY <1>3, <2>3, ShapeCommit, ShapeSameHash DEF ReserveDegraded
    <2>. QED
      BY <1>3, <2>1, <2>2, <2>3, ShapeSameHash DEF RequestStep
  <1>. QED
    BY <1>1, <1>2, <1>3, LateByTickOnly DEF Next

(* Every reachable state has the shape above. *)
THEOREM ShapeAlways == Spec => []Shape
  <1>1. Init => Shape
    BY ShapeInit
  <1>2. Shape /\ [Next]_vars => Shape'
    BY ShapeNext
  <1>. QED
    BY <1>1, <1>2, PTL DEF Spec

(* The state of the reservations is always well typed. *)
THEOREM TypeCorrect == Spec => []TypeOK
  <1>1. Shape => TypeOK
    BY DEF Shape
  <1>. QED
    BY <1>1, ShapeAlways, PTL

(* A request is reserved in all of its budgets, with one deadline, or in    *)
(* none of them; a denied request in none: the deny path writes nothing.    *)
THEOREM AllOrNothing == Spec => []AllBudgetsOrNone
  <1>1. Shape => AllBudgetsOrNone
    BY DEF Shape
  <1>. QED
    BY <1>1, ShapeAlways, PTL

(* No step makes a decided request's expired field count again: not the     *)
(* late finalizer, not another request's script, not the passage of time.   *)
THEOREM NoResurrection == Spec => ExpiredStaysExpired
  <1>1. ASSUME Shape, [Next]_vars, NEW q \in Requests, NEW b \in Budgets,
               stage[q] \notin {"new", "checking"}, left[b][q] <= 0
        PROVE  (left[b][q])' <= 0
    <2>. USE LiveDenominatorAssumption
    <2>1. CASE UNCHANGED left
      BY <1>1, <2>1
    <2>2. CASE Tick
      BY <1>1, <2>2, TickEffect, ValueTypes DEF Shape
    <2>3. ASSUME NEW r \in Requests, Reconcile(r)
          PROVE  (left[b][q])' <= 0
      <3>1. left'[b][q] = IF b \in BudgetsOf[r] /\ q = r
                          THEN IF left[b][r] > 0 THEN TTL ELSE Absent
                          ELSE left[b][q]
        BY <1>1, <2>3, ReconcileEffect DEF Shape
      <3>2. left[b][q] \in Int /\ left[b][q] <= 0
        BY <1>1, ValueTypes DEF Shape
      <3>3. left'[b][q] <= 0
        BY <3>1, <3>2 DEF Absent
      <3>. QED
        BY <3>3
    <2>4. ASSUME NEW r \in Requests, Leave(r), Commit(r)
          PROVE  (left[b][q])' <= 0
      <3>1. r # q
        BY <1>1, <2>4 DEF Leave
      <3>2. left'[b][q] = Absent \/ left'[b][q] = left[b][q]
        BY <1>1, <2>4, <3>1, CommitEffect DEF Shape
      <3>. QED
        BY <1>1, <3>2 DEF Absent
    <2>5. ASSUME NEW r \in Requests, RequestStep(r)
          PROVE  (left[b][q])' <= 0
      <3>1. \/ UNCHANGED left \/ Reconcile(r) \/ (Leave(r) /\ Commit(r))
        BY <2>5 DEF RequestStep, CheckEntityBudget, Reserve, Decide, ReserveDegraded,
                    Finish, SettleUsage, Lose, hash
      <3>. QED
        BY <3>1, <2>1, <2>3, <2>4
    <2>. QED
      BY <1>1, <2>1, <2>2, <2>5 DEF Next, vars
  <1>2. Shape /\ [Next]_vars =>
          [\A q \in Requests : \A b \in Budgets :
             (stage[q] \notin {"new", "checking"} /\ left[b][q] <= 0) => (left[b][q])' <= 0]_vars
    BY <1>1
  <1>. QED
    BY <1>2, ShapeAlways, PTL DEF Spec, ExpiredStaysExpired

-----------------------------------------------------------------------------
(* The cap *)

(* No step uncovers a request that is not late: a field is lost by a tick   *)
(* only, which then makes its request late, and a reader can only need the  *)
(* reservation of a request whose debit was not there when it read.         *)
LEMMA CoverNext ==
    ASSUME Shape, CoverInv, [Next]_vars
    PROVE  CoverInv'
  <1>. USE LiveDenominatorAssumption
  <1>0. Shape'
    BY ShapeNext
  <1>. SUFFICES ASSUME NEW x \in admitted' \ late', NEW b \in BudgetsOf[x],
                       stage'[x] # "lost", Needed(x, b)'
                PROVE  left'[b][x] > 0
    BY DEF CoverInv
  <1>1. x \in Requests /\ b \in Budgets
    BY <1>0 DEF Shape, TypeOK
  <1>2. /\ TTL \in Nat /\ TTL > 0
        /\ left[b][x] \in Int /\ left'[b][x] \in Int
    BY <1>0, <1>1, ValueTypes DEF Shape, TypeOK, Absent
  <1>3. ASSUME x \in admitted \ late, stage[x] # "lost", Needed(x, b),
               left[b][x] > 0 => left'[b][x] > 0
        PROVE  left'[b][x] > 0
    BY <1>3 DEF CoverInv
  <1>4. CASE UNCHANGED vars
    BY <1>3, <1>4 DEF vars, Needed
  <1>5. CASE Tick
    <2>1. UNCHANGED <<stage, seen, read, admitted, posted>> /\ late \subseteq late'
      BY <1>5 DEF Tick
    <2>2. Needed(x, b) /\ x \in admitted \ late /\ stage[x] # "lost"
      BY <2>1 DEF Needed
    <2>3. left[b][x] > 0
      BY <2>2 DEF CoverInv
    <2>4. late' = late \union {q \in admitted : \E c \in BudgetsOf[q] :
                              left[c][q] > 0 /\ (left[c][q])' <= 0 /\ Needed(q, c)}
      BY <1>5 DEF Tick
    <2>5. ~((left[b][x])' <= 0)
      BY <2>2, <2>3, <2>4
    <2>. QED
      BY <1>2, <2>5
  <1>6. ASSUME NEW q \in Requests, NEW c \in Budgets, CheckEntityBudget(q, c), UNCHANGED late
        PROVE  left'[b][x] > 0
    <2>1. UNCHANGED <<left, admitted, posted>> /\ stage[q] \in {"new", "checking"}
      BY <1>6 DEF CheckEntityBudget, hash
    <2>2. x # q /\ stage'[x] = stage[x]
      BY <1>1, <1>6, <2>1 DEF CheckEntityBudget, Shape, StageInv, TypeOK
    <2>3. ASSUME NEW r \in Requests, b \in read'[r], x \notin seen'[r][b], x \in posted
          PROVE  b \in read[r] /\ x \notin seen[r][b]
      <3>1. CASE r # q
        <4>1. read'[r] = read[r] /\ seen'[r] = seen[r]
          BY <1>6, <3>1 DEF CheckEntityBudget, Shape, TypeOK
        <4>. QED
          BY <2>3, <4>1
      <3>2. CASE r = q
        <4>1. read'[q] # {}
          BY <2>3, <3>2
        <4>2. /\ read' = [read EXCEPT ![q] = @ \union {c}]
              /\ seen' = [seen EXCEPT ![q][c] = posted]
          BY <1>6, <4>1 DEF CheckEntityBudget, Shape, TypeOK
        <4>3. read'[q] = read[q] \union {c}
          BY <4>2 DEF Shape, TypeOK
        <4>4. seen'[q][b] = IF b = c THEN posted ELSE seen[q][b]
          BY <1>1, <4>2 DEF Shape, TypeOK
        <4>. QED
          BY <2>3, <3>2, <4>3, <4>4
      <3>. QED
        BY <3>1, <3>2
    <2>4. Needed(x, b)
      BY <2>1, <2>3 DEF Needed
    <2>. QED
      BY <1>3, <1>6, <2>1, <2>2, <2>4
  <1>7. ASSUME NEW q \in Requests, Leave(q), UNCHANGED late,
               stage' = [stage EXCEPT ![q] = "running"] \/ stage' = [stage EXCEPT ![q] = "denied"],
               admitted' = admitted \/ (admitted' = admitted \union {q} /\ Commit(q)),
               Commit(q) \/ UNCHANGED left
        PROVE  left'[b][x] > 0
    <2>1. /\ stage[q] = "checking" /\ posted' = posted
          /\ read' = [read EXCEPT ![q] = {}]
          /\ seen' = [seen EXCEPT ![q] = [c \in Budgets |-> {}]]
      BY <1>7 DEF Leave
    <2>2. CASE x = q
      <3>1. admitted' = admitted \union {q} /\ Commit(q)
        BY <1>7, <2>1, <2>2 DEF Shape, StageInv
      <3>. QED
        BY <1>1, <1>2, <2>2, <3>1, CommitEffect DEF Shape
    <2>3. CASE x # q
      <3>1. x \in admitted \ late /\ stage[x] # "lost"
        BY <1>1, <1>7, <2>1, <2>3 DEF Shape, TypeOK
      <3>2. left[b][x] > 0 => left'[b][x] > 0
        <4>1. ASSUME Commit(q), left[b][x] > 0 PROVE left'[b][x] = left[b][x]
          BY <1>1, <1>2, <1>7, <2>3, <4>1, CommitEffect DEF Shape
        <4>. QED
          BY <1>2, <1>7, <4>1
      <3>3. \A r \in Requests : b \in read'[r] =>
              b \in read[r] /\ seen'[r][b] = seen[r][b]
        BY <1>1, <2>1 DEF Shape, TypeOK
      <3>4. Needed(x, b)
        BY <2>1, <3>3 DEF Needed
      <3>. QED
        BY <1>3, <3>1, <3>2, <3>4
    <2>. QED
      BY <2>2, <2>3
  <1>8. ASSUME NEW q \in Requests, Reconcile(q), UNCHANGED late
        PROVE  left'[b][x] > 0
    <2>1. /\ stage' = [stage EXCEPT ![q] = "closed"] /\ stage[q] = "ended"
          /\ UNCHANGED <<seen, read, admitted, posted>>
      BY <1>8 DEF Reconcile
    <2>2. x \in admitted \ late /\ stage[x] # "lost" /\ Needed(x, b)
      BY <1>1, <1>8, <2>1 DEF Shape, TypeOK, Needed
    <2>3. left[b][x] > 0 => left'[b][x] > 0
      BY <1>1, <1>2, <1>8, ReconcileEffect DEF Shape
    <2>. QED
      BY <1>3, <2>2, <2>3
  <1>9. ASSUME NEW q \in Requests, Finish(q) \/ Lose(q) \/ SettleUsage(q), UNCHANGED late
        PROVE  left'[b][x] > 0
    <2>1. /\ UNCHANGED <<left, seen, read, admitted>> /\ posted \subseteq posted'
          /\ stage[q] # "lost"
      BY <1>9 DEF Finish, Lose, SettleUsage, hash
    <2>2. stage[x] # "lost"
      BY <1>1, <1>9, <2>1 DEF Finish, Lose, SettleUsage, Shape, TypeOK
    <2>3. Needed(x, b)
      BY <2>1 DEF Needed
    <2>. QED
      BY <1>3, <1>9, <2>1, <2>2, <2>3
  <1>10. ASSUME NEW q \in Requests, Reserve(q) \/ ReserveDegraded(q)
         PROVE  /\ Leave(q)
                /\ stage' = [stage EXCEPT ![q] = "running"] \/ stage' = [stage EXCEPT ![q] = "denied"]
                /\ admitted' = admitted \/ (admitted' = admitted \union {q} /\ Commit(q))
                /\ Commit(q) \/ UNCHANGED left
    BY <1>10 DEF Reserve, ReserveDegraded, Decide, hash
  <1>. QED
    BY <1>4, <1>5, <1>6, <1>7, <1>8, <1>9, <1>10, LateByTickOnly DEF Next, RequestStep

(* A step that counts no new request and raises no exposure keeps the cap. *)
LEMMA SpendNotRaised ==
    ASSUME TypeOK, TypeOK', OverrunOnlyByLate, NEW b \in Budgets,
           OnTime(b)' \subseteq OnTime(b),
           \A x \in OnTime(b)' : Exposure'[x] <= Exposure[x]
    PROVE  Total(OnTime(b)', Exposure') <= Cap[b]
  <1>. USE LiveDenominatorAssumption
  <1>1. OnTime(b) \subseteq Requests /\ OnTime(b)' \subseteq Requests
    BY DEF OnTime, Counted, TypeOK
  <1>2. IsFiniteSet(OnTime(b)) /\ IsFiniteSet(OnTime(b)')
    BY <1>1, FS_Subset
  <1>3. \A x \in Requests : Exposure[x] \in Nat /\ Exposure'[x] \in Nat
    BY DEF TypeOK, Exposure, Smaller
  <1>4. Total(OnTime(b)', Exposure') <= Total(OnTime(b), Exposure)
    BY <1>1, <1>2, <1>3, TotalMonotone
  <1>5. Total(OnTime(b)', Exposure') \in Nat /\ Total(OnTime(b), Exposure) \in Nat
    BY <1>1, <1>2, <1>3, TotalType
  <1>6. Total(OnTime(b), Exposure) <= Cap[b] /\ Cap[b] \in Nat
    BY DEF OverrunOnlyByLate, OnTime
  <1>. QED
    BY <1>4, <1>5, <1>6

(* The admission: every counted request that is not late is in the ledger   *)
(* as q read it or live in the hash, so the script's comparison covers it.  *)
LEMMA SpendAdmitted ==
    ASSUME IInv, NEW q \in Requests, Leave(q), Fits(q), Shape',
           stage' = [stage EXCEPT ![q] = "running"], admitted' = admitted \union {q},
           UNCHANGED late, NEW b \in BudgetsOf[q]
    PROVE  Total(OnTime(b)', Exposure') <= Cap[b]
  <1>. USE LiveDenominatorAssumption
  <1>. DEFINE Live == {r \in Requests \ {q} : left[b][r] > 0}
              Seen == seen[q][b] \intersect Of(b)
              C    == OnTime(b)
  <1>0. /\ b \in Budgets /\ stage[q] = "checking" /\ b \in read[q]
        /\ UNCHANGED <<cost, posted>>
    BY DEF Leave
  <1>1. C \subseteq Requests /\ Live \subseteq Requests /\ Seen \subseteq Requests
    BY <1>0 DEF OnTime, Counted, Of, IInv, Shape, TypeOK
  <1>2. IsFiniteSet(C) /\ IsFiniteSet(Live) /\ IsFiniteSet(Seen)
        /\ IsFiniteSet(C \intersect Live) /\ IsFiniteSet(C \intersect Seen)
    BY <1>1, FS_Subset
  <1>3. \A x \in Requests : /\ Exposure[x] \in Nat /\ Exposure'[x] \in Nat
                            /\ cost[x] \in Nat /\ amount[b][x] \in Nat
    <2>1. \A x \in Requests : Exposure[x] \in Nat /\ Exposure'[x] \in Nat
      BY DEF IInv, Shape, TypeOK, Exposure, Smaller
    <2>. QED
      BY <1>0, <2>1, ValueTypes DEF IInv, Shape
  <1>4. q \notin C
    BY <1>0 DEF OnTime, Counted, IInv, Shape, StageInv
  <1>5. C = (C \intersect Seen) \union (C \intersect Live)
    <2>1. ASSUME NEW x \in C, x \notin Seen PROVE x \in Live
      <3>1. x \in admitted /\ b \in BudgetsOf[x] /\ stage[x] # "lost" /\ x \in Requests /\ x # q
        BY <1>1, <1>4, <2>1 DEF OnTime, Counted
      <3>2. x \notin seen[q][b]
        BY <2>1, <3>1 DEF Of
      <3>3. x \notin late /\ Needed(x, b)
        BY <1>0, <2>1, <3>2 DEF OnTime, Needed
      <3>4. left[b][x] > 0
        BY <3>1, <3>3 DEF IInv, CoverInv
      <3>. QED
        BY <3>1, <3>4
    <2>. QED
      BY <2>1
  <1>6. Total(C \intersect Seen, Exposure) <= Total(Seen, cost)
    <2>1. \A x \in C \intersect Seen : Exposure[x] <= cost[x]
      <3>. SUFFICES ASSUME NEW x \in C \intersect Seen PROVE Exposure[x] <= cost[x]
        OBVIOUS
      <3>1. x \in posted /\ x \in Requests
        BY <1>0, <1>1 DEF IInv, Shape, StageInv
      <3>2. stage[x] # "running"
        BY <3>1 DEF IInv, Shape, StageInv
      <3>. QED
        BY <1>3, <3>1, <3>2 DEF Exposure, Smaller
    <2>. QED
      BY <1>1, <1>2, <1>3, <2>1, TotalMonotone
  <1>7. Total(C \intersect Live, Exposure) <= Total(Live, amount[b])
    <2>1. \A x \in C \intersect Live : Exposure[x] <= amount[b][x]
      BY DEF OnTime, Counted, IInv, Shape, AmountInv
    <2>. QED
      BY <1>1, <1>2, <1>3, <2>1, TotalMonotone
  <1>8. Total(C, Exposure) <= Total(C \intersect Seen, Exposure) + Total(C \intersect Live, Exposure)
    <2>1. Total((C \intersect Seen) \union (C \intersect Live), Exposure)
            <= Total(C \intersect Seen, Exposure) + Total(C \intersect Live, Exposure)
      <3>1. \A x \in (C \intersect Seen) \union (C \intersect Live) : Exposure[x] \in Nat
        BY <1>1, <1>3
      <3>. HIDE DEF C, Live, Seen
      <3>. QED
        BY <1>2, <3>1, TotalUnion
    <2>. HIDE DEF C, Live, Seen
    <2>. QED
      BY <1>5, <2>1
  <1>9. Total(Live, amount[b]) + Est[q] <= Cap[b] - Total(Seen, cost)
    BY DEF Fits, HasRoom, InFlight, Headroom
  <1>10. OnTime(b)' = C \union {q}
    <2>1. q \notin late /\ late' = late
      BY <1>0 DEF IInv, Shape, TypeOK, StageInv
    <2>2. Counted(b)' = Counted(b) \union {q}
      BY <1>0 DEF Counted, IInv, Shape, TypeOK, StageInv
    <2>. QED
      BY <2>1, <2>2 DEF OnTime
  <1>11. Exposure'[q] = Est[q] /\ \A x \in C : Exposure'[x] = Exposure[x]
    BY <1>0, <1>1, <1>4 DEF Exposure, IInv, Shape, TypeOK
  <1>12. Total(C \union {q}, Exposure') <= Total(C, Exposure') + Total({q}, Exposure')
    <2>1. IsFiniteSet({q}) /\ \A x \in C \union {q} : Exposure'[x] \in Nat
      BY <1>1, <1>3, FS_Singleton
    <2>. HIDE DEF C
    <2>. QED
      BY <1>2, <2>1, TotalUnion
  <1>13. Total({q}, Exposure') = Est[q]
    BY <1>3, <1>11, TotalSingle
  <1>14. Total(C, Exposure') <= Total(C, Exposure)
    <2>1. \A x \in C : Exposure[x] \in Nat /\ Exposure'[x] \in Nat /\ Exposure'[x] <= Exposure[x]
      BY <1>1, <1>3, <1>11
    <2>. HIDE DEF C
    <2>. QED
      BY <1>2, <2>1, TotalMonotone
  <1>15. /\ Total(C, Exposure) \in Nat /\ Total(C, Exposure') \in Nat
         /\ Total(C \intersect Seen, Exposure) \in Nat /\ Total(C \intersect Live, Exposure) \in Nat
         /\ Total(Seen, cost) \in Nat /\ Total(Live, amount[b]) \in Nat
         /\ Total(C \union {q}, Exposure') \in Nat
    <2>1. IsFiniteSet(C \union {q})
      BY <1>2, FS_AddElement
    <2>2. /\ \A x \in C : Exposure[x] \in Nat /\ Exposure'[x] \in Nat
          /\ \A x \in C \union {q} : Exposure'[x] \in Nat
          /\ \A x \in Seen : cost[x] \in Nat
          /\ \A x \in Live : amount[b][x] \in Nat
      BY <1>1, <1>3
    <2>. HIDE DEF C, Live, Seen
    <2>. QED
      BY <1>2, <2>1, <2>2, TotalType
  <1>16. Est[q] \in Nat /\ Cap[b] \in Nat
    BY <1>0
  <1>17. Total(C \union {q}, Exposure') <= Cap[b]
    <2>. HIDE DEF C, Live, Seen
    <2>. QED
      BY <1>6, <1>7, <1>8, <1>9, <1>12, <1>13, <1>14, <1>15, <1>16
  <1>. HIDE DEF C
  <1>. QED
    BY <1>10, <1>17

(* No step takes a budget over its cap but for late requests. *)
LEMMA SpendNext ==
    ASSUME IInv, [Next]_vars, Shape'
    PROVE  OverrunOnlyByLate'
  <1>. USE LiveDenominatorAssumption
  <1>. SUFFICES ASSUME NEW b \in Budgets
                PROVE  Total(OnTime(b)', Exposure') <= Cap[b]
    BY DEF OverrunOnlyByLate, OnTime
  <1>0. TypeOK /\ TypeOK' /\ OverrunOnlyByLate /\ Shape
    BY DEF IInv, Shape
  <1>a. late \subseteq late'
    BY LateByTickOnly DEF Next, Tick, vars
  <1>1. ASSUME NEW q \in Requests, Leave(q), Fits(q), Commit(q), UNCHANGED late,
               stage' = [stage EXCEPT ![q] = "running"], admitted' = admitted \union {q}
        PROVE  Total(OnTime(b)', Exposure') <= Cap[b]
    <2>1. CASE b \in BudgetsOf[q]
      BY <1>1, <2>1, SpendAdmitted
    <2>2. CASE b \notin BudgetsOf[q]
      <3>1. stage[q] = "checking" /\ cost' = cost
        BY <1>1 DEF Leave
      <3>2. OnTime(b)' \subseteq OnTime(b) \ {q}
        BY <1>0, <1>1, <2>2 DEF OnTime, Counted, TypeOK
      <3>3. \A x \in OnTime(b)' : Exposure'[x] = Exposure[x]
        BY <1>0, <1>1, <3>1, <3>2 DEF OnTime, Counted, TypeOK, Exposure
      <3>4. \A x \in OnTime(b)' : Exposure[x] \in Nat
        BY <1>0, <3>2, ExposureType DEF OnTime, Counted, TypeOK
      <3>. QED
        BY <1>0, <3>2, <3>3, <3>4, SpendNotRaised
    <2>. QED
      BY <2>1, <2>2
  <1>2. ASSUME admitted' = admitted,
               \A x \in admitted : /\ stage'[x] # "lost" => stage[x] # "lost"
                                   /\ Exposure'[x] <= Exposure[x]
        PROVE  Total(OnTime(b)', Exposure') <= Cap[b]
    <2>1. OnTime(b)' \subseteq OnTime(b) /\ \A x \in OnTime(b)' : Exposure'[x] <= Exposure[x]
      BY <1>2, <1>a DEF OnTime, Counted
    <2>. QED
      BY <1>0, <2>1, SpendNotRaised
  <1>3. \A x \in Requests : Exposure[x] \in Nat /\ Exposure'[x] \in Nat
    BY <1>0 DEF TypeOK, Exposure, Smaller
  <1>4. CASE UNCHANGED <<stage, cost, admitted>>
    <2>1. \A x \in admitted : Exposure'[x] = Exposure[x] /\ x \in Requests
      BY <1>0, <1>4 DEF Exposure, TypeOK
    <2>. QED
      BY <1>2, <1>3, <1>4, <2>1
  <1>5. ASSUME NEW q \in Requests, q \notin admitted, admitted' = admitted, cost' = cost,
               \A x \in Requests \ {q} : stage'[x] = stage[x]
        PROVE  Total(OnTime(b)', Exposure') <= Cap[b]
    <2>1. \A x \in admitted : /\ Exposure'[x] = Exposure[x] /\ x \in Requests
                              /\ stage'[x] = stage[x]
      BY <1>0, <1>5 DEF Exposure, TypeOK
    <2>. QED
      BY <1>2, <1>3, <1>5, <2>1
  <1>6. ASSUME NEW q \in Requests, Finish(q) \/ Reconcile(q) \/ Lose(q)
        PROVE  Total(OnTime(b)', Exposure') <= Cap[b]
    <2>1. /\ admitted' = admitted /\ stage[q] \in {"running", "ended"}
          /\ stage'[q] \in {"ended", "closed", "lost"}
          /\ \A x \in Requests \ {q} : stage'[x] = stage[x] /\ cost'[x] = cost[x]
          /\ stage[q] = "ended" => cost' = cost
      BY <1>0, <1>6 DEF Finish, Reconcile, Lose, TypeOK
    <2>2. ASSUME NEW x \in admitted
          PROVE  (stage'[x] # "lost" => stage[x] # "lost") /\ Exposure'[x] <= Exposure[x]
      <3>0. x \in Requests
        BY <1>0 DEF TypeOK
      <3>1. CASE x # q
        <4>1. Exposure'[x] = Exposure[x] /\ stage'[x] = stage[x]
          BY <2>1, <3>0, <3>1 DEF Exposure
        <4>. QED
          BY <1>3, <3>0, <4>1
      <3>2. CASE x = q
        <4>1. Exposure'[q] = Smaller(Est[q], cost'[q]) /\ Exposure'[q] <= Est[q]
          BY <1>0, <2>1 DEF Exposure, Smaller, TypeOK
        <4>2. Exposure'[q] <= Exposure[q]
          <5>1. CASE stage[q] = "running"
            BY <4>1, <5>1 DEF Exposure
          <5>2. CASE stage[q] = "ended"
            BY <1>3, <2>1, <4>1, <5>2 DEF Exposure
          <5>. QED
            BY <2>1, <5>1, <5>2
        <4>. QED
          BY <2>1, <3>2, <4>2
      <3>. QED
        BY <3>1, <3>2
    <2>. QED
      BY <1>2, <2>1, <2>2
  <1>7. ASSUME NEW q \in Requests, NEW c \in Budgets, CheckEntityBudget(q, c)
        PROVE  Total(OnTime(b)', Exposure') <= Cap[b]
    <2>1. /\ q \notin admitted /\ admitted' = admitted /\ cost' = cost
          /\ \A x \in Requests \ {q} : stage'[x] = stage[x]
      <3>1. stage[q] \in {"new", "checking"} /\ admitted' = admitted /\ cost' = cost
        BY <1>7 DEF CheckEntityBudget
      <3>2. q \notin admitted
        BY <1>0, <3>1 DEF Shape, StageInv
      <3>3. \A x \in Requests \ {q} : stage'[x] = stage[x]
        BY <1>0, <1>7 DEF CheckEntityBudget, TypeOK
      <3>. QED
        BY <3>1, <3>2, <3>3
    <2>. QED
      BY <1>5, <2>1
  <1>8. ASSUME NEW q \in Requests, Leave(q), admitted' = admitted,
               stage' = [stage EXCEPT ![q] = "running"] \/ stage' = [stage EXCEPT ![q] = "denied"]
        PROVE  Total(OnTime(b)', Exposure') <= Cap[b]
    <2>1. /\ q \notin admitted /\ cost' = cost
          /\ \A x \in Requests \ {q} : stage'[x] = stage[x]
      <3>1. stage[q] = "checking" /\ cost' = cost
        BY <1>8 DEF Leave
      <3>2. q \notin admitted
        BY <1>0, <3>1 DEF Shape, StageInv
      <3>. QED
        BY <1>0, <1>8, <3>1, <3>2 DEF TypeOK
    <2>. QED
      BY <1>5, <1>8, <2>1
  <1>9. ASSUME NEW q \in Requests, Reserve(q) \/ ReserveDegraded(q), UNCHANGED late
        PROVE  Total(OnTime(b)', Exposure') <= Cap[b]
    BY <1>1, <1>8, <1>9 DEF Reserve, Decide, ReserveDegraded
  <1>10. ASSUME NEW q \in Requests, SettleUsage(q)
         PROVE  Total(OnTime(b)', Exposure') <= Cap[b]
    BY <1>4, <1>10 DEF SettleUsage
  <1>11. CASE Tick \/ UNCHANGED vars
    BY <1>4, <1>11 DEF Tick, vars
  <1>. QED
    BY <1>6, <1>7, <1>9, <1>10, <1>11, LateByTickOnly DEF Next, RequestStep

(* What each script keeps, for every set of requests and budgets, whatever  *)
(* the interleaving of reads, reservations, settlements and expiries, and   *)
(* however long a call or a check takes.                                    *)
LEMMA InvariantIInv == Spec => []IInv
  <1>1. Init => IInv
    <2>1. ASSUME Init PROVE CoverInv
      BY <2>1 DEF Init, CoverInv
    <2>2. ASSUME Init, NEW b \in Budgets PROVE Total(Counted(b) \ late, Exposure) <= Cap[b]
      <3>1. Counted(b) \ late = {}
        BY <2>2 DEF Init, Counted
      <3>2. Total(Counted(b) \ late, Exposure) = 0
        BY <3>1, TotalNone
      <3>. QED
        BY <3>2, LiveDenominatorAssumption
    <2>. QED
      BY <2>1, <2>2, ShapeInit DEF IInv, OverrunOnlyByLate
  <1>2. IInv /\ [Next]_vars => IInv'
    <2>. SUFFICES ASSUME IInv, [Next]_vars PROVE IInv'
      OBVIOUS
    <2>1. Shape'
      BY ShapeNext DEF IInv
    <2>2. CoverInv'
      BY CoverNext DEF IInv
    <2>3. OverrunOnlyByLate'
      BY <2>1, SpendNext
    <2>. QED
      BY <2>1, <2>2, <2>3 DEF IInv
  <1>. QED
    BY <1>1, <1>2, PTL DEF Spec

(* A budget is exceeded by requests only that outlived their reservation    *)
(* while nothing else told of them (_RESERVE_SCRIPT, _RECONCILE_SCRIPT).    *)
THEOREM OverrunIsLate == Spec => []OverrunOnlyByLate
  <1>1. IInv => OverrunOnlyByLate
    BY DEF IInv
  <1>. QED
    BY <1>1, InvariantIInv, PTL

(* "caps stay sound" for as long as no reservation ran out early. *)
COROLLARY CapsStaySound == Spec => [](late = {} => SpendWithinCap)
  <1>1. OverrunOnlyByLate => (late = {} => SpendWithinCap)
    BY DEF OverrunOnlyByLate, SpendWithinCap
  <1>. QED
    BY <1>1, OverrunIsLate, PTL
=============================================================================
