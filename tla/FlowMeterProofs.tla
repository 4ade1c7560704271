-------------------------- MODULE FlowMeterProofs ---------------------------
(***************************************************************************)
(* Proofs about the flow meter, for any requests, quotes, costs and times: *)
(* types, one initialization, and that a request is admitted only if the   *)
(* whole spend of the flow fits its cap.                                    *)
(*                                                                         *)
(* The inductive invariant says what stands behind each request that was   *)
(* ever let through: as long as the hash is there, a charge of at least    *)
(* what the request took, or a field that keeps the meter from admitting.  *)
(***************************************************************************)
EXTENDS FlowMeter, AmountsProofs

(* The claim is made once, before the anchor is written; an anchor, present *)
(* or lost, means that the initialization is over.                          *)
ClaimInv ==
    /\ init \in {"none", "claimed", "over"}
    /\ anchored \/ lost => init = "over"
    /\ LostStaysLost

(* The steps of a request and of its repair are no part of initialization.  *)
LEMMA RequestKeepsClaim ==
    ASSUME NEW q \in Requests, RequestStep(q) \/ RepairReceipt(q) \/ RepairExpired(q)
    PROVE  UNCHANGED <<init, anchored, lost>>
<1>1. CASE ReadEnforcement(q)
    BY <1>1 DEF ReadEnforcement, hash
<1>2. CASE Observe(q)
    BY <1>2 DEF Observe, Placeholder, hash
<1>3. CASE Extend(q)
    BY <1>3 DEF Extend, Renew, hash
<1>4. CASE Reserve(q)
    BY <1>4 DEF Reserve, Hold, hash
<1>5. CASE Finish(q) \/ SettleUsage(q)
    BY <1>5 DEF Finish, SettleUsage, hash
<1>6. CASE ReconcileKnown(q)
    BY <1>6 DEF ReconcileKnown, Settle
<1>7. CASE ReconcileUnknown(q)
    BY <1>7 DEF ReconcileUnknown, hash
<1>8. CASE RetainFailedBound(q)
    BY <1>8 DEF RetainFailedBound
<1>9. CASE MarkUnknown(q) \/ MarkUnknownSet(q)
    BY <1>9 DEF MarkUnknown, MarkUnknownSet, hash
<1>10. CASE Crash(q)
    BY <1>10 DEF Crash, hash
<1>11. CASE RepairReceipt(q) \/ RepairExpired(q)
    BY <1>11 DEF RepairReceipt, RepairExpired
<1> QED
    BY <1>1, <1>2, <1>3, <1>4, <1>5, <1>6, <1>7, <1>8, <1>9, <1>10, <1>11 DEF RequestStep

(* Every step keeps it: only Initialize writes an anchor, only after Claim. *)
LEMMA ClaimNext == ClaimInv /\ [Next]_vars => ClaimInv'
<1> SUFFICES ASSUME ClaimInv, [Next]_vars PROVE ClaimInv'
    OBVIOUS
<1> USE DEF ClaimInv, LostStaysLost
<1>1. CASE UNCHANGED vars
    BY <1>1 DEF vars, hash
<1>2. CASE SetEnforcement
    BY <1>2 DEF SetEnforcement, hash
<1>3. CASE Claim
    BY <1>3 DEF Claim, hash
<1>4. CASE Initialize
    BY <1>4 DEF Initialize, hash
<1>5. CASE LoseMeter
    BY <1>5 DEF LoseMeter
<1>6. CASE Tick
    BY <1>6 DEF Tick
<1>7. CASE RepairExtend
    BY <1>7 DEF RepairExtend, Renew
<1>8. ASSUME NEW q \in Requests, RequestStep(q) \/ RepairReceipt(q) \/ RepairExpired(q)
      PROVE  ClaimInv'
    BY <1>8, RequestKeepsClaim
<1> QED
    BY <1>1, <1>2, <1>3, <1>4, <1>5, <1>6, <1>7, <1>8 DEF Next

(* Redis loss never authorizes a fresh allowance: once an initialized meter *)
(* is lost, no interleaving of preparations, crashes and mode switches      *)
(* initializes it again.                                                    *)
THEOREM NoSecondAllowance == Spec => []LostStaysLost
<1>1. Init => ClaimInv
    BY DEF Init, ClaimInv, LostStaysLost
<1>2. ClaimInv => LostStaysLost
    BY DEF ClaimInv
<1> QED
    BY <1>1, <1>2, ClaimNext, PTL DEF Spec

-----------------------------------------------------------------------------
(* The inductive invariant.                                                 *)

(* Stages in which a request was not let through.                           *)
NotBegun == {"new", "observing", "checked", "extended", "refused"}

(* What a stage says of a request's history.                                *)
Beginnings ==
    \A q \in Requests :
        /\ stage[q] \in NotBegun => q \notin off /\ q \notin receipts
        /\ stage[q] \in {"retaining", "marking"} => q \notin off
        /\ stage[q] = "running" => q \notin receipts

(* A retained bound is charged in an initialized hash only.                 *)
BoundedNeedsAnchor == ~anchored => bounded = {}

(* Between the renewal and the reservation no charge is expired, unless the *)
(* hash was lost.                                                           *)
ExtendedLive ==
    (\E q \in Requests : stage[q] = "extended") =>
        /\ anchored \/ lost
        /\ anchored => \A r \in Charged : left[r] > 0

(* What stands behind a request that was let through.                       *)
Covered(r) ==
    /\ r \in Charged
    /\ init = "claimed" => left[r] > 0
    /\ r \in off => \/ r \in unbounded
                    \/ stage[r] # "running" /\ amount[r] >= cost[r]
    /\ r \notin off => amount[r] >= Exposure[r]
Coverage == init = "claimed" \/ anchored => \A r \in Accountable : Covered(r)

IInv ==
    /\ TypeOK /\ ClaimInv
    /\ Beginnings /\ BoundedNeedsAnchor /\ ExtendedLive /\ Coverage

LEMMA ConstantFacts ==
    /\ TTL \in Nat /\ TTL > 0 /\ TTL \in Absent .. TTL
    /\ Absent \in Absent .. TTL /\ Absent = -1
    /\ SLACK \in Nat /\ TTL - SLACK > 0
    /\ MARK \in (-GRACE) .. MARK /\ 0 \in (-GRACE) .. MARK
    /\ MARK \in Nat /\ GRACE \in Nat
    /\ Est \in [Requests -> Nat] /\ Ceiling \in [Requests -> Nat]
    /\ \A q \in Requests : Costs[q] \subseteq Nat
BY FlowMeterAssumption DEF Absent

-----------------------------------------------------------------------------
(* Types.                                                                   *)

HashTyped ==
    /\ anchored \in BOOLEAN
    /\ left \in [Requests -> Absent .. TTL]
    /\ amount \in [Requests -> Nat]
    /\ pending \subseteq Requests
    /\ due \in [Requests -> (-GRACE) .. MARK]
    /\ bounded \subseteq Charged
    /\ unbounded \subseteq Requests
RestTyped ==
    /\ enabled \in BOOLEAN
    /\ init \in {"none", "claimed", "over"}
    /\ lost \in BOOLEAN
    /\ stage \in [Requests -> Stages]
    /\ off \subseteq Requests
    /\ cost \in [Requests -> Nat]
    /\ receipts \subseteq Requests
    /\ gaps \subseteq off

(* The scripts keep the hash well formed.                                   *)
LEMMA HoldTyped ==
    ASSUME HashTyped, NEW q \in Requests, Hold(q) PROVE HashTyped'
<1>1. left' = [r \in Requests |-> IF r = q THEN TTL
                                  ELSE IF left[r] = 0 THEN Absent ELSE left[r]]
    BY DEF Hold, Pruned
<1>2. left' \in [Requests -> Absent .. TTL]
    BY <1>1, ConstantFacts DEF HashTyped
<1>3. bounded' \subseteq Charged'
  <2>1. SUFFICES ASSUME NEW r \in bounded' PROVE r \in Requests /\ left'[r] # Absent
      BY DEF Charged
  <2>2. r \in Requests /\ left[r] # 0 /\ left[r] # Absent
      BY <2>1 DEF Hold, HashTyped, Charged
  <2> QED
      BY <1>1, <2>2, ConstantFacts
<1> QED
    BY <1>2, <1>3, ConstantFacts DEF HashTyped, Hold

LEMMA RenewTyped == ASSUME HashTyped, Renew PROVE HashTyped'
<1>1. PICK renew \in BOOLEAN :
         left' = [q \in Requests |-> IF renew /\ q \in Charged THEN TTL ELSE left[q]]
    BY DEF Renew
<1>2. left' \in [Requests -> Absent .. TTL]
    BY <1>1, ConstantFacts DEF HashTyped
<1>3. Charged' = Charged
    BY <1>1, ConstantFacts DEF Charged
<1> QED
    BY <1>2, <1>3 DEF HashTyped, Renew

LEMMA SettleTyped ==
    ASSUME HashTyped, RestTyped, BoundedNeedsAnchor,
           NEW q \in Requests, Settle(q)
    PROVE  HashTyped'
<1>1. CASE left[q] > 0
  <2>1. left' = [left EXCEPT ![q] = TTL] /\ bounded' = bounded \ {q}
      BY <1>1 DEF Settle
  <2>2. left' \in [Requests -> Absent .. TTL] /\ bounded' \subseteq Charged'
      BY <2>1, ConstantFacts DEF HashTyped, Charged
  <2> QED
      BY <1>1, <2>2, ConstantFacts DEF HashTyped, RestTyped, Settle
<1>2. CASE ~ (left[q] > 0)
  <2>1. /\ left' = IF anchored THEN left ELSE [left EXCEPT ![q] = Absent]
        /\ UNCHANGED <<anchored, amount, pending, due, bounded, unbounded>>
      BY <1>2 DEF Settle
  <2>2. left' \in [Requests -> Absent .. TTL]
      BY <2>1, ConstantFacts DEF HashTyped
  <2>3. bounded' \subseteq Charged'
      BY <2>1 DEF HashTyped, BoundedNeedsAnchor, Charged
  <2> QED
      BY <2>1, <2>2, <2>3 DEF HashTyped
<1> QED
    BY <1>1, <1>2

LEMMA PlaceholderTyped ==
    ASSUME HashTyped, NEW q \in Requests, Placeholder(q) PROVE HashTyped'
<1>1. left' = [left EXCEPT ![q] = TTL]
    BY DEF Placeholder
<1>2. left' \in [Requests -> Absent .. TTL] /\ Charged \subseteq Charged'
    BY <1>1, ConstantFacts DEF HashTyped, Charged
<1> QED
    BY <1>2 DEF HashTyped, Placeholder

LEMMA TypeParts == TypeOK <=> HashTyped /\ RestTyped
BY DEF TypeOK, HashTyped, RestTyped

(* The hash stands: its type does too.                                      *)
LEMMA HashStands == ASSUME HashTyped, UNCHANGED hash PROVE HashTyped'
BY DEF HashTyped, hash, Charged

LEMMA PartsNext == ASSUME IInv, [Next]_vars PROVE HashTyped' /\ RestTyped'
<1>1. HashTyped /\ RestTyped /\ BoundedNeedsAnchor
    BY TypeParts DEF IInv
<1>2. CASE UNCHANGED vars
  <2>1. RestTyped'
      BY <1>1, <1>2 DEF vars, RestTyped
  <2>2. UNCHANGED hash
      BY <1>2 DEF vars
  <2> QED
      BY <1>1, <2>1, <2>2, HashStands
<1>3. CASE SetEnforcement \/ Claim
  <2>1. RestTyped' /\ UNCHANGED hash
      BY <1>1, <1>3 DEF SetEnforcement, Claim, RestTyped
  <2> QED
      BY <1>1, <2>1, HashStands
<1>4. CASE Initialize
  <2>1. RestTyped'
      BY <1>1, <1>4 DEF Initialize, RestTyped
  <2>2. CASE UNCHANGED hash
      BY <1>1, <2>1, <2>2, HashStands
  <2>3. CASE /\ anchored' = TRUE /\ left' = Pruned({})
             /\ UNCHANGED <<amount, pending, due, bounded, unbounded>>
    <3>1. left' = [r \in Requests |-> IF left[r] = 0 THEN Absent ELSE left[r]]
        BY <2>3 DEF Pruned
    <3>2. left' \in [Requests -> Absent .. TTL]
        BY <1>1, <3>1, ConstantFacts DEF HashTyped
    <3>3. ~ anchored
        BY <1>4 DEF IInv, ClaimInv, Initialize
    <3>4. HashTyped'
        BY <1>1, <2>3, <3>2, <3>3 DEF HashTyped, BoundedNeedsAnchor
    <3> QED
        BY <2>1, <3>4
  <2> QED
      BY <1>4, <2>2, <2>3 DEF Initialize
<1>5. CASE LoseMeter
  <2>1. HashTyped'
      BY <1>5, ConstantFacts DEF LoseMeter, HashTyped
  <2>2. RestTyped'
      BY <1>1, <1>5 DEF LoseMeter, RestTyped
  <2> QED
      BY <2>1, <2>2
<1>6. CASE Tick
  <2>1. \A q \in Requests : /\ left[q] \in Absent .. TTL
                            /\ due[q] \in (-GRACE) .. MARK
      BY <1>1 DEF HashTyped
  <2>2. \A q \in Requests : /\ left[q] > 0 => left[q] - 1 \in Absent .. TTL
                            /\ due[q] > -GRACE => due[q] - 1 \in (-GRACE) .. MARK
      BY <2>1, ConstantFacts
  <2>3. /\ left' \in [Requests -> Absent .. TTL]
        /\ due' \in [Requests -> (-GRACE) .. MARK]
      BY <1>6, <2>1, <2>2 DEF Tick
  <2>4. \A q \in Charged : left'[q] # Absent
      BY <1>6, <2>1, ConstantFacts DEF Tick, Charged
  <2>5. Charged \subseteq Charged'
      BY <2>4 DEF Charged
  <2>6. HashTyped'
      BY <1>1, <1>6, <2>3, <2>5 DEF HashTyped, Tick
  <2>7. RestTyped'
      BY <1>1, <1>6 DEF Tick, RestTyped
  <2> QED
      BY <2>6, <2>7
<1>7. CASE RepairExtend
  <2>1. HashTyped'
      BY <1>1, <1>7, RenewTyped DEF RepairExtend
  <2>2. RestTyped'
      BY <1>1, <1>7 DEF RepairExtend, RestTyped
  <2> QED
      BY <2>1, <2>2
<1>8. ASSUME NEW q \in Requests, RequestStep(q) \/ RepairReceipt(q) \/ RepairExpired(q)
      PROVE  HashTyped' /\ RestTyped'
  <2>1. ASSUME RestTyped', UNCHANGED hash PROVE HashTyped' /\ RestTyped'
      BY <1>1, <2>1, HashStands
  <2>2. CASE ReadEnforcement(q)
    <3>1. RestTyped' /\ UNCHANGED hash
        BY <1>1, <2>2 DEF ReadEnforcement, Goto, RestTyped, Stages
    <3> QED
        BY <2>1, <3>1
  <2>3. CASE Observe(q)
    <3>1. RestTyped'
        BY <1>1, <2>3 DEF Observe, Goto, RestTyped, Stages
    <3>2. Placeholder(q) \/ UNCHANGED hash
        BY <2>3 DEF Observe
    <3> QED
        BY <1>1, <2>1, <3>1, <3>2, PlaceholderTyped
  <2>4. CASE Extend(q)
    <3>1. RestTyped'
        BY <1>1, <2>4 DEF Extend, Goto, RestTyped, Stages
    <3>2. Renew \/ UNCHANGED hash
        BY <2>4 DEF Extend
    <3> QED
        BY <1>1, <2>1, <3>1, <3>2, RenewTyped
  <2>5. CASE Reserve(q)
    <3>1. RestTyped'
        BY <1>1, <2>5 DEF Reserve, Goto, RestTyped, Stages
    <3>2. Hold(q) \/ UNCHANGED hash
        BY <2>5 DEF Reserve
    <3> QED
        BY <1>1, <2>1, <3>1, <3>2, HoldTyped
  <2>6. CASE Finish(q) \/ Crash(q)
    <3>1. UNCHANGED hash
        BY <2>6 DEF Finish, Crash
    <3>2. stage' \in [Requests -> Stages]
        BY <1>1, <2>6 DEF Finish, Crash, Goto, RestTyped, Stages
    <3>3. cost' \in [Requests -> Nat]
      <4>1. cost' = cost \/ \E c \in Costs[q] : cost' = [cost EXCEPT ![q] = c]
          BY <2>6 DEF Finish, Crash
      <4> QED
          BY <1>1, <4>1, ConstantFacts DEF RestTyped
    <3>4. RestTyped'
        BY <1>1, <2>6, <3>2, <3>3 DEF Finish, Crash, RestTyped
    <3> QED
        BY <2>1, <3>1, <3>4
  <2>7. CASE SettleUsage(q) \/ MarkUnknown(q)
    <3>1. RestTyped' /\ UNCHANGED hash
        BY <1>1, <2>7 DEF SettleUsage, MarkUnknown, Goto, RestTyped, Stages
    <3> QED
        BY <2>1, <3>1
  <2>8. CASE ReconcileKnown(q)
    <3>1. RestTyped' /\ Settle(q)
        BY <1>1, <2>8 DEF ReconcileKnown, Goto, RestTyped, Stages
    <3> QED
        BY <1>1, <3>1, SettleTyped
  <2>9. CASE ReconcileUnknown(q)
    <3>1. RestTyped'
        BY <1>1, <2>9 DEF ReconcileUnknown, Goto, RestTyped, Stages
    <3>2. amount' \in [Requests -> Nat] \/ UNCHANGED hash
        BY <1>1, <2>9, ConstantFacts DEF ReconcileUnknown, HashTyped
    <3>3. CASE UNCHANGED hash
        BY <2>1, <3>1, <3>3
    <3>4. CASE ~ UNCHANGED hash
      <4>1. UNCHANGED <<anchored, left, pending, due, bounded, unbounded>>
          BY <2>9, <3>4 DEF ReconcileUnknown
      <4>2. HashTyped'
          BY <1>1, <3>2, <3>4, <4>1 DEF HashTyped, Charged
      <4> QED
          BY <3>1, <4>2
    <3> QED
        BY <3>3, <3>4
  <2>10. CASE RetainFailedBound(q)
    <3>1. RestTyped'
        BY <1>1, <2>10 DEF RetainFailedBound, Goto, RestTyped, Stages
    <3>2. q \in Charged
        BY <1>1, <2>10, ConstantFacts DEF RetainFailedBound, Charged, HashTyped
    <3>3. HashTyped'
        BY <1>1, <2>10, <3>2, ConstantFacts
           DEF RetainFailedBound, HashTyped, Charged
    <3> QED
        BY <3>1, <3>3
  <2>11. CASE MarkUnknownSet(q)
    <3>1. RestTyped'
        BY <1>1, <2>11 DEF MarkUnknownSet, Goto, RestTyped, Stages
    <3>2. HashTyped'
        BY <1>1, <2>11, ConstantFacts DEF MarkUnknownSet, HashTyped, Charged
    <3> QED
        BY <3>1, <3>2
  <2>12. CASE RepairReceipt(q) \/ RepairExpired(q)
    <3>1. RestTyped'
        BY <1>1, <2>12 DEF RepairReceipt, RepairExpired, RestTyped
    <3>2. cost[q] \in Nat
        BY <1>1 DEF RestTyped
    <3>3. HashTyped'
        BY <1>1, <2>12, <3>2, ConstantFacts
           DEF RepairReceipt, RepairExpired, HashTyped, Charged
    <3> QED
        BY <3>1, <3>3
  <2> QED
      BY <1>8, <2>2, <2>3, <2>4, <2>5, <2>6, <2>7, <2>8, <2>9, <2>10, <2>11,
         <2>12 DEF RequestStep
<1> QED
    BY <1>2, <1>3, <1>4, <1>5, <1>6, <1>7, <1>8 DEF Next

LEMMA TypeNext == ASSUME IInv, [Next]_vars PROVE TypeOK'
BY PartsNext DEF TypeOK, HashTyped, RestTyped

-----------------------------------------------------------------------------
(* What a stage says.                                                       *)

(* A request that only moves among the stages of a request let through.     *)
LEMMA BeginningsNext == ASSUME IInv, [Next]_vars PROVE Beginnings'
<1>1. RestTyped /\ Beginnings
    BY TypeParts DEF IInv
<1>2. CASE UNCHANGED vars
    BY <1>1, <1>2 DEF vars, Beginnings
<1>3. CASE SetEnforcement \/ Claim \/ Initialize \/ LoseMeter \/ Tick \/ RepairExtend
  <2>1. UNCHANGED <<stage, off, receipts>>
      BY <1>3 DEF SetEnforcement, Claim, Initialize, LoseMeter, Tick, RepairExtend
  <2> QED
      BY <1>1, <2>1 DEF Beginnings
<1>4. ASSUME NEW q \in Requests, RepairReceipt(q) \/ RepairExpired(q)
      PROVE  Beginnings'
  <2>1. UNCHANGED <<stage, off, receipts>>
      BY <1>4 DEF RepairReceipt, RepairExpired
  <2> QED
      BY <1>1, <2>1 DEF Beginnings
<1>5. ASSUME NEW q \in Requests, RequestStep(q)
      PROVE  Beginnings'
  <2> USE <1>1 DEF Goto, RestTyped, Beginnings, NotBegun
  <2>1. CASE ReadEnforcement(q)
      BY <2>1 DEF ReadEnforcement
  <2>2. CASE Observe(q)
      BY <2>2 DEF Observe
  <2>3. CASE Extend(q)
      BY <2>3 DEF Extend
  <2>4. CASE Reserve(q)
      BY <2>4 DEF Reserve
  <2>5. CASE Finish(q)
      BY <2>5 DEF Finish
  <2>6. CASE SettleUsage(q)
      BY <2>6 DEF SettleUsage
  <2>7. CASE ReconcileKnown(q)
      BY <2>7 DEF ReconcileKnown
  <2>8. CASE ReconcileUnknown(q)
      BY <2>8 DEF ReconcileUnknown
  <2>9. CASE RetainFailedBound(q)
      BY <2>9 DEF RetainFailedBound
  <2>10. CASE MarkUnknown(q)
      BY <2>10 DEF MarkUnknown
  <2>11. CASE MarkUnknownSet(q)
      BY <2>11 DEF MarkUnknownSet
  <2>12. CASE Crash(q)
      BY <2>12 DEF Crash
  <2> QED
      BY <1>5, <2>1, <2>2, <2>3, <2>4, <2>5, <2>6, <2>7, <2>8, <2>9, <2>10,
         <2>11, <2>12 DEF RequestStep
<1> QED
    BY <1>2, <1>3, <1>4, <1>5 DEF Next

(* The two scripts that write a bounded field demand the anchor, and losing *)
(* the anchor loses the fields.                                             *)
LEMMA BoundedNeedsAnchorNext == ASSUME IInv, [Next]_vars PROVE BoundedNeedsAnchor'
<1>1. BoundedNeedsAnchor /\ ClaimInv
    BY DEF IInv
<1> USE <1>1 DEF BoundedNeedsAnchor
<1>2. CASE UNCHANGED vars
    BY <1>2 DEF vars, hash
<1>3. CASE SetEnforcement \/ Claim
    BY <1>3 DEF SetEnforcement, Claim, hash
<1>4. CASE Initialize
    BY <1>4 DEF Initialize, hash
<1>5. CASE LoseMeter
    BY <1>5 DEF LoseMeter
<1>6. CASE Tick \/ RepairExtend
    BY <1>6 DEF Tick, RepairExtend, Renew
<1>7. ASSUME NEW q \in Requests, RequestStep(q) \/ RepairReceipt(q) \/ RepairExpired(q)
      PROVE  BoundedNeedsAnchor'
  <2>1. CASE ReadEnforcement(q) \/ Finish(q) \/ SettleUsage(q) \/ MarkUnknown(q) \/ Crash(q)
      BY <2>1 DEF ReadEnforcement, Finish, SettleUsage, MarkUnknown, Crash, hash
  <2>2. CASE Observe(q)
      BY <2>2 DEF Observe, Placeholder, hash
  <2>3. CASE Extend(q)
      BY <2>3 DEF Extend, Renew, hash
  <2>4. CASE Reserve(q)
      BY <2>4 DEF Reserve, Admits, Hold, hash
  <2>5. CASE ReconcileKnown(q)
      BY <2>5 DEF ReconcileKnown, Settle
  <2>6. CASE ReconcileUnknown(q)
      BY <2>6 DEF ReconcileUnknown, hash
  <2>7. CASE RetainFailedBound(q) \/ MarkUnknownSet(q)
      BY <2>7 DEF RetainFailedBound, MarkUnknownSet
  <2>8. CASE RepairReceipt(q) \/ RepairExpired(q)
      BY <2>8 DEF RepairReceipt, RepairExpired, Sound
  <2> QED
      BY <1>7, <2>1, <2>2, <2>3, <2>4, <2>5, <2>6, <2>7, <2>8 DEF RequestStep
<1> QED
    BY <1>2, <1>3, <1>4, <1>5, <1>6, <1>7 DEF Next

-----------------------------------------------------------------------------
(* No charge is expired between the renewal and the reservation.            *)

(* A step that begins no such pair of calls and lets no charge expire.      *)
LEMMA LiveStands ==
    ASSUME ExtendedLive, UNCHANGED <<anchored, lost>>,
           \A q \in Requests : stage'[q] = "extended" => stage[q] = "extended",
           \A q \in Requests : left'[q] # Absent => left'[q] = left[q] \/ left'[q] > 0
    PROVE  ExtendedLive'
BY DEF ExtendedLive, Charged

LEMMA RenewLive ==
    ASSUME HashTyped, Renew, NEW q \in Requests
    PROVE  /\ left'[q] = left[q] \/ (left[q] # Absent /\ left'[q] = TTL)
           /\ left'[q] # Absent => left'[q] > 0
<1>1. PICK renew \in {b \in BOOLEAN : (\E p \in Charged : left[p] < TTL - SLACK) => b} :
         left' = [p \in Requests |-> IF renew /\ p \in Charged THEN TTL ELSE left[p]]
    BY DEF Renew
<1>2. left'[q] = IF renew /\ q \in Charged THEN TTL ELSE left[q]
    BY <1>1
<1>3. left[q] \in Absent .. TTL
    BY DEF HashTyped
<1>4. ~ renew /\ q \in Charged => left[q] >= TTL - SLACK
    BY <1>1, <1>3, ConstantFacts
<1>5. CASE renew /\ q \in Charged
  <2>1. left'[q] = TTL /\ left[q] # Absent
      BY <1>2, <1>5 DEF Charged
  <2> QED
      BY <2>1, ConstantFacts
<1>6. CASE ~ renew /\ q \in Charged
  <2>1. left'[q] = left[q] /\ left[q] >= TTL - SLACK
      BY <1>2, <1>4, <1>6
  <2> QED
      BY <2>1, <1>3, ConstantFacts
<1>7. CASE q \notin Charged
  <2>1. left'[q] = left[q] /\ left[q] = Absent
      BY <1>2, <1>7 DEF Charged
  <2> QED
      BY <2>1
<1> QED
    BY <1>5, <1>6, <1>7

(* Extend leaves only live charges behind.                                  *)
LEMMA ExtendLive ==
    ASSUME HashTyped, Sound, Renew PROVE ExtendedLive'
<1>1. \A r \in Charged' : left'[r] > 0
    BY RenewLive DEF Charged
<1>2. anchored'
    BY DEF Sound, Renew
<1> QED
    BY <1>1, <1>2 DEF ExtendedLive

LEMMA HoldLive ==
    ASSUME HashTyped, NEW q \in Requests, Hold(q), NEW r \in Requests
    PROVE  /\ r = q => left'[r] = TTL
           /\ r # q /\ left[r] # 0 => left'[r] = left[r]
           /\ r # q /\ left[r] = 0 => left'[r] = Absent
<1>1. left' = [p \in Requests |-> IF p = q THEN TTL
                                  ELSE IF left[p] = 0 THEN Absent ELSE left[p]]
    BY DEF Hold, Pruned
<1> QED
    BY <1>1

LEMMA ExtendedLiveNext == ASSUME IInv, [Next]_vars PROVE ExtendedLive'
<1>1. HashTyped /\ RestTyped /\ ExtendedLive /\ ClaimInv
    BY TypeParts DEF IInv
<1>2. CASE UNCHANGED vars
    BY <1>1, <1>2, LiveStands DEF vars, hash
<1>3. CASE SetEnforcement \/ Claim
    BY <1>1, <1>3, LiveStands DEF SetEnforcement, Claim, hash
<1>4. CASE Initialize
  <2>1. ~ anchored /\ ~ lost /\ stage' = stage
      BY <1>1, <1>4 DEF Initialize, ClaimInv
  <2> QED
      BY <1>1, <2>1 DEF ExtendedLive
<1>5. CASE LoseMeter
    BY <1>5 DEF LoseMeter, ExtendedLive
<1>6. CASE Tick
    BY <1>6 DEF Tick, ExtendedLive
<1>7. CASE RepairExtend
  <2>1. UNCHANGED <<anchored, lost, stage>>
      BY <1>7 DEF RepairExtend, Renew
  <2>2. Renew
      BY <1>7 DEF RepairExtend
  <2> QED
      BY <1>1, <2>1, <2>2, RenewLive, LiveStands
<1>8. ASSUME NEW q \in Requests, RequestStep(q) \/ RepairReceipt(q) \/ RepairExpired(q)
      PROVE  ExtendedLive'
  <2> DEFINE Steady == \A p \in Requests : stage'[p] = "extended" => stage[p] = "extended"
  <2>1. CASE Extend(q)
    <3>1. CASE Sound /\ Renew
        BY <1>1, <3>1, ExtendLive
    <3>2. CASE UNCHANGED hash /\ Goto(q, "new")
      <4>1. Steady
          BY <1>1, <3>2 DEF Goto, RestTyped
      <4>2. UNCHANGED <<anchored, left, lost>>
          BY <2>1, <3>2 DEF Extend, hash
      <4> QED
          BY <1>1, <4>1, <4>2, LiveStands
    <3> QED
        BY <2>1, <3>1, <3>2 DEF Extend
  <2>2. CASE Observe(q)
    <3>1. Steady
        BY <1>1, <2>2 DEF Observe, Goto, RestTyped
    <3>2. UNCHANGED <<anchored, lost>> /\ (left' = left \/ left' = [left EXCEPT ![q] = TTL])
        BY <2>2 DEF Observe, Placeholder, hash
    <3>3. \A p \in Requests : left'[p] = left[p] \/ left'[p] > 0
        BY <1>1, <3>2, ConstantFacts DEF HashTyped
    <3> QED
        BY <1>1, <3>1, <3>2, <3>3, LiveStands
  <2>3. CASE Reserve(q)
    <3>1. Steady
        BY <1>1, <2>3 DEF Reserve, Goto, RestTyped
    <3>2. UNCHANGED <<anchored, lost>> /\ (left' = left \/ Hold(q))
        BY <2>3 DEF Reserve, Hold, hash
    <3>3. \A p \in Requests : left'[p] # Absent => left'[p] = left[p] \/ left'[p] > 0
        BY <1>1, <3>2, HoldLive, ConstantFacts
    <3> QED
        BY <1>1, <3>1, <3>2, <3>3, LiveStands
  <2>4. CASE ReconcileKnown(q)
    <3>1. Steady
        BY <1>1, <2>4 DEF ReconcileKnown, Goto, RestTyped
    <3>2. /\ UNCHANGED <<anchored, lost>>
          /\ \/ left' = left
             \/ left' = [left EXCEPT ![q] = TTL]
             \/ left' = [left EXCEPT ![q] = Absent]
        BY <2>4 DEF ReconcileKnown, Settle
    <3>3. \A p \in Requests : left'[p] # Absent => left'[p] = left[p] \/ left'[p] > 0
        BY <1>1, <3>2, ConstantFacts DEF HashTyped
    <3> QED
        BY <1>1, <3>1, <3>2, <3>3, LiveStands
  <2>5. CASE \/ ReadEnforcement(q) \/ Finish(q) \/ SettleUsage(q) \/ ReconcileUnknown(q)
             \/ RetainFailedBound(q) \/ MarkUnknown(q) \/ MarkUnknownSet(q) \/ Crash(q)
             \/ RepairReceipt(q) \/ RepairExpired(q)
    <3>1. UNCHANGED <<anchored, left, lost>>
        BY <2>5 DEF ReadEnforcement, Finish, SettleUsage, ReconcileUnknown, RetainFailedBound,
           MarkUnknown, MarkUnknownSet, Crash, RepairReceipt, RepairExpired, hash
    <3>2. \/ UNCHANGED stage
          \/ \E s \in {"checked", "observing", "ended", "closed", "retaining", "marking"} :
               stage' = [stage EXCEPT ![q] = s]
        BY <2>5 DEF ReadEnforcement, Finish, SettleUsage, ReconcileUnknown, RetainFailedBound,
           MarkUnknown, MarkUnknownSet, Crash, RepairReceipt, RepairExpired, Goto
    <3>3. Steady
        BY <1>1, <3>2 DEF RestTyped
    <3> QED
        BY <1>1, <3>1, <3>3, LiveStands
  <2> QED
      BY <1>8, <2>1, <2>2, <2>3, <2>4, <2>5 DEF RequestStep
<1> QED
    BY <1>2, <1>3, <1>4, <1>5, <1>6, <1>7, <1>8 DEF Next

-----------------------------------------------------------------------------
(* Coverage: what stands behind a request that was let through.             *)

(* Nothing of r is undone.                                                  *)
LEMMA CoveredStands ==
    ASSUME NEW r \in Requests, Covered(r),
           stage'[r] = stage[r], cost'[r] = cost[r], amount'[r] = amount[r],
           r \in off' <=> r \in off,
           r \in unbounded => r \in unbounded',
           left'[r] # Absent,
           init' = "claimed" => left'[r] > 0
    PROVE  Covered(r)'
BY DEF Covered, Charged, Exposure

LEMMA AccountableStands ==
    ASSUME gaps \subseteq gaps', NEW r \in Requests, stage'[r] = stage[r],
           r \in Accountable'
    PROVE  r \in Accountable
BY DEF Accountable, Started

(* A step of request q leaves what stands behind another request alone.     *)
(* The reservation prunes expired charges, but then it finds none.          *)
LEMMA OthersStand ==
    ASSUME IInv, NEW q \in Requests,
           RequestStep(q) \/ RepairReceipt(q) \/ RepairExpired(q),
           NEW r \in Requests, r # q
    PROVE  /\ stage'[r] = stage[r] /\ cost'[r] = cost[r] /\ amount'[r] = amount[r]
           /\ r \in off' <=> r \in off
           /\ r \in unbounded => r \in unbounded'
           /\ left[r] # Absent => left'[r] # Absent
           /\ left[r] > 0 => left'[r] > 0
           /\ gaps \subseteq gaps'
<1>1. HashTyped /\ RestTyped /\ ExtendedLive
    BY TypeParts DEF IInv
<1> USE <1>1 DEF HashTyped, RestTyped, Goto
<1>2. CASE ReadEnforcement(q) \/ SettleUsage(q) \/ MarkUnknown(q)
    BY <1>2 DEF ReadEnforcement, SettleUsage, MarkUnknown, hash
<1>3. CASE Finish(q) \/ Crash(q)
    BY <1>3 DEF Finish, Crash, hash
<1>4. CASE Observe(q)
    BY <1>4 DEF Observe, Placeholder, hash
<1>5. CASE Extend(q)
  <2>1. stage'[r] = stage[r] /\ UNCHANGED <<cost, off, gaps>>
      BY <1>5 DEF Extend
  <2>2. CASE Renew
    <3>1. left'[r] = left[r] \/ (left[r] # Absent /\ left'[r] = TTL)
        BY <2>2, RenewLive
    <3> QED
        BY <2>1, <2>2, <3>1, ConstantFacts DEF Renew
  <2>3. CASE UNCHANGED hash
      BY <2>1, <2>3 DEF hash
  <2> QED
      BY <1>5, <2>2, <2>3 DEF Extend
<1>6. CASE Reserve(q)
  <2>1. stage'[r] = stage[r] /\ UNCHANGED <<cost, off, gaps>>
      BY <1>6 DEF Reserve
  <2>2. CASE Admits(q) /\ Hold(q)
    <3>1. left[r] # 0
        BY <1>6, <2>2, ConstantFacts DEF Reserve, Admits, ExtendedLive, Charged
    <3>2. left'[r] = left[r]
        BY <2>2, <3>1, HoldLive
    <3>3. amount'[r] = amount[r] /\ unbounded' = unbounded
        BY <2>2 DEF Hold
    <3> QED
        BY <2>1, <3>2, <3>3
  <2>3. CASE UNCHANGED hash
      BY <2>1, <2>3 DEF hash
  <2> QED
      BY <1>6, <2>2, <2>3 DEF Reserve
<1>7. CASE ReconcileKnown(q)
    BY <1>7 DEF ReconcileKnown, Settle
<1>8. CASE ReconcileUnknown(q)
    BY <1>8 DEF ReconcileUnknown, hash
<1>9. CASE RetainFailedBound(q) \/ MarkUnknownSet(q)
    BY <1>9 DEF RetainFailedBound, MarkUnknownSet
<1>10. CASE RepairReceipt(q) \/ RepairExpired(q)
    BY <1>10 DEF RepairReceipt, RepairExpired
<1> QED
    BY <1>2, <1>3, <1>4, <1>5, <1>6, <1>7, <1>8, <1>9, <1>10 DEF RequestStep

(* A step of request q keeps what stands behind q, or puts it there.        *)
LEMMA OwnStands ==
    ASSUME IInv, NEW q \in Requests,
           RequestStep(q) \/ RepairReceipt(q) \/ RepairExpired(q),
           init = "claimed" \/ anchored, q \in Accountable'
    PROVE  Covered(q)'
<1>1. HashTyped /\ RestTyped /\ Beginnings /\ Coverage
    BY TypeParts DEF IInv
<1>2. init' = init /\ anchored' = anchored
    BY RequestKeepsClaim
<1>3. /\ stage[q] \in Stages /\ cost[q] \in Nat /\ amount[q] \in Nat
      /\ left[q] \in Absent .. TTL
      /\ Est[q] \in Nat /\ Ceiling[q] \in Nat
    BY <1>1, ConstantFacts DEF HashTyped, RestTyped
<1>4. ASSUME stage[q] \in {"running", "ended", "retaining", "marking", "closed"},
             q \notin gaps
      PROVE  Covered(q)
    BY <1>1, <1>4 DEF Coverage, Accountable, Started
<1>5. stage'[q] \in {"running", "ended", "retaining", "marking", "closed"} /\ q \notin gaps'
    BY DEF Accountable, Started
<1>6. CASE ReadEnforcement(q) \/ Extend(q)
    BY <1>1, <1>5, <1>6 DEF ReadEnforcement, Extend, Goto, RestTyped
<1>7. CASE Observe(q)
  <2>1. Placeholder(q) /\ off' = off \union {q} /\ stage'[q] = "running"
      BY <1>1, <1>5, <1>7 DEF Observe, Goto, RestTyped
  <2>2. left'[q] = TTL /\ q \in unbounded'
      BY <1>1, <2>1 DEF Placeholder, HashTyped
  <2> QED
      BY <2>1, <2>2, ConstantFacts DEF Covered, Charged
<1>8. CASE Reserve(q)
  <2>1. Hold(q) /\ stage'[q] = "running" /\ off' = off /\ q \notin off
      BY <1>1, <1>5, <1>8 DEF Reserve, Goto, RestTyped, Beginnings, NotBegun
  <2>2. left'[q] = TTL /\ amount'[q] = Est[q]
      BY <1>1, <2>1, HoldLive DEF Hold, HashTyped
  <2> QED
      BY <1>3, <2>1, <2>2, ConstantFacts DEF Covered, Charged, Exposure
<1>9. CASE Finish(q) \/ Crash(q)
  <2>1. /\ UNCHANGED <<left, amount, unbounded, off, gaps>>
        /\ stage'[q] \in {"ended", "closed"}
        /\ stage[q] \in {"running", "ended", "retaining", "marking"}
        /\ stage[q] = "running" \/ cost' = cost
      BY <1>1, <1>9 DEF Finish, Crash, Goto, RestTyped, hash
  <2>2. cost'[q] \in Nat
      BY PartsNext, <1>9 DEF RestTyped, RequestStep, Next
  <2>3. Covered(q)
      BY <1>4, <1>5, <2>1
  <2>4. CASE q \in off
      BY <1>2, <2>1, <2>3, <2>4 DEF Covered, Charged, Exposure
  <2>5. CASE q \notin off
    <3>1. Exposure'[q] <= Exposure[q]
        BY <1>3, <2>1, <2>2, <2>5 DEF Exposure, Smaller
    <3> QED
        BY <1>2, <1>3, <2>1, <2>2, <2>3, <2>5, <3>1 DEF Covered, Charged, Exposure, Smaller
  <2> QED
      BY <2>4, <2>5
<1>10. CASE SettleUsage(q)
  <2>1. UNCHANGED <<init, hash, stage, off, cost, gaps>>
      BY <1>10 DEF SettleUsage
  <2>2. Covered(q)
      BY <1>4, <1>5, <2>1
  <2> QED
      BY <2>1, <2>2 DEF hash, Covered, Charged, Exposure
<1>11. CASE ReconcileKnown(q)
  <2>1. /\ stage[q] = "ended" /\ stage'[q] = "closed"
        /\ UNCHANGED <<off, cost, gaps>> /\ Settle(q)
      BY <1>1, <1>11 DEF ReconcileKnown, Goto, RestTyped
  <2>2. Covered(q)
      BY <1>4, <1>5, <2>1
  <2>3. CASE left[q] > 0
    <3>1. left'[q] = TTL /\ amount'[q] = cost[q]
        BY <1>1, <2>1, <2>3 DEF Settle, HashTyped
    <3> QED
        BY <1>3, <2>1, <3>1, ConstantFacts DEF Covered, Charged, Exposure, Smaller
  <2>4. CASE ~ (left[q] > 0)
    <3>1. anchored /\ init # "claimed"
        BY <2>2, <2>4 DEF Covered
    <3>2. UNCHANGED <<left, amount, unbounded>>
        BY <2>1, <2>4, <3>1 DEF Settle
    <3> QED
        BY <1>2, <2>1, <2>2, <3>1, <3>2 DEF Covered, Charged, Exposure
  <2> QED
      BY <2>3, <2>4
<1>12. CASE ReconcileUnknown(q)
  <2>1. /\ q \notin off /\ stage[q] = "ended" /\ stage'[q] = "retaining"
        /\ UNCHANGED <<left, unbounded, off, cost, gaps>>
        /\ amount'[q] >= amount[q]
      BY <1>1, <1>3, <1>5, <1>12
         DEF ReconcileUnknown, Goto, RestTyped, HashTyped
  <2>2. Covered(q)
      BY <1>4, <1>5, <2>1
  <2>3. amount'[q] \in Nat
      BY PartsNext, <1>12 DEF HashTyped, RequestStep, Next
  <2> QED
      BY <1>2, <1>3, <2>1, <2>2, <2>3 DEF Covered, Charged, Exposure, Smaller
<1>13. CASE RetainFailedBound(q) \/ MarkUnknown(q) \/ MarkUnknownSet(q)
  <2>1. /\ UNCHANGED <<left, amount, unbounded, off, cost, gaps>>
        /\ stage[q] \in {"retaining", "marking"}
        /\ stage'[q] \in {"marking", "closed"}
      BY <1>1, <1>13 DEF RetainFailedBound, MarkUnknown, MarkUnknownSet, Goto, RestTyped, hash
  <2>2. Covered(q)
      BY <1>4, <1>5, <2>1
  <2> QED
      BY <1>2, <2>1, <2>2 DEF Covered, Charged, Exposure
<1>14. CASE RepairReceipt(q)
  <2>1. /\ UNCHANGED <<left, unbounded, stage, off, cost, gaps>>
        /\ amount'[q] = cost[q] /\ q \in receipts /\ left[q] > 0
      BY <1>1, <1>14 DEF RepairReceipt, HashTyped
  <2>2. stage[q] # "running"
      BY <1>1, <2>1 DEF Beginnings
  <2> QED
      BY <1>3, <2>1, <2>2, ConstantFacts DEF Covered, Charged, Exposure, Smaller
<1>15. CASE RepairExpired(q)
  <2>1. UNCHANGED <<left, amount, unbounded, stage, off, cost, gaps>>
      BY <1>15 DEF RepairExpired
  <2>2. Covered(q)
      BY <1>4, <1>5, <2>1
  <2> QED
      BY <1>2, <2>1, <2>2 DEF Covered, Charged, Exposure
<1> QED
    BY <1>6, <1>7, <1>8, <1>9, <1>10, <1>11, <1>12, <1>13, <1>14, <1>15 DEF RequestStep

LEMMA CoverageNext == ASSUME IInv, [Next]_vars PROVE Coverage'
<1>1. HashTyped /\ RestTyped /\ Coverage /\ ClaimInv
    BY TypeParts DEF IInv
<1>2. \A r \in Requests : left[r] \in Absent .. TTL
    BY <1>1 DEF HashTyped
<1>3. CASE UNCHANGED vars \/ SetEnforcement
  <2>1. UNCHANGED <<init, hash, stage, off, cost, gaps>>
      BY <1>3 DEF vars, SetEnforcement
  <2> QED
      BY <1>1, <2>1 DEF hash, Coverage, Accountable, Started, Covered, Charged, Exposure
<1>4. CASE Claim
    BY <1>4 DEF Claim, Coverage, Accountable, Started
<1>5. CASE Initialize
  <2>1. /\ init = "claimed" /\ init' = "over" /\ ~ anchored
        /\ UNCHANGED <<stage, off, cost, gaps>>
      BY <1>1, <1>5 DEF Initialize, ClaimInv
  <2>2. CASE UNCHANGED hash
      BY <2>1, <2>2 DEF hash, Coverage
  <2>3. CASE left' = Pruned({}) /\ UNCHANGED <<amount, pending, due, bounded, unbounded>>
    <3>1. SUFFICES ASSUME NEW r \in Requests, r \in Accountable' PROVE Covered(r)'
        BY DEF Coverage, Accountable, Started
    <3>2. r \in Accountable
        BY <2>1, <3>1, AccountableStands
    <3>3. Covered(r) /\ left[r] > 0
        BY <1>1, <2>1, <3>2 DEF Coverage, Covered
    <3>4. left'[r] = left[r]
        BY <1>2, <2>3, <3>3 DEF Pruned
    <3>5. left'[r] # Absent
        BY <1>2, <3>3, <3>4, ConstantFacts
    <3> QED
        BY <2>1, <2>3, <3>3, <3>5, CoveredStands
  <2> QED
      BY <1>5, <2>2, <2>3 DEF Initialize
<1>6. CASE LoseMeter
  <2>1. ~ anchored' /\ init' = "over"
      BY <1>1, <1>6 DEF LoseMeter, ClaimInv
  <2> QED
      BY <2>1 DEF Coverage
<1>7. CASE Tick \/ RepairExtend
  <2>1. /\ UNCHANGED <<init, anchored, amount, unbounded, stage, off, cost, gaps>>
        /\ init # "claimed" \/ ~ Tick
      BY <1>7 DEF Tick, RepairExtend, Renew
  <2>2. SUFFICES ASSUME NEW r \in Requests, r \in Accountable', init = "claimed" \/ anchored
                 PROVE  Covered(r)'
      BY <2>1 DEF Coverage, Accountable, Started
  <2>3. r \in Accountable
      BY <2>1, <2>2, AccountableStands
  <2>4. Covered(r) /\ left[r] # Absent
      BY <1>1, <2>2, <2>3 DEF Coverage, Covered, Charged
  <2>5. CASE Tick
    <3>1. left'[r] # Absent
        BY <1>2, <2>4, <2>5, ConstantFacts DEF Tick
    <3> QED
        BY <2>1, <2>4, <2>5, <3>1, CoveredStands
  <2>6. CASE RepairExtend
    <3>1. left'[r] = left[r] \/ left'[r] = TTL
        BY <1>1, <2>6, RenewLive DEF RepairExtend
    <3>2. left'[r] # Absent /\ (left[r] > 0 => left'[r] > 0)
        BY <2>4, <3>1, ConstantFacts
    <3>3. init = "claimed" => left[r] > 0
        BY <2>4 DEF Covered
    <3> QED
        BY <2>1, <2>4, <3>2, <3>3, CoveredStands
  <2> QED
      BY <1>7, <2>5, <2>6
<1>8. ASSUME NEW q \in Requests, RequestStep(q) \/ RepairReceipt(q) \/ RepairExpired(q)
      PROVE  Coverage'
  <2>1. init' = init /\ anchored' = anchored
      BY <1>8, RequestKeepsClaim
  <2>2. SUFFICES ASSUME NEW r \in Requests, r \in Accountable', init = "claimed" \/ anchored
                 PROVE  Covered(r)'
      BY <2>1 DEF Coverage, Accountable, Started
  <2>3. CASE r = q
      BY <1>8, <2>2, <2>3, OwnStands
  <2>4. CASE r # q
    <3>1. /\ stage'[r] = stage[r] /\ cost'[r] = cost[r] /\ amount'[r] = amount[r]
          /\ r \in off' <=> r \in off
          /\ r \in unbounded => r \in unbounded'
          /\ left[r] # Absent => left'[r] # Absent
          /\ left[r] > 0 => left'[r] > 0
          /\ gaps \subseteq gaps'
        BY <1>8, <2>4, OthersStand
    <3>2. r \in Accountable
        BY <2>2, <3>1, AccountableStands
    <3>3. Covered(r)
        BY <1>1, <2>2, <3>2 DEF Coverage
    <3>4. left[r] # Absent /\ (init = "claimed" => left[r] > 0)
        BY <3>3 DEF Covered, Charged
    <3> QED
        BY <2>1, <3>1, <3>3, <3>4, CoveredStands
  <2> QED
      BY <2>3, <2>4
<1> QED
    BY <1>3, <1>4, <1>5, <1>6, <1>7, <1>8 DEF Next

-----------------------------------------------------------------------------
(* Theorems.                                                                *)

LEMMA InitIInv == Init => IInv
<1> SUFFICES ASSUME Init PROVE IInv
    OBVIOUS
<1>1. TypeOK
    BY ConstantFacts DEF Init, TypeOK, Charged, Stages
<1>2. ClaimInv
    BY DEF Init, ClaimInv, LostStaysLost
<1>3. Beginnings /\ BoundedNeedsAnchor /\ ExtendedLive
    BY DEF Init, Beginnings, BoundedNeedsAnchor, ExtendedLive
<1>4. Accountable = {}
    BY DEF Init, Accountable, Started
<1> QED
    BY <1>1, <1>2, <1>3, <1>4 DEF IInv, Coverage

LEMMA StepIInv == IInv /\ [Next]_vars => IInv'
<1> SUFFICES ASSUME IInv, [Next]_vars PROVE IInv'
    OBVIOUS
<1>1. ClaimInv'
    BY ClaimNext DEF IInv
<1> QED
    BY <1>1, TypeNext, BeginningsNext, BoundedNeedsAnchorNext, ExtendedLiveNext,
       CoverageNext DEF IInv

(* Every reachable state of the meter satisfies the inductive invariant:    *)
(* whatever was let through stays accounted for or keeps the meter closed.  *)
THEOREM InvariantIInv == Spec => []IInv
BY InitIInv, StepIInv, PTL DEF Spec

(* The scripts, the finalizer and the repair pass keep the hash well formed: *)
(* every field has its type, and a retained bound always has its charge.    *)
THEOREM TypeCorrect == Spec => []TypeOK
<1>1. IInv => TypeOK
    BY DEF IInv
<1> QED
    BY <1>1, InvariantIInv, PTL

(* The state in which _RESERVE_SCRIPT admits q: everything the flow started *)
(* is in the sum of the live charges, and no unenforced request runs.       *)
LEMMA AdmittedIsCovered ==
    ASSUME IInv, NEW q \in Requests, stage[q] = "extended", Admits(q)
    PROVE  /\ Total(Accountable, Exposure) + Est[q] <= Cap
           /\ \A r \in Accountable \intersect off : stage[r] # "running"
<1>1. HashTyped /\ RestTyped /\ ExtendedLive /\ Coverage
    BY TypeParts DEF IInv
<1>2. anchored /\ unbounded = {} /\ InFlight(q) + Est[q] <= Cap
    BY DEF Admits
<1>3. \A r \in Charged : left[r] > 0
    BY <1>1, <1>2 DEF ExtendedLive
<1> DEFINE Others == {r \in Requests \ {q} : left[r] > 0}
<1>4. \A r \in Accountable : Covered(r)
    BY <1>1, <1>2 DEF Coverage
<1>5. Accountable \subseteq Others
    BY <1>3, <1>4 DEF Accountable, Started, Covered
<1>6. \A r \in Accountable \intersect off : stage[r] # "running" /\ amount[r] >= cost[r]
    BY <1>2, <1>4 DEF Covered
<1>7. \A r \in Others : amount[r] \in Nat
    BY <1>1 DEF HashTyped
<1>8. \A r \in Accountable : Exposure[r] \in Nat /\ Exposure[r] <= amount[r]
  <2>1. SUFFICES ASSUME NEW r \in Accountable
                 PROVE  Exposure[r] \in Nat /\ Exposure[r] <= amount[r]
      OBVIOUS
  <2>2. r \in Requests /\ cost[r] \in Nat /\ Est[r] \in Nat /\ amount[r] \in Nat
      BY <1>1, ConstantFacts DEF Accountable, Started, HashTyped, RestTyped
  <2>3. CASE r \in off
      BY <1>6, <2>2, <2>3 DEF Exposure
  <2>4. CASE r \notin off
    <3>1. amount[r] >= Exposure[r]
        BY <1>4, <2>4 DEF Covered
    <3>2. Exposure[r] \in Nat
        BY <2>2, <2>4 DEF Exposure, Smaller
    <3> QED
        BY <2>2, <3>1, <3>2
  <2> QED
      BY <2>3, <2>4
<1>9. IsFiniteSet(Others)
    BY FlowMeterAssumption, FS_Subset
<1>10. Total(Accountable, Exposure) <= Total(Others, amount)
    BY <1>5, <1>7, <1>8, <1>9, TotalMonotone
<1>11. /\ Total(Accountable, Exposure) \in Nat
       /\ Total(Others, amount) \in Nat
  <2>1. IsFiniteSet(Accountable)
      BY <1>5, <1>9, FS_Subset
  <2> QED
      BY <1>7, <1>8, <1>9, <2>1, TotalType
<1>12. InFlight(q) = Total(Others, amount)
    BY DEF InFlight
<1>13. Est[q] \in Nat /\ Cap \in Nat
    BY ConstantFacts, FlowMeterAssumption
<1> QED
    BY <1>2, <1>6, <1>10, <1>11, <1>12, <1>13

LEMMA StepIsCovered ==
    ASSUME IInv, [Next]_vars, NEW q \in Requests,
           stage[q] = "extended", stage'[q] = "running"
    PROVE  Admits(q)
<1>1. RestTyped
    BY TypeParts DEF IInv
<1>2. stage' # stage
    BY <1>1
<1>3. PICK p \in Requests : RequestStep(p) \/ RepairReceipt(p) \/ RepairExpired(p)
    BY <1>2 DEF Next, vars, SetEnforcement, Claim, Initialize, LoseMeter, Tick, RepairExtend
<1>4. p = q
    BY <1>3, OthersStand
<1>5. CASE Reserve(q)
    BY <1>1, <1>5 DEF Reserve, Goto, RestTyped
<1>6. CASE ~ Reserve(q)
    BY <1>1, <1>3, <1>4, <1>6
       DEF RequestStep, ReadEnforcement, Observe, Extend, Finish, SettleUsage, ReconcileKnown,
           ReconcileUnknown, RetainFailedBound, MarkUnknown, MarkUnknownSet, Crash,
           RepairReceipt, RepairExpired, Goto, RestTyped
<1> QED
    BY <1>5, <1>6

(* "Unknown usage, never a new zero allowance": a request is let through by *)
(* a strict meter only if everything the flow ever started fits in the cap  *)
(* with it, and only if no unenforced request is still running, after any   *)
(* crashes, losses of the hash, expiries, repairs and mode switches.        *)
THEOREM AdmissionIsCovered == Spec => AdmissionCovered
<1> DEFINE Step == \A q \in Requests :
                     (stage[q] = "extended" /\ stage'[q] = "running")
                       => /\ Total(Accountable, Exposure) + Est[q] <= Cap
                          /\ \A r \in Accountable \intersect off : stage[r] # "running"
<1>1. IInv /\ [Next]_vars => [Step]_vars
    BY AdmittedIsCovered, StepIsCovered
<1> HIDE DEF Step
<1>2. Spec => [][Step]_vars
    BY <1>1, InvariantIInv, PTL DEF Spec
<1> QED
    BY <1>2 DEF Step, AdmissionCovered

=============================================================================
