--------------------------- MODULE AdmissionProofs ---------------------------
(* Theorems about Admission: a hold is always described, a settled          *)
(* admission stays settled, and an admitted operation stays funded while no *)
(* session is lost - for any approvals, processes, limits and faults.       *)
EXTENDS Admission, TLAPS

Busy(p) == pc[p] # "idle"
Accounted(a) == consumed[a] \/ ledger[a] = "released"

(* The first two say that whatever is under way or held has an intent, the  *)
(* next that a settled intent owes nothing, the last that an intent is only *)
(* settled by its owner after its hold was.                                 *)
HoldHasIntent == \A a \in Approvals: ledger[a] # "none" => intent[a] # "none"
BusyHasIntent == \A p \in Processes: Busy(p) => intent[at[p]] # "none"
ResolvedAccounted ==
    \A a \in Approvals: intent[a] = "resolved" => Accounted(a)
OwnerUnresolved ==
    \A p \in Processes: Busy(p) /\ Connected(p) => intent[at[p]] # "resolved"
ResolvingAccounted ==
    \A p \in Processes: pc[p] = "resolving" => Accounted(at[p])
SettlingSound ==
    \A p \in Processes:
        pc[p] = "settling" /\ want[p] = "retained" => consumed[at[p]]

IInv ==
    /\ TypeOK
    /\ HoldHasIntent
    /\ BusyHasIntent
    /\ ResolvedAccounted
    /\ OwnerUnresolved
    /\ ResolvingAccounted
    /\ SettlingSound

LEMMA InitIInv == Init => IInv
BY AdmissionAssumption
   DEF Init, IInv, TypeOK, Steps, Processes, Unresolved, Committed,
       HoldHasIntent, BusyHasIntent, ResolvedAccounted, OwnerUnresolved,
       ResolvingAccounted, SettlingSound, Busy, Connected, Accounted

LEMMA StepIInv == IInv /\ [Next]_vars => IInv'
<1> SUFFICES ASSUME IInv, [Next]_vars PROVE IInv'
    OBVIOUS
<1> USE AdmissionAssumption
    DEF IInv, TypeOK, Steps, Processes, Unresolved, Committed,
        HoldHasIntent, BusyHasIntent, ResolvedAccounted, OwnerUnresolved,
        ResolvingAccounted, SettlingSound, Busy, Connected, Accounted
<1>1. ASSUME NEW p \in Writers, NEW a \in Approvals, Begin(p, a)
      PROVE  IInv'
      BY <1>1 DEF Begin, Enter
<1>2. ASSUME NEW p \in Sweepers, NEW a \in Approvals, Sweep(p, a)
      PROVE  IInv'
      BY <1>2 DEF Sweep, Listed, Resume, Enter
<1>3. ASSUME NEW p \in Processes, Reserve(p)
      PROVE  IInv'
      BY <1>3 DEF Reserve, CanReserve, Reserved, Answered, Unavailable, Fault,
                  Goto, Leave, Unlocked
<1>4. ASSUME NEW p \in Processes, Advance(p)
      PROVE  IInv'
      BY <1>4 DEF Advance, Goto, Leave, Unlocked
<1>5. ASSUME NEW p \in Processes, Confirm(p)
      PROVE  IInv'
      BY <1>5 DEF Confirm, CanConfirm, Answered, Unavailable, Fault, Goto,
                  Towards
<1>6. ASSUME NEW p \in Processes, Commit(p)
      PROVE  IInv'
  <2> at[p] \in Approvals /\ UNCHANGED <<intent, ledger, at, owner>>
      BY <1>6 DEF Commit, Goto, Towards
  <2>1. CASE /\ Connected(p)
             /\ consumed' = [consumed EXCEPT ![at[p]] = TRUE]
             /\ Goto(p, "resolving")
             /\ UNCHANGED faults
        BY <2>1 DEF Goto
  <2>2. CASE Towards(p, "settling", "released") /\ UNCHANGED <<consumed, faults>>
        BY <2>2 DEF Towards
  <2>3. CASE /\ Goto(p, "checking")
             /\ Fault("lost", MAX_LOST) \/ UNCHANGED faults
             /\ UNCHANGED consumed
        BY <2>3 DEF Goto, Fault
  <2>4. QED
        BY <1>6, <2>1, <2>2, <2>3 DEF Commit
<1>7. ASSUME NEW p \in Processes, Check(p)
      PROVE  IInv'
      BY <1>7 DEF Check, OutboxRowExists, Towards, Leave, Unlocked
<1>8. ASSUME NEW p \in Processes, Settle(p)
      PROVE  IInv'
      BY <1>8 DEF Settle, CanSettle, MayResolve, Answered, Unavailable,
                  Fault, Goto, Leave, Unlocked
<1>9. ASSUME NEW p \in Processes, Resolve(p)
      PROVE  IInv'
      BY <1>9 DEF Resolve, Leave, Unlocked
<1>10. ASSUME NEW p \in Processes, Crash(p)
       PROVE  IInv'
       BY <1>10 DEF Crash, Fault, Leave, Unlocked
<1>11. ASSUME NEW p \in Processes, LoseSession(p)
       PROVE  IInv'
       BY <1>11 DEF LoseSession, Fault, local
<1>12. CASE UNCHANGED vars
       BY <1>12 DEF vars, local
<1>13. QED
       BY <1>1, <1>2, <1>3, <1>4, <1>5, <1>6, <1>7, <1>8, <1>9, <1>10, <1>11,
          <1>12 DEF Next, Step

LEMMA InvariantIInv == Spec => []IInv
BY InitIInv, StepIInv, PTL DEF Spec

(* Type correctness, and a lock is only held by a process at work on its    *)
(* approval: every way out of an admission unlocks.                         *)
THEOREM TypeCorrect == Spec => []TypeOK
BY InvariantIInv, PTL DEF IInv

(* A hold can only exist if an unresolved intent or a consumption describes *)
(* it, also when sessions are lost: nothing the ledger holds is forgotten   *)
(* by a crash, a lost answer or a rival (harness_admission_intent).         *)
THEOREM HoldsAreDescribed == Spec => []HoldDescribed
<1>1. IInv => HoldDescribed
      BY DEF IInv, TypeOK, HoldDescribed, HoldHasIntent, ResolvedAccounted,
             Accounted, Unresolved, Committed
<1>2. QED
      BY <1>1, InvariantIInv, PTL

(* A settled admission never admits and never holds budget again: only the  *)
(* owner of an unresolved intent commits, and a released hold stays so.     *)
THEOREM SettlementIsFinal == Spec => SettledIsFinal
<1> DEFINE Final(a) == /\ intent'[a] = "resolved" /\ ~ consumed'[a]
                       /\ ledger'[a] = "released"
<1>1. ASSUME IInv, [Next]_vars, NEW a \in Approvals,
             intent[a] = "resolved", ~ consumed[a]
      PROVE  Final(a)
  <2>1. ledger[a] = "released"
        BY <1>1 DEF IInv, ResolvedAccounted, Accounted
  <2> USE <1>1, <2>1, AdmissionAssumption DEF IInv, TypeOK, Processes
  <2>2. ASSUME NEW p \in Writers, NEW b \in Approvals, Begin(p, b)
        PROVE  Final(a)
        BY <2>2 DEF Begin
  <2>3. ASSUME NEW p \in Sweepers, NEW b \in Approvals, Sweep(p, b)
        PROVE  Final(a)
        BY <2>3 DEF Sweep
  <2>4. ASSUME NEW p \in Processes, Reserve(p)
        PROVE  Final(a)
        BY <2>4 DEF Reserve, CanReserve, Reserved, Answered, Unavailable,
                    Committed
  <2>5. ASSUME NEW p \in Processes, Advance(p)
        PROVE  Final(a)
        BY <2>5 DEF Advance
  <2>6. ASSUME NEW p \in Processes, Confirm(p)
        PROVE  Final(a)
        BY <2>6 DEF Confirm, CanConfirm, Answered, Unavailable
  <2>7. ASSUME NEW p \in Processes, Commit(p)
        PROVE  Final(a)
    <3>1. Connected(p) => at[p] # a
          BY <2>7 DEF Commit, OwnerUnresolved, Busy
    <3>2. QED
          BY <2>7, <3>1 DEF Commit
  <2>8. ASSUME NEW p \in Processes, Check(p)
        PROVE  Final(a)
        BY <2>8 DEF Check
  <2>9. ASSUME NEW p \in Processes, Settle(p)
        PROVE  Final(a)
        BY <2>9 DEF Settle, CanSettle, Answered, Unavailable
  <2>10. ASSUME NEW p \in Processes, Resolve(p)
         PROVE  Final(a)
         BY <2>10 DEF Resolve
  <2>11. ASSUME NEW p \in Processes, Crash(p) \/ LoseSession(p)
         PROVE  Final(a)
         BY <2>11 DEF Crash, LoseSession
  <2>12. CASE UNCHANGED vars
         BY <2>12 DEF vars
  <2>13. QED
         BY <2>2, <2>3, <2>4, <2>5, <2>6, <2>7, <2>8, <2>9, <2>10, <2>11, <2>12
         DEF Next, Step
<1>2. IInv /\ [Next]_vars =>
        [\A a \in Approvals: intent[a] = "resolved" /\ ~ consumed[a] =>
            Final(a)]_vars
      BY <1>1
<1>3. QED
      BY <1>2, InvariantIInv, PTL DEF Spec, SettledIsFinal

-----------------------------------------------------------------------------
(* As long as no session was lost, a busy process owns its approval, so     *)
(* nothing happens to a hold behind the back of the one who admits.         *)
Owned ==
    \A p \in Processes: Busy(p) => Connected(p)
OnlyResolvingWhenConsumed ==
    \A p \in Processes: Busy(p) /\ consumed[at[p]] => pc[p] = "resolving"
ConfirmedBeforeCommit ==
    \A p \in Processes:
        pc[p] \in {"confirmed", "committing"} => ledger[at[p]] = "confirmed"

FundInv ==
    faults["session"] = 0 =>
        /\ Owned
        /\ OnlyResolvingWhenConsumed
        /\ ConfirmedBeforeCommit
        /\ AdmittedStaysFunded

LEMMA InitFundInv == Init => FundInv
BY AdmissionAssumption
   DEF Init, FundInv, Owned, OnlyResolvingWhenConsumed, ConfirmedBeforeCommit,
       AdmittedStaysFunded, Busy, Processes

LEMMA StepFundInv == TypeOK /\ FundInv /\ [Next]_vars => FundInv'
<1> SUFFICES ASSUME TypeOK, FundInv, [Next]_vars PROVE FundInv'
    OBVIOUS
<1> USE AdmissionAssumption
    DEF FundInv, TypeOK, Steps, Processes, Owned, OnlyResolvingWhenConsumed,
        ConfirmedBeforeCommit, AdmittedStaysFunded, Busy, Connected
<1>1. ASSUME NEW p \in Writers, NEW a \in Approvals, Begin(p, a)
      PROVE  FundInv'
      BY <1>1 DEF Begin, Enter
<1>2. ASSUME NEW p \in Sweepers, NEW a \in Approvals, Sweep(p, a)
      PROVE  FundInv'
      BY <1>2 DEF Sweep, Listed, Resume, Enter
<1>3. ASSUME NEW p \in Processes, Reserve(p)
      PROVE  FundInv'
      BY <1>3 DEF Reserve, CanReserve, Reserved, Answered, Unavailable, Fault,
                  Goto, Leave, Unlocked, Committed
<1>4. ASSUME NEW p \in Processes, Advance(p)
      PROVE  FundInv'
      BY <1>4 DEF Advance, Goto, Leave, Unlocked
<1>5. ASSUME NEW p \in Processes, Confirm(p)
      PROVE  FundInv'
      BY <1>5 DEF Confirm, CanConfirm, Answered, Unavailable, Fault, Goto,
                  Towards
<1>6. ASSUME NEW p \in Processes, Commit(p)
      PROVE  FundInv'
  <2> at[p] \in Approvals /\ UNCHANGED <<intent, ledger, at, owner>>
      BY <1>6 DEF Commit, Goto, Towards
  <2>1. CASE /\ pc[p] = "committing"
             /\ consumed' = [consumed EXCEPT ![at[p]] = TRUE]
             /\ Goto(p, "resolving")
             /\ UNCHANGED faults
        BY <2>1 DEF Goto
  <2>2. CASE /\ pc[p] = "committing"
             /\ Towards(p, "settling", "released")
             /\ UNCHANGED <<consumed, faults>>
        BY <2>2 DEF Towards
  <2>3. CASE /\ pc[p] = "committing"
             /\ Goto(p, "checking")
             /\ Fault("lost", MAX_LOST) \/ UNCHANGED faults
             /\ UNCHANGED consumed
        BY <2>3 DEF Goto, Fault
  <2>4. QED
        BY <1>6, <2>1, <2>2, <2>3 DEF Commit
<1>7. ASSUME NEW p \in Processes, Check(p)
      PROVE  FundInv'
      BY <1>7 DEF Check, Towards, Leave, Unlocked
<1>8. ASSUME NEW p \in Processes, Settle(p)
      PROVE  FundInv'
      BY <1>8 DEF Settle, CanSettle, MayResolve, Answered, Unavailable, Fault,
                  Goto, Leave, Unlocked
<1>9. ASSUME NEW p \in Processes, Resolve(p)
      PROVE  FundInv'
      BY <1>9 DEF Resolve, Leave, Unlocked
<1>10. ASSUME NEW p \in Processes, Crash(p)
       PROVE  FundInv'
       BY <1>10 DEF Crash, Fault, Leave, Unlocked
<1>11. ASSUME NEW p \in Processes, LoseSession(p)
       PROVE  FundInv'
       BY <1>11 DEF LoseSession, Fault, local
<1>12. CASE UNCHANGED vars
       BY <1>12 DEF vars, local
<1>13. QED
       BY <1>1, <1>2, <1>3, <1>4, <1>5, <1>6, <1>7, <1>8, <1>9, <1>10, <1>11,
          <1>12 DEF Next, Step

(* Until a session is lost under a living process, an admitted operation's  *)
(* envelope stays confirmed at the ledger, whoever crashes, retries or      *)
(* sweeps (admit_operation, reconcile_interrupted_admissions).              *)
THEOREM AdmissionStaysFunded == Spec => []FundedWithoutSessionLoss
<1>1. FundInv => FundedWithoutSessionLoss
      BY DEF FundInv, FundedWithoutSessionLoss
<1>2. QED
      BY <1>1, InitFundInv, StepFundInv, TypeCorrect, PTL DEF Spec

=============================================================================
