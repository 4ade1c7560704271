------------------------- MODULE StreamLeasesProofs -------------------------
(***************************************************************************)
(* Machine-checked proofs about StreamLeases, for every finite set of      *)
(* streams, every assignment of scopes and limits and every lease length.  *)
(***************************************************************************)
EXTENDS StreamLeases, FiniteSetTheorems, TLAPS

(* Which commands of a stream can be on the wire at which stage of its      *)
(* life: a stream acquires once, and what was released stays closed.        *)
WireInv ==
    \A s \in Streams :
        /\ <<s, "ACQUIRE">> \in wire =>
              stage[s] = "closed" \/ (stage[s] = "acquiring" /\ reply[s] = NoReply)
        /\ <<s, "RELEASE">> \in wire => stage[s] = "closed"
        /\ reply[s] # NoReply => stage[s] \in {"acquiring", "renewing"}

(* A granted reply that was not read yet is backed by Redis: the lease the  *)
(* pod will compute from it is not longer than the one Redis holds.         *)
ReplyInv ==
    \A s \in Streams :
        (reply[s] = "ok" /\ LEASE - age[s] > 0)
            => \A k \in ScopesOf[s] : score[k][s] >= LEASE - age[s]

(* The EXPIRE of a key outlasts each of its members. *)
KeyInv == \A k \in Scopes : \A s \in Streams : score[k][s] <= ttl[k]

(* What Redis counts in a scope never exceeds the limit of the scope. *)
LiveMembers(k) == {s \in Streams : score[k][s] > 0}
LimitInv == \A k \in Scopes : Cardinality(LiveMembers(k)) <= Limit[k]

IInv ==
    /\ TypeOK
    /\ WireInv
    /\ ReplyInv
    /\ KeyInv
    /\ LimitInv
    /\ WriterHoldsLease
    /\ ScopesAgree

-----------------------------------------------------------------------------

(* A part of a bounded finite set is bounded. *)
LEMMA SubsetWithin ==
    ASSUME NEW S, IsFiniteSet(S), NEW T, T \subseteq S, NEW n \in Nat, Cardinality(S) <= n
    PROVE  Cardinality(T) <= n
BY FS_Subset, FS_CardinalityType

(* The keys of a stream are keys. *)
LEMMA ScopeOfStream ==
    ASSUME NEW s \in Streams, NEW k \in ScopesOf[s]
    PROVE  k \in Scopes
BY StreamLeasesAssumption

(* The types of single values, so that the steps below need not expand      *)
(* TypeOK.                                                                  *)
LEMMA ValueTypes ==
    ASSUME TypeOK
    PROVE  /\ \A k \in Scopes, s \in Streams :
                score[k][s] \in Int /\ -1 <= score[k][s] /\ score[k][s] <= LEASE
           /\ \A k \in Scopes : ttl[k] \in Int /\ 0 <= ttl[k]
           /\ \A s \in Streams : left[s] \in Int /\ 0 <= left[s] /\ left[s] <= LEASE
           /\ \A s \in Streams : age[s] \in Int /\ 0 <= age[s] /\ age[s] <= LEASE
           /\ LEASE \in Int /\ LEASE > 0
BY StreamLeasesAssumption DEF TypeOK, Absent

(* No lease is held at the start. *)
LEMMA InitIInv == Init => IInv
<1> SUFFICES ASSUME Init PROVE IInv
    OBVIOUS
<1> USE StreamLeasesAssumption
<1>1. TypeOK
    BY DEF Init, TypeOK, Absent, KEY_TTL, Stages, NoReply
<1>2. WireInv /\ ReplyInv /\ KeyInv /\ WriterHoldsLease /\ ScopesAgree
    BY DEF Init, WireInv, ReplyInv, KeyInv, WriterHoldsLease, ScopesAgree, Writing, Absent, NoReply
<1>3. LimitInv
    <2>1. \A k \in Scopes : LiveMembers(k) = {}
        BY DEF Init, LiveMembers, Absent
    <2>2. QED
        BY <2>1, FS_EmptySet DEF LimitInv
<1>4. QED
    BY <1>1, <1>2, <1>3 DEF IInv

(* What Redis holds is untouched by the steps of a pod. *)
LEMMA RedisUnchanged ==
    ASSUME IInv, UNCHANGED <<score, ttl>>
    PROVE  KeyInv' /\ LimitInv' /\ ScopesAgree'
<1>1. KeyInv' /\ ScopesAgree'
    BY DEF IInv, KeyInv, ScopesAgree
<1>2. LimitInv'
    BY DEF IInv, LimitInv, LiveMembers
<1> QED
    BY <1>1, <1>2

(* Steps of the pod: Redis' sets do not change, so only the pod's view of   *)
(* its lease can go wrong.                                                  *)
LEMMA PodStepIInv ==
    ASSUME IInv, NEW s \in Streams, PodStep(s) \/ Crash(s)
    PROVE  IInv'
<1> USE StreamLeasesAssumption DEF IInv
<1>a. CASE Acquire(s)
    <2>1. TypeOK'
        BY <1>a DEF Acquire, TypeOK, Stages, Ops, NoReply
    <2>2. WireInv' /\ ReplyInv'
        BY <1>a DEF Acquire, TypeOK, WireInv, ReplyInv, NoReply
    <2>3. WriterHoldsLease'
        BY <1>a DEF Acquire, TypeOK, ReplyInv, WriterHoldsLease, Writing
    <2>4. QED
        BY <1>a, <2>1, <2>2, <2>3, RedisUnchanged DEF Acquire
<1>b. ASSUME Release(s)
      PROVE  IInv'
    <2>1. TypeOK'
        BY <1>b DEF Release, TypeOK, Stages, Ops, NoReply
    <2>2. WireInv' /\ ReplyInv'
        BY <1>b DEF Release, TypeOK, WireInv, ReplyInv, NoReply
    <2>3. WriterHoldsLease'
        BY <1>b DEF Release, TypeOK, ReplyInv, WriterHoldsLease, Writing
    <2>4. QED
        BY <1>b, <2>1, <2>2, <2>3, RedisUnchanged DEF Release
<1>c. ASSUME stage[s] \in {"acquiring", "renewing"}, reply[s] = "ok", LEASE - age[s] > 0,
             stage' = [stage EXCEPT ![s] = "open"],
             left' = [left EXCEPT ![s] = LEASE - age[s]],
             reply' = [reply EXCEPT ![s] = NoReply],
             UNCHANGED <<score, ttl, age, wire>>
      PROVE  IInv'
    <2>1. TypeOK'
        BY <1>c DEF TypeOK, Stages, Ops, NoReply
    <2>2. WireInv' /\ ReplyInv'
        BY <1>c DEF TypeOK, WireInv, ReplyInv, NoReply
    <2>3. WriterHoldsLease'
        BY <1>c DEF TypeOK, ReplyInv, WriterHoldsLease, Writing
    <2>4. QED
        BY <1>c, <2>1, <2>2, <2>3, RedisUnchanged
<1>d. ASSUME stage' = [stage EXCEPT ![s] = "closed"],
             left' \in [Streams -> 0 .. LEASE],
             \A t \in Streams \ {s} : left'[t] = left[t],
             reply' = [reply EXCEPT ![s] = NoReply],
             UNCHANGED <<score, ttl, age, wire>>
      PROVE  IInv'
    <2>1. TypeOK'
        BY <1>d DEF TypeOK, Stages, Ops, NoReply
    <2>2. WireInv' /\ ReplyInv'
        BY <1>d DEF TypeOK, WireInv, ReplyInv, NoReply
    <2>3. WriterHoldsLease'
        BY <1>d DEF TypeOK, ReplyInv, WriterHoldsLease, Writing
    <2>4. QED
        BY <1>d, <2>1, <2>2, <2>3, RedisUnchanged
<1>e. ASSUME stage[s] = "open",
             stage' = [stage EXCEPT ![s] = "renewing"],
             age' = [age EXCEPT ![s] = 0],
             wire' = wire \union {<<s, "RENEW">>},
             UNCHANGED <<score, ttl, left, reply>>
      PROVE  IInv'
    <2>1. TypeOK'
        BY <1>e DEF TypeOK, Stages, Ops, NoReply
    <2>2. WireInv' /\ ReplyInv'
        BY <1>e DEF TypeOK, WireInv, ReplyInv, NoReply
    <2>3. WriterHoldsLease'
        BY <1>e DEF TypeOK, ReplyInv, WriterHoldsLease, Writing
    <2>4. QED
        BY <1>e, <2>1, <2>2, <2>3, RedisUnchanged
<1>f. CASE AcquireReply(s)
    BY <1>b, <1>c, <1>d, <1>f DEF AcquireReply, TypeOK
<1>g. CASE RenewReply(s)
    BY <1>b, <1>c, <1>g DEF RenewReply
<1>h. CASE AcquireFailed(s) \/ Crash(s)
    BY <1>d, <1>h DEF AcquireFailed, Crash, TypeOK
<1>i. CASE Renew(s) \/ RenewFailed(s) \/ Close(s)
    BY <1>b, <1>e, <1>i DEF Renew, RenewFailed, Close
<1> QED
    BY <1>a, <1>f, <1>g, <1>h, <1>i DEF PodStep

(* The reply and the wire after a command of s was executed.  A grant puts  *)
(* a full lease into Redis, which no age of the command exceeds.            *)
LEMMA ExecutedInv ==
    ASSUME IInv, NEW s \in Streams, NEW op, NEW waiting, NEW result \in {"ok", "refused"},
           \/ op = "ACQUIRE" /\ waiting = "acquiring"
           \/ op = "RENEW" /\ waiting = "renewing",
           <<s, op>> \in wire,
           wire' = wire \ {<<s, op>>}, Answer(s, waiting, result),
           UNCHANGED <<stage, left, age>>,
           \A k \in Scopes, t \in Streams :
               score[k][t] > 0 => score'[k][t] \in Int /\ score'[k][t] >= score[k][t],
           result = "ok" => \A k \in ScopesOf[s] : score'[k][s] = LEASE
    PROVE  WireInv' /\ ReplyInv' /\ WriterHoldsLease'
<1> USE StreamLeasesAssumption DEF IInv
<1>1. WireInv'
    <2> SUFFICES ASSUME NEW t \in Streams
                 PROVE  /\ <<t, "ACQUIRE">> \in wire' =>
                              stage'[t] = "closed" \/ (stage'[t] = "acquiring" /\ reply'[t] = NoReply)
                        /\ <<t, "RELEASE">> \in wire' => stage'[t] = "closed"
                        /\ reply'[t] # NoReply => stage'[t] \in {"acquiring", "renewing"}
        BY DEF WireInv
    <2>1. reply'[t] = reply[t] \/ (t = s /\ stage[s] = waiting)
        BY DEF Answer, TypeOK
    <2>2. QED
        BY <2>1 DEF WireInv
<1>2. ReplyInv'
    <2> SUFFICES ASSUME NEW t \in Streams, reply'[t] = "ok", LEASE - age'[t] > 0, NEW k \in ScopesOf[t]
                 PROVE  score'[k][t] >= LEASE - age'[t]
        BY DEF ReplyInv
    <2>1. reply[t] = "ok" \/ (t = s /\ result = "ok")
        BY DEF Answer, TypeOK
    <2>2. k \in Scopes /\ LEASE - age[t] > 0 /\ age'[t] = age[t]
        BY ScopeOfStream
    <2>3. CASE reply[t] = "ok"
        <3>1. score[k][t] >= LEASE - age[t]
            BY <2>2, <2>3 DEF ReplyInv
        <3>2. QED
            BY <2>2, <3>1, ValueTypes
    <2>4. CASE t = s /\ result = "ok"
        BY <2>2, <2>4, ValueTypes
    <2>5. QED
        BY <2>1, <2>3, <2>4
<1>3. WriterHoldsLease'
    <2> SUFFICES ASSUME NEW t \in Streams, Writing(t)', NEW k \in ScopesOf[t]
                 PROVE  score'[k][t] >= left'[t]
        BY DEF WriterHoldsLease
    <2>1. k \in Scopes /\ Writing(t) /\ left'[t] = left[t] /\ left[t] > 0
        BY ScopeOfStream DEF Writing
    <2>2. score[k][t] >= left[t]
        BY <2>1 DEF WriterHoldsLease
    <2>3. QED
        BY <2>1, <2>2, ValueTypes
<1> QED
    BY <1>1, <1>2, <1>3

(* ACQUIRE: pruning removes only expired members, and a grant keeps every   *)
(* limit.                                                                   *)
LEMMA ExecuteAcquireIInv ==
    ASSUME IInv, NEW s \in Streams, ExecuteAcquire(s)
    PROVE  IInv'
<1> USE StreamLeasesAssumption DEF IInv
<1> DEFINE P == Pruned(s)
<1>1. /\ P \in [Scopes -> [Streams -> Absent .. LEASE]]
      /\ \A k \in Scopes, t \in Streams :
            /\ P[k][t] \in Int
            /\ P[k][t] <= score[k][t]
            /\ score[k][t] > 0 => P[k][t] = score[k][t]
            /\ k \in ScopesOf[s] => (P[k][t] # Absent <=> score[k][t] > 0)
    BY DEF Pruned, TypeOK, Absent
<1> HIDE DEF P
<1>2. CASE HasRoom(P, s)
    <2>1. /\ score' = Granted(P, s) /\ ttl' = Refreshed(s) /\ Answer(s, "acquiring", "ok")
          /\ <<s, "ACQUIRE">> \in wire
          /\ wire' = wire \ {<<s, "ACQUIRE">>} /\ UNCHANGED <<stage, left, age>>
        BY <1>2 DEF ExecuteAcquire, P
    <2>2. \A k \in Scopes, t \in Streams :
             score'[k][t] = IF k \in ScopesOf[s] /\ t = s THEN LEASE ELSE P[k][t]
        BY <1>1, <2>1 DEF Granted
    <2>3. TypeOK'
        <3>1. score' \in [Scopes -> [Streams -> Absent .. LEASE]]
            BY <1>1, <2>1 DEF Granted, Absent
        <3>2. ttl' \in [Scopes -> 0 .. KEY_TTL]
            BY <2>1 DEF Refreshed, TypeOK, KEY_TTL
        <3>3. QED
            BY <2>1, <3>1, <3>2 DEF TypeOK, Answer, NoReply
    <2>4. WireInv' /\ ReplyInv' /\ WriterHoldsLease'
        <3>1. \A k \in Scopes, t \in Streams :
                score[k][t] > 0 => score'[k][t] \in Int /\ score'[k][t] >= score[k][t]
            BY <1>1, <2>2, ValueTypes
        <3>2. \A k \in ScopesOf[s] : score'[k][s] = LEASE
            BY <2>2, ScopeOfStream
        <3>3. QED
            BY <2>1, <3>1, <3>2, ExecutedInv
    <2>5. KeyInv'
        <3> SUFFICES ASSUME NEW k \in Scopes, NEW t \in Streams PROVE score'[k][t] <= ttl'[k]
            BY DEF KeyInv
        <3>1. ttl'[k] = IF k \in ScopesOf[s] THEN 2 * LEASE ELSE ttl[k]
            BY <2>1 DEF Refreshed, KEY_TTL
        <3>2. score[k][t] <= ttl[k]
            BY DEF KeyInv
        <3>3. QED
            BY <1>1, <2>2, <3>1, <3>2, ValueTypes
    <2>6. ScopesAgree'
        <3> SUFFICES ASSUME NEW t \in Streams, NEW j \in ScopesOf[t], NEW k \in ScopesOf[t],
                            score'[j][t] > 0
                     PROVE  score'[k][t] = score'[j][t]
            BY DEF ScopesAgree
        <3>1. j \in Scopes /\ k \in Scopes
            BY ScopeOfStream
        <3>2. CASE t = s
            BY <2>2, <3>1, <3>2
        <3>3. CASE t # s
            BY <1>1, <2>2, <3>1, <3>3, ValueTypes DEF ScopesAgree
        <3>4. QED
            BY <3>2, <3>3
    <2>7. LimitInv'
        <3> SUFFICES ASSUME NEW k \in Scopes PROVE Cardinality(LiveMembers(k)') <= Limit[k]
            BY DEF LimitInv
        <3>1. CASE k \in ScopesOf[s]
            <4>1. LiveMembers(k)' \subseteq Members(P, k) \union {s}
                BY <1>1, <2>2, <3>1, ValueTypes DEF LiveMembers, Members
            <4>2. IsFiniteSet(Members(P, k)) /\ Cardinality(Members(P, k)) < Limit[k]
                BY <1>2, <3>1, FS_Subset DEF HasRoom, Members
            <4>3. Limit[k] \in Nat /\ Cardinality(Members(P, k)) \in Nat
                BY <4>2, FS_CardinalityType
            <4>4. /\ IsFiniteSet(Members(P, k) \union {s})
                  /\ \/ Cardinality(Members(P, k) \union {s}) = Cardinality(Members(P, k))
                     \/ Cardinality(Members(P, k) \union {s}) = Cardinality(Members(P, k)) + 1
                BY <4>2, FS_AddElement
            <4>5. Cardinality(Members(P, k) \union {s}) <= Limit[k]
                BY <4>2, <4>3, <4>4
            <4>6. QED
                BY <4>1, <4>3, <4>4, <4>5, SubsetWithin
        <3>2. CASE k \notin ScopesOf[s]
            <4>1. LiveMembers(k)' = LiveMembers(k)
                BY <1>1, <2>2, <3>2, ValueTypes DEF LiveMembers
            <4>2. QED
                BY <4>1 DEF LimitInv
        <3>3. QED
            BY <3>1, <3>2
    <2>8. QED
        BY <2>3, <2>4, <2>5, <2>6, <2>7
<1>3. CASE ~HasRoom(P, s)
    <2>1. /\ score' = P /\ ttl' = ttl /\ Answer(s, "acquiring", "refused")
          /\ <<s, "ACQUIRE">> \in wire
          /\ wire' = wire \ {<<s, "ACQUIRE">>} /\ UNCHANGED <<stage, left, age>>
        BY <1>3 DEF ExecuteAcquire, P
    <2>2. TypeOK'
        BY <1>1, <2>1 DEF TypeOK, Answer, NoReply
    <2>3. WireInv' /\ ReplyInv' /\ WriterHoldsLease'
        <3>1. \A k \in Scopes, t \in Streams :
                score[k][t] > 0 => score'[k][t] \in Int /\ score'[k][t] >= score[k][t]
            BY <1>1, <2>1, ValueTypes
        <3>2. QED
            BY <2>1, <3>1, ExecutedInv
    <2>4. KeyInv' /\ ScopesAgree'
        <3>1. KeyInv'
            BY <1>1, <2>1, ValueTypes DEF KeyInv
        <3>2. \A k \in Scopes, t \in Streams :
                score'[k][t] > 0 => score[k][t] > 0 /\ score'[k][t] = score[k][t]
            BY <1>1, <2>1, ValueTypes
        <3>3. \A k \in Scopes, t \in Streams : score[k][t] > 0 => score'[k][t] = score[k][t]
            BY <1>1, <2>1, ValueTypes
        <3>4. ScopesAgree'
            BY <3>2, <3>3, ScopeOfStream, ValueTypes DEF ScopesAgree
        <3>5. QED
            BY <3>1, <3>4
    <2>5. \A k \in Scopes : LiveMembers(k)' = LiveMembers(k)
        BY <1>1, <2>1, ValueTypes DEF LiveMembers
    <2>6. QED
        BY <2>2, <2>3, <2>4, <2>5 DEF LimitInv
<1> QED
    BY <1>2, <1>3

(* RENEW: only a member that is live in every scope gets a fresh deadline.  *)
LEMMA ExecuteRenewIInv ==
    ASSUME IInv, NEW s \in Streams, ExecuteRenew(s)
    PROVE  IInv'
<1> USE StreamLeasesAssumption DEF IInv
<1>1. CASE \A k \in ScopesOf[s] : Live(k, s)
    <2>1. /\ score' = Granted(score, s) /\ ttl' = Refreshed(s) /\ Answer(s, "renewing", "ok")
          /\ <<s, "RENEW">> \in wire
          /\ wire' = wire \ {<<s, "RENEW">>} /\ UNCHANGED <<stage, left, age>>
        BY <1>1 DEF ExecuteRenew
    <2>2. \A k \in Scopes, t \in Streams :
             score'[k][t] = IF k \in ScopesOf[s] /\ t = s THEN LEASE ELSE score[k][t]
        BY <2>1 DEF Granted, TypeOK
    <2>3. TypeOK'
        <3>1. score' \in [Scopes -> [Streams -> Absent .. LEASE]]
            BY <2>1 DEF Granted, Absent, TypeOK
        <3>2. ttl' \in [Scopes -> 0 .. KEY_TTL]
            BY <2>1 DEF Refreshed, TypeOK, KEY_TTL
        <3>3. QED
            BY <2>1, <3>1, <3>2 DEF TypeOK, Answer, NoReply
    <2>4. WireInv' /\ ReplyInv' /\ WriterHoldsLease'
        <3>1. \A k \in Scopes, t \in Streams :
                score[k][t] > 0 => score'[k][t] \in Int /\ score'[k][t] >= score[k][t]
            BY <2>2, ValueTypes
        <3>2. \A k \in ScopesOf[s] : score'[k][s] = LEASE
            BY <2>2, ScopeOfStream
        <3>3. QED
            BY <2>1, <3>1, <3>2, ExecutedInv
    <2>5. KeyInv'
        <3> SUFFICES ASSUME NEW k \in Scopes, NEW t \in Streams PROVE score'[k][t] <= ttl'[k]
            BY DEF KeyInv
        <3>1. ttl'[k] = IF k \in ScopesOf[s] THEN 2 * LEASE ELSE ttl[k]
            BY <2>1 DEF Refreshed, KEY_TTL
        <3>2. score[k][t] <= ttl[k]
            BY DEF KeyInv
        <3>3. QED
            BY <2>2, <3>1, <3>2, ValueTypes
    <2>6. ScopesAgree'
        BY <2>2, ScopeOfStream DEF ScopesAgree
    <2>7. \A k \in Scopes : LiveMembers(k)' = LiveMembers(k)
        BY <1>1, <2>2, ValueTypes DEF LiveMembers, Live
    <2>8. QED
        BY <2>3, <2>4, <2>5, <2>6, <2>7 DEF LimitInv
<1>2. CASE ~\A k \in ScopesOf[s] : Live(k, s)
    <2>1. /\ UNCHANGED <<score, ttl>> /\ Answer(s, "renewing", "refused")
          /\ <<s, "RENEW">> \in wire
          /\ wire' = wire \ {<<s, "RENEW">>} /\ UNCHANGED <<stage, left, age>>
        BY <1>2 DEF ExecuteRenew
    <2>2. TypeOK'
        BY <2>1 DEF TypeOK, Answer, NoReply
    <2>3. WireInv' /\ ReplyInv' /\ WriterHoldsLease'
        BY <2>1, ExecutedInv, ValueTypes
    <2>4. QED
        BY <2>1, <2>2, <2>3, RedisUnchanged
<1> QED
    BY <1>1, <1>2

(* RELEASE: the token leaves all of its scopes; its pod writes no more.     *)
LEMMA ExecuteReleaseIInv ==
    ASSUME IInv, NEW s \in Streams, ExecuteRelease(s)
    PROVE  IInv'
<1> USE StreamLeasesAssumption DEF IInv
<1>1. \A k \in Scopes, t \in Streams :
         score'[k][t] = IF k \in ScopesOf[s] /\ t = s THEN Absent ELSE score[k][t]
    BY DEF ExecuteRelease, TypeOK
<1>2. stage[s] = "closed" /\ reply[s] = NoReply
    BY DEF WireInv, ExecuteRelease, TypeOK
<1>3. TypeOK'
    BY DEF TypeOK, ExecuteRelease, Absent
<1>4. WireInv' /\ KeyInv' /\ ScopesAgree'
    BY <1>1 DEF WireInv, KeyInv, ScopesAgree, ExecuteRelease, TypeOK, Absent
<1>5. ReplyInv' /\ WriterHoldsLease'
    BY <1>1, <1>2 DEF ReplyInv, WriterHoldsLease, Writing, ExecuteRelease, NoReply, TypeOK
<1>6. LimitInv'
    <2> SUFFICES ASSUME NEW k \in Scopes PROVE Cardinality(LiveMembers(k)') <= Limit[k]
        BY DEF LimitInv
    <2>1. LiveMembers(k)' \subseteq LiveMembers(k) /\ IsFiniteSet(LiveMembers(k))
        BY <1>1, FS_Subset DEF LiveMembers, Absent
    <2>2. QED
        BY <2>1, SubsetWithin DEF LimitInv
<1> QED
    BY <1>3, <1>4, <1>5, <1>6

(* Time passes for Redis and for the pods alike, and a key is dropped only  *)
(* after its members expired.                                               *)
LEMMA TickIInv ==
    ASSUME IInv, Tick
    PROVE  IInv'
<1> USE StreamLeasesAssumption DEF IInv
<1>1. \A k \in Scopes, t \in Streams :
         score'[k][t] = IF score[k][t] = Absent \/ ttl[k] <= 1 THEN Absent ELSE Max0(score[k][t] - 1)
    BY DEF Tick
<1>2. \A k \in Scopes, t \in Streams : score[k][t] > 1 => score'[k][t] = score[k][t] - 1
    BY <1>1, ValueTypes DEF KeyInv, Max0, Absent
<1>3. \A k \in Scopes, t \in Streams : score[k][t] <= 1 => score'[k][t] <= 0 /\ score'[k][t] \in Int
    BY <1>1, ValueTypes DEF Max0, Absent
<1>4. TypeOK'
    BY DEF TypeOK, Tick, Absent, Max0, KEY_TTL
<1>5. WireInv'
    BY DEF WireInv, Tick
<1>6. ReplyInv'
    <2> SUFFICES ASSUME NEW s \in Streams, reply'[s] = "ok", LEASE - age'[s] > 0,
                        NEW k \in ScopesOf[s]
                 PROVE  score'[k][s] >= LEASE - age'[s]
        BY DEF ReplyInv
    <2>1. reply[s] = "ok" /\ age'[s] = age[s] + 1 /\ LEASE - age[s] > 1
        <3>1. reply[s] = "ok" /\ stage[s] \in {"acquiring", "renewing"}
            BY DEF Tick, WireInv, NoReply
        <3>2. age'[s] = IF age[s] < LEASE THEN age[s] + 1 ELSE LEASE
            BY <3>1 DEF Tick
        <3>3. QED
            BY <3>1, <3>2, ValueTypes
    <2>2. QED
        BY <1>2, <2>1, ValueTypes, ScopeOfStream DEF ReplyInv
<1>7. KeyInv'
    <2> SUFFICES ASSUME NEW k \in Scopes, NEW s \in Streams PROVE score'[k][s] <= ttl'[k]
        BY DEF KeyInv
    <2>1. ttl'[k] = Max0(ttl[k] - 1) /\ score[k][s] <= ttl[k]
        BY DEF Tick, KeyInv
    <2>2. QED
        BY <1>2, <1>3, <2>1, ValueTypes DEF Max0
<1>8. WriterHoldsLease'
    <2> SUFFICES ASSUME NEW s \in Streams, Writing(s)', NEW k \in ScopesOf[s]
                 PROVE  score'[k][s] >= left'[s]
        BY DEF WriterHoldsLease
    <2>1. Writing(s) /\ left[s] > 1 /\ left'[s] = left[s] - 1
        BY ValueTypes DEF Tick, Writing, Max0
    <2>2. QED
        BY <1>2, <2>1, ValueTypes, ScopeOfStream DEF WriterHoldsLease
<1>9. ScopesAgree'
    <2> SUFFICES ASSUME NEW s \in Streams, NEW j \in ScopesOf[s], NEW k \in ScopesOf[s],
                        score'[j][s] > 0
                 PROVE  score'[k][s] = score'[j][s]
        BY DEF ScopesAgree
    <2>1. j \in Scopes /\ k \in Scopes
        BY ScopeOfStream
    <2>2. score[j][s] > 1
        BY <1>3, <2>1, ValueTypes
    <2>3. QED
        BY <1>2, <2>1, <2>2, ValueTypes DEF ScopesAgree
<1>10. LimitInv'
    <2> SUFFICES ASSUME NEW k \in Scopes PROVE Cardinality(LiveMembers(k)') <= Limit[k]
        BY DEF LimitInv
    <2>1. LiveMembers(k)' \subseteq LiveMembers(k) /\ IsFiniteSet(LiveMembers(k))
        BY <1>3, ValueTypes, FS_Subset DEF LiveMembers
    <2>2. QED
        BY <2>1, SubsetWithin DEF LimitInv
<1> QED
    BY <1>4, <1>5, <1>6, <1>7, <1>8, <1>9, <1>10

(* Every step keeps the inductive invariant. *)
LEMMA NextIInv == IInv /\ [Next]_vars => IInv'
<1> SUFFICES ASSUME IInv, [Next]_vars PROVE IInv'
    OBVIOUS
<1>1. ASSUME NEW s \in Streams, RedisStep(s) PROVE IInv'
    BY <1>1, ExecuteAcquireIInv, ExecuteRenewIInv, ExecuteReleaseIInv DEF RedisStep
<1>2. ASSUME NEW s \in Streams, PodStep(s) \/ Crash(s) PROVE IInv'
    BY <1>2, PodStepIInv
<1>3. ASSUME NEW m \in wire, LoseCommand(m) PROVE IInv'
    <2>1. TypeOK' /\ WireInv' /\ ReplyInv' /\ WriterHoldsLease'
        BY <1>3 DEF LoseCommand, IInv, TypeOK, WireInv, ReplyInv, WriterHoldsLease, Writing
    <2>2. QED
        BY <1>3, <2>1, RedisUnchanged DEF LoseCommand, IInv
<1>4. CASE UNCHANGED vars
    <2>1. TypeOK' /\ WireInv' /\ ReplyInv' /\ WriterHoldsLease'
        BY <1>4 DEF vars, IInv, TypeOK, WireInv, ReplyInv, WriterHoldsLease, Writing
    <2>2. QED
        BY <1>4, <2>1, RedisUnchanged DEF vars, IInv
<1> QED
    BY <1>1, <1>2, <1>3, <1>4, TickIInv DEF Next

(* The inductive invariant holds in every reachable state. *)
THEOREM Inductive == Spec => []IInv
BY InitIInv, NextIInv, PTL DEF Spec

(* The registry and the pods keep to their types. *)
THEOREM TypeCorrect == Spec => []TypeOK
BY Inductive, PTL DEF IInv

(* A response that may still write is backed by an unexpired member in each *)
(* of its scopes: the deadline counted from the start of the request is     *)
(* conservative for every delay, loss, crash and lease length.              *)
THEOREM WriterAlwaysHoldsLease == Spec => []WriterHoldsLease
BY Inductive, PTL DEF IInv

(* The environment, principal and task limits bound the responses that      *)
(* write, for any number of streams and any limits.                         *)
THEOREM LimitsHold == Spec => []WritersWithinLimit
<1>1. IInv => WritersWithinLimit
    <2> SUFFICES ASSUME IInv, NEW k \in Scopes
                 PROVE  Cardinality({s \in Streams : Writing(s) /\ k \in ScopesOf[s]}) <= Limit[k]
        BY DEF WritersWithinLimit
    <2>1. {s \in Streams : Writing(s) /\ k \in ScopesOf[s]} \subseteq LiveMembers(k)
        BY DEF IInv, TypeOK, WriterHoldsLease, Writing, LiveMembers, Absent
    <2>2. IsFiniteSet(LiveMembers(k))
        BY FS_Subset, StreamLeasesAssumption DEF LiveMembers
    <2>3. QED
        BY <2>1, <2>2, SubsetWithin, StreamLeasesAssumption DEF IInv, LimitInv
<1>2. QED
    BY <1>1, Inductive, PTL

(* The three scopes of a token are granted, renewed, expired and released   *)
(* together.                                                                *)
THEOREM ScopesAlwaysAgree == Spec => []ScopesAgree
BY Inductive, PTL DEF IInv

(* No late command revives a token that is over. *)
THEOREM NoRevival == Spec => OverStaysOver
<1> DEFINE Stays(s) ==
        (stage[s] # "new" /\ <<s, "ACQUIRE">> \notin wire /\ ~\E k \in ScopesOf[s] : Live(k, s))
            => ~\E k \in ScopesOf[s] : Live(k, s)'
<1>1. ASSUME IInv, [Next]_vars, NEW s \in Streams
      PROVE  Stays(s)
    <2> SUFFICES ASSUME stage[s] # "new", <<s, "ACQUIRE">> \notin wire,
                        ~\E k \in ScopesOf[s] : Live(k, s),
                        NEW k \in ScopesOf[s]
                 PROVE  ~(score'[k][s] > 0)
        BY DEF Live
    <2> USE StreamLeasesAssumption
    <2>0. k \in Scopes /\ ~(score[k][s] > 0)
        BY ScopeOfStream DEF Live
    <2>1. ASSUME NEW t \in Streams, ExecuteAcquire(t) PROVE ~(score'[k][s] > 0)
        <3>1. t # s
            BY <2>1 DEF ExecuteAcquire
        <3>2. score'[k][s] = Pruned(t)[k][s]
            BY <1>1, <2>0, <2>1, <3>1 DEF ExecuteAcquire, Granted, Pruned, IInv, TypeOK
        <3>3. ~(Pruned(t)[k][s] > 0)
            BY <2>0 DEF Pruned, Absent
        <3>4. QED
            BY <3>2, <3>3
    <2>2. ASSUME NEW t \in Streams, ExecuteRenew(t) PROVE ~(score'[k][s] > 0)
        <3>1. CASE t = s
            BY <2>0, <2>2, <3>1 DEF ExecuteRenew, Live
        <3>2. CASE t # s
            BY <1>1, <2>0, <2>2, <3>2 DEF ExecuteRenew, Granted, IInv, TypeOK
        <3>3. QED
            BY <3>1, <3>2
    <2>3. ASSUME NEW t \in Streams, ExecuteRelease(t) PROVE ~(score'[k][s] > 0)
        BY <1>1, <2>0, <2>3 DEF ExecuteRelease, Absent, IInv, TypeOK
    <2>4. CASE Tick
        BY <1>1, <2>0, <2>4, ValueTypes DEF Tick, Max0, Absent, IInv
    <2>5. ASSUME score' = score PROVE ~(score'[k][s] > 0)
        BY <2>0, <2>5
    <2>6. ASSUME NEW t \in Streams, PodStep(t) \/ Crash(t) PROVE score' = score
        BY <2>6 DEF PodStep, Acquire, AcquireReply, AcquireFailed, Renew, RenewReply, RenewFailed,
                    Close, Crash, Release
    <2>7. ASSUME NEW m \in wire, LoseCommand(m) PROVE score' = score
        BY <2>7 DEF LoseCommand
    <2>8. QED
        BY <1>1, <2>1, <2>2, <2>3, <2>4, <2>5, <2>6, <2>7 DEF Next, vars, RedisStep
<1>2. IInv /\ [Next]_vars => [\A s \in Streams : Stays(s)]_vars
    BY <1>1
<1>3. QED
    BY <1>2, Inductive, PTL DEF Spec, OverStaysOver

=============================================================================
