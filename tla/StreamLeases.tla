---------------------------- MODULE StreamLeases ----------------------------
(***************************************************************************)
(* Environment-wide admission of Task API event streams:                   *)
(* modules/gateway/src/tasks/stream_leases.py (the Redis scripts and the   *)
(* StreamLease object) and the lease handling of TaskStreamingResponse in  *)
(* modules/gateway/src/tasks/response.py.                                  *)
(*                                                                         *)
(* Every stream has one lease token, so a stream stands for its token.  A  *)
(* token is a member of three Redis sorted sets (its scopes: environment,  *)
(* principal, task), each with a limit.  Gateway pods reach Redis over a   *)
(* network: a command is sent, executed later (possibly after the pod gave *)
(* up waiting, possibly after a younger command of the same stream) or     *)
(* lost, and so is its reply.                                              *)
(*                                                                         *)
(* Times are kept as the time left: score[k][s] is the time left on the    *)
(* member s of scope k, left[s] the time left on the lease as the pod sees *)
(* it, age[s] the time since the pod sent its outstanding command.  Redis' *)
(* TIME and a pod's time.monotonic() are taken to advance at the same rate *)
(* (their offset does not matter).                                         *)
(***************************************************************************)
EXTENDS Integers, FiniteSets

CONSTANTS
    Streams,        \* stream requests, each with its own lease token
    Scopes,         \* Redis keys: environment, one per principal, one per task
    ScopesOf,       \* the keys of a stream
    Limit,          \* SSE_MAX_STREAMS_PER_... of a key
    LEASE           \* LEASE_SECONDS

ASSUME StreamLeasesAssumption ==
    /\ IsFiniteSet(Streams)
    /\ ScopesOf \in [Streams -> SUBSET Scopes]
    /\ Limit \in [Scopes -> Nat]
    /\ LEASE \in Nat \ {0}

VARIABLES
    score,    \* score[k][s]: time left on member s of key k; Absent if no member
    ttl,      \* time left before Redis drops key k
    stage,    \* where the pod is in the life of stream s
    left,     \* StreamLease.remaining()
    age,      \* time since the outstanding acquire or renew was sent
    wire,     \* commands sent to Redis and not executed yet
    reply     \* replies not read yet, by stream

vars == <<score, ttl, stage, left, age, wire, reply>>

Absent == -1

(* Operators named Mutant... are deliberate faults, one per property; they  *)
(* are used by nothing and show that the property can fail.                 *)
(* The EXPIRE that ACQUIRE and RENEW set on a key. *)
KEY_TTL == 2 * LEASE
Ops == {"ACQUIRE", "RENEW", "RELEASE"}
Stages == {"new", "acquiring", "open", "renewing", "closed"}
NoReply == "none"

MutantNoFloor(n) == n

(* remaining() is max(0.0, deadline - now). *)
Max0(n) == IF n > 0 THEN n ELSE 0

(* A member Redis still counts: ZREMRANGEBYSCORE removes a score <= now.    *)
Live(k, s) == score[k][s] > 0

(* The response may write a frame only while the lease has time left        *)
(* (_bounded_send); the guard renews concurrently with the writer.          *)
Writing(s) == stage[s] \in {"open", "renewing"} /\ left[s] > 0

TypeOK ==
    /\ score \in [Scopes -> [Streams -> Absent .. LEASE]]
    /\ ttl \in [Scopes -> 0 .. KEY_TTL]
    /\ stage \in [Streams -> Stages]
    /\ left \in [Streams -> 0 .. LEASE]
    /\ age \in [Streams -> 0 .. LEASE]
    /\ wire \subseteq Streams \X Ops
    /\ reply \in [Streams -> {NoReply, "ok", "refused"}]

Init ==
    /\ score = [k \in Scopes |-> [s \in Streams |-> Absent]]
    /\ ttl = [k \in Scopes |-> 0]
    /\ stage = [s \in Streams |-> "new"]
    /\ left = [s \in Streams |-> 0]
    /\ age = [s \in Streams |-> 0]
    /\ wire = {}
    /\ reply = [s \in Streams |-> NoReply]

-----------------------------------------------------------------------------
(* Redis: one script runs at a time. *)

(* The reply reaches the pod only if the pod still waits for this command.  *)
Answer(s, waiting, result) ==
    reply' = IF stage[s] = waiting THEN [reply EXCEPT ![s] = result] ELSE reply

(* ZREMRANGEBYSCORE on the three keys of s. *)
Pruned(s) ==
    [k \in Scopes |->
        IF k \in ScopesOf[s]
        THEN [t \in Streams |-> IF score[k][t] <= 0 THEN Absent ELSE score[k][t]]
        ELSE score[k]]

(* ZADD with a fresh score and EXPIRE, on the three keys of s. *)
Granted(z, s) ==
    [k \in Scopes |-> IF k \in ScopesOf[s] THEN [z[k] EXCEPT ![s] = LEASE] ELSE z[k]]

Refreshed(s) ==
    [k \in Scopes |-> IF k \in ScopesOf[s] THEN KEY_TTL ELSE ttl[k]]

Members(z, k) == {t \in Streams : z[k][t] # Absent}

MutantOffByOne(z, s) == \A k \in ScopesOf[s] : Cardinality(Members(z, k)) <= Limit[k]

HasRoom(z, s) == \A k \in ScopesOf[s] : Cardinality(Members(z, k)) < Limit[k]

ExecuteAcquire(s) ==
    /\ <<s, "ACQUIRE">> \in wire
    /\ wire' = wire \ {<<s, "ACQUIRE">>}
    /\ IF HasRoom(Pruned(s), s)
       THEN /\ score' = Granted(Pruned(s), s)
            /\ ttl' = Refreshed(s)
            /\ Answer(s, "acquiring", "ok")
       ELSE /\ score' = Pruned(s)
            /\ ttl' = ttl
            /\ Answer(s, "acquiring", "refused")
    /\ UNCHANGED <<stage, left, age>>

MutantRenewUnchecked(s) ==
    /\ <<s, "RENEW">> \in wire
    /\ wire' = wire \ {<<s, "RENEW">>}
    /\ score' = Granted(score, s)
    /\ ttl' = Refreshed(s)
    /\ Answer(s, "renewing", "ok")
    /\ UNCHANGED <<stage, left, age>>

ExecuteRenew(s) ==
    /\ <<s, "RENEW">> \in wire
    /\ wire' = wire \ {<<s, "RENEW">>}
    /\ IF \A k \in ScopesOf[s] : Live(k, s)
       THEN /\ score' = Granted(score, s)
            /\ ttl' = Refreshed(s)
            /\ Answer(s, "renewing", "ok")
       ELSE /\ Answer(s, "renewing", "refused")
            /\ UNCHANGED <<score, ttl>>
    /\ UNCHANGED <<stage, left, age>>

MutantReleaseOneScope(s) ==
    /\ <<s, "RELEASE">> \in wire
    /\ wire' = wire \ {<<s, "RELEASE">>}
    /\ LET first == CHOOSE k \in ScopesOf[s] : TRUE
       IN score' = [score EXCEPT ![first][s] = Absent]
    /\ UNCHANGED <<ttl, stage, left, age, reply>>

ExecuteRelease(s) ==
    /\ <<s, "RELEASE">> \in wire
    /\ wire' = wire \ {<<s, "RELEASE">>}
    /\ score' = [k \in Scopes |->
                    IF k \in ScopesOf[s] THEN [score[k] EXCEPT ![s] = Absent] ELSE score[k]]
    /\ UNCHANGED <<ttl, stage, left, age, reply>>

(* A command is lost before Redis runs it (outage, broken connection). *)
LoseCommand(m) ==
    /\ m \in wire
    /\ wire' = wire \ {m}
    /\ UNCHANGED <<score, ttl, stage, left, age, reply>>

-----------------------------------------------------------------------------
(* The gateway pod. *)

(* acquire_lease: started = time.monotonic(), then the call. *)
Acquire(s) ==
    /\ stage[s] = "new"
    /\ stage' = [stage EXCEPT ![s] = "acquiring"]
    /\ age' = [age EXCEPT ![s] = 0]
    /\ wire' = wire \union {<<s, "ACQUIRE">>}
    /\ UNCHANGED <<score, ttl, left, reply>>

(* StreamLease.release, reached from the finally of the response: released  *)
(* and deadline are set before the call, whose failure is ignored.          *)
Release(s) ==
    /\ stage' = [stage EXCEPT ![s] = "closed"]
    /\ left' = [left EXCEPT ![s] = 0]
    /\ reply' = [reply EXCEPT ![s] = NoReply]
    /\ wire' = wire \union {<<s, "RELEASE">>}
    /\ UNCHANGED <<score, ttl, age>>

(* The reply of ACQUIRE: refused raises rate_limited; granted gives a lease *)
(* that runs from the start of the request, released if already over.       *)
AcquireReply(s) ==
    /\ stage[s] = "acquiring"
    /\ \/ /\ reply[s] = "refused"
          /\ stage' = [stage EXCEPT ![s] = "closed"]
          /\ reply' = [reply EXCEPT ![s] = NoReply]
          /\ UNCHANGED <<score, ttl, left, age, wire>>
       \/ /\ reply[s] = "ok"
          /\ LEASE - age[s] > 0
          /\ stage' = [stage EXCEPT ![s] = "open"]
          /\ left' = [left EXCEPT ![s] = LEASE - age[s]]
          /\ reply' = [reply EXCEPT ![s] = NoReply]
          /\ UNCHANGED <<score, ttl, age, wire>>
       \/ /\ reply[s] = "ok"
          /\ LEASE - age[s] <= 0
          /\ Release(s)

(* The call raised: a connection error, or asyncio.timeout at               *)
(* REDIS_TIMEOUT_SECONDS; a reply on its way is lost.  The command may      *)
(* still be on its way to Redis, and nothing releases what it acquires.     *)
AcquireFailed(s) ==
    /\ stage[s] = "acquiring"
    /\ stage' = [stage EXCEPT ![s] = "closed"]
    /\ reply' = [reply EXCEPT ![s] = NoReply]
    /\ UNCHANGED <<score, ttl, left, age, wire>>

MutantGuardSurvives(s) ==
    /\ stage[s] \in {"open", "closed"}
    /\ stage' = [stage EXCEPT ![s] = IF stage[s] = "open" THEN "renewing" ELSE "closed"]
    /\ age' = [age EXCEPT ![s] = 0]
    /\ wire' = wire \union {<<s, "RENEW">>}
    /\ UNCHANGED <<score, ttl, left, reply>>

(* _guard_lease woke: renew() sends only while the lease is not over        *)
(* locally, otherwise the guard ends and the response is released.          *)
Renew(s) ==
    /\ stage[s] = "open"
    /\ IF left[s] > 0
       THEN /\ stage' = [stage EXCEPT ![s] = "renewing"]
            /\ age' = [age EXCEPT ![s] = 0]
            /\ wire' = wire \union {<<s, "RENEW">>}
            /\ UNCHANGED <<score, ttl, left, reply>>
       ELSE Release(s)

MutantDeadlineFromReply(s) ==
    /\ stage[s] = "renewing"
    /\ \/ /\ reply[s] = "ok"
          /\ stage' = [stage EXCEPT ![s] = "open"]
          /\ left' = [left EXCEPT ![s] = LEASE]
          /\ reply' = [reply EXCEPT ![s] = NoReply]
          /\ UNCHANGED <<score, ttl, age, wire>>
       \/ reply[s] = "refused" /\ Release(s)

(* The new deadline is started + LEASE; a refusal, or a lease that is over  *)
(* when the reply is read, ends the response.                               *)
RenewReply(s) ==
    /\ stage[s] = "renewing"
    /\ \/ /\ reply[s] = "ok"
          /\ LEASE - age[s] > 0
          /\ stage' = [stage EXCEPT ![s] = "open"]
          /\ left' = [left EXCEPT ![s] = LEASE - age[s]]
          /\ reply' = [reply EXCEPT ![s] = NoReply]
          /\ UNCHANGED <<score, ttl, age, wire>>
       \/ /\ reply[s] = "refused" \/ (reply[s] = "ok" /\ LEASE - age[s] <= 0)
          /\ Release(s)

RenewFailed(s) ==
    /\ stage[s] = "renewing"
    /\ Release(s)

(* The response ended or its client went away: the guard is cancelled,      *)
(* even in the middle of a renewal, and the lease is released.              *)
Close(s) ==
    /\ stage[s] \in {"open", "renewing"}
    /\ Release(s)

(* The pod is lost: nothing runs any more, nothing is released. *)
Crash(s) ==
    /\ stage[s] \in {"acquiring", "open", "renewing"}
    /\ stage' = [stage EXCEPT ![s] = "closed"]
    /\ left' = [left EXCEPT ![s] = 0]
    /\ reply' = [reply EXCEPT ![s] = NoReply]
    /\ UNCHANGED <<score, ttl, age, wire>>

(* One unit of time passes; Redis drops a key whose EXPIRE is reached. *)
Tick ==
    /\ ttl' = [k \in Scopes |-> Max0(ttl[k] - 1)]
    /\ score' = [k \in Scopes |-> [s \in Streams |->
                    IF score[k][s] = Absent \/ ttl[k] <= 1 THEN Absent ELSE Max0(score[k][s] - 1)]]
    /\ left' = [s \in Streams |-> Max0(left[s] - 1)]
    /\ age' = [s \in Streams |->
                  IF stage[s] \notin {"acquiring", "renewing"} THEN 0
                  ELSE IF age[s] < LEASE THEN age[s] + 1 ELSE LEASE]
    /\ UNCHANGED <<stage, wire, reply>>

RedisStep(s) == ExecuteAcquire(s) \/ ExecuteRenew(s) \/ ExecuteRelease(s)

PodStep(s) ==
    \/ Acquire(s) \/ AcquireReply(s) \/ AcquireFailed(s)
    \/ Renew(s) \/ RenewReply(s) \/ RenewFailed(s) \/ Close(s)

Next ==
    \/ \E s \in Streams : RedisStep(s) \/ PodStep(s) \/ Crash(s)
    \/ \E m \in wire : LoseCommand(m)
    \/ Tick

(* Time advances, and a command on the wire is executed (or lost).  Nothing *)
(* obliges a pod to do anything: it may be gone.                            *)
Fairness ==
    /\ WF_vars(Tick)
    /\ \A s \in Streams : WF_vars(RedisStep(s))

Spec == Init /\ [][Next]_vars

FairSpec == Spec /\ Fairness

-----------------------------------------------------------------------------
(* Properties *)

(* A response that may still write holds an unexpired member in each of its *)
(* scopes, for at least as long as the pod believes it has left: a delayed  *)
(* reply, a late command or an abandoned renewal never lets the pod's view  *)
(* outlive Redis' view (deadline = started + LEASE_SECONDS).                *)
WriterHoldsLease ==
    \A s \in Streams : Writing(s) => \A k \in ScopesOf[s] : score[k][s] >= left[s]

(* No scope ever has more responses writing than its SSE_MAX_STREAMS_PER_   *)
(* limit, whatever is lost, delayed or crashed.                             *)
WritersWithinLimit ==
    \A k \in Scopes :
        Cardinality({s \in Streams : Writing(s) /\ k \in ScopesOf[s]}) <= Limit[k]

(* The three scopes never disagree about a token: it is live in all of them *)
(* or in none (else a scope leaks capacity, or a renewal is refused for a   *)
(* stream that still holds a slot).  The EXPIRE of a key never drops a live *)
(* member.                                                                  *)
ScopesAgree ==
    \A s \in Streams : \A j, k \in ScopesOf[s] : score[j][s] > 0 => score[k][s] = score[j][s]

(* A token that is over (expired or released) never becomes live again: a   *)
(* RENEW that arrives after the RELEASE, or after expiry, revives nothing.  *)
OverStaysOver ==
    [][\A s \in Streams :
         (stage[s] # "new" /\ <<s, "ACQUIRE">> \notin wire /\ ~\E k \in ScopesOf[s] : Live(k, s))
            => ~\E k \in ScopesOf[s] : Live(k, s)']_vars

(* "Expiry is the cleanup backstop": the slot of a stream that ended in any *)
(* way (closed, pod lost, acquisition abandoned while on the wire) is       *)
(* eventually free for good.                                                *)
CapacityReclaimed ==
    \A s \in Streams :
        (stage[s] = "closed") ~> [](\A k \in ScopesOf[s] : ~Live(k, s))

=============================================================================
