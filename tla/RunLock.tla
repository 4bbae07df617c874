------------------------------ MODULE RunLock ------------------------------
(***************************************************************************)
(* The per-incident run lock of the orchestrator                           *)
(* (RedisRuntimeCoordinator.hold_run_lock, redis_runtime.py), for ONE      *)
(* incident: the key is runlock:incident:<id>, so incidents do not         *)
(* interact.                                                               *)
(*                                                                         *)
(* `runlock` is the Redis key.  The code stores the host name there, the   *)
(* same for every request of the process, and never reads it back; the     *)
(* model stores the request whose SET created the key, which no action     *)
(* uses to decide anything: it lets the properties speak of ownership.     *)
(* `held` is the set of requests between the `yield` and the `finally`.    *)
(* Two variables are history: `overran` counts the keys that have expired  *)
(* under the call that had created them, `overruns` those of them since    *)
(* the incident was last without a call.                                   *)
(***************************************************************************)
EXTENDS Naturals, FiniteSets

CONSTANTS
    Requests,         \* the HTTP calls the orchestrator may be serving
    NoOwner,          \* "the key does not exist"
    UseRedis          \* REDIS_URL is set; without it there is no lock at all

ASSUME NoOwnerAssumption == NoOwner \notin Requests
ASSUME RedisAssumption == UseRedis \in BOOLEAN

VARIABLES runlock, held, overruns, overran
lockVars == <<runlock, held, overruns, overran>>

LockTypeOK ==
    /\ runlock \in Requests \cup {NoOwner}
    /\ held \subseteq Requests
    /\ overruns \in Nat
    /\ overran \in Nat

LockInit ==
    /\ runlock = NoOwner
    /\ held = {}
    /\ overruns = 0
    /\ overran = 0

(* SET key owner EX ttl NX succeeds, and the body of the `with` starts.    *)
Acquire(r) ==
    /\ r \notin held
    /\ UseRedis => runlock = NoOwner
    /\ runlock' = IF UseRedis THEN r ELSE runlock
    /\ held' = held \cup {r}
    /\ UNCHANGED <<overruns, overran>>

(* A plausible slip: the `finally` runs its DEL for a refused call, too.   *)
RefusedDeletes(r) ==
    /\ r \notin held
    /\ UseRedis
    /\ runlock # NoOwner
    /\ runlock' = NoOwner
    /\ UNCHANGED <<held, overruns, overran>>

(* SET NX finds the key: RunLockError, which app.py answers with 409.      *)
Refused(r) ==
    /\ r \notin held
    /\ UseRedis
    /\ runlock # NoOwner
    /\ UNCHANGED lockVars

(* The SET reaches Redis and its reply does not come back: `locked` is     *)
(* still False, so the `finally` deletes nothing and the key stays.        *)
AcquireReplyLost(r) ==
    /\ r \notin held
    /\ UseRedis
    /\ runlock = NoOwner
    /\ runlock' = r
    /\ UNCHANGED <<held, overruns, overran>>

(* Calls leave; with the last one the overruns are forgotten.              *)
Leave(gone) ==
    /\ held' = held \ gone
    /\ overruns' = IF held \subseteq gone THEN 0 ELSE overruns
    /\ UNCHANGED overran

(* The `finally`: DEL of the key, whoever created it.                      *)
Release(r) ==
    /\ r \in held
    /\ Leave({r})
    /\ runlock' = IF UseRedis THEN NoOwner ELSE runlock

(* The DEL fails: the request ends, the key stays until its TTL.           *)
ReleaseFails(r) ==
    /\ UseRedis
    /\ r \in held
    /\ Leave({r})
    /\ UNCHANGED runlock

(* The orchestrator process dies: nobody runs the `finally` blocks.        *)
ProcessDies ==
    /\ Leave(held)
    /\ UNCHANGED runlock

(* A plausible slip: SET without EX.                                       *)
NeverExpires == FALSE /\ UNCHANGED lockVars

(* Redis expires the key after RUN_LOCK_TTL_SECONDS, whether the request   *)
(* that created it is gone or still at work.                               *)
Expire ==
    /\ runlock # NoOwner
    /\ runlock' = NoOwner
    /\ overruns' = IF runlock \in held THEN overruns + 1 ELSE overruns
    /\ overran' = IF runlock \in held THEN overran + 1 ELSE overran
    /\ UNCHANGED held

LockNext ==
    \/ \E r \in Requests :
          Acquire(r) \/ Refused(r) \/ AcquireReplyLost(r) \/ Release(r) \/ ReleaseFails(r)
    \/ ProcessDies
    \/ Expire

LockSpec == LockInit /\ [][LockNext]_lockVars

---------------------------------------------------------------------------
(* No key has ever expired under its call: the runs kept to the TTL.       *)
NoOverrun == overran = 0

(* At most one call of run or resume works on the incident at a time: the  *)
(* reason app.py answers 409 to the others.                                *)
OneRunAtATime == \A q, r \in held : q = r

(* What makes it inductive as long as no run outlives its key: the key     *)
(* exists while somebody is inside, and it is the one that call created.   *)
LockInv ==
    /\ LockTypeOK
    /\ UseRedis => \A r \in held : runlock = r

(* How far exclusion is lost when runs do outlive the TTL.  The DEL of the *)
(* `finally` looks at no owner, so a call whose key has expired removes    *)
(* the key of its successor and lets in a third; but every key that        *)
(* expires under its call lets in one call more than allowed, never two,   *)
(* and once the incident is without a call nothing of it is left           *)
(* (hold_run_lock).                                                        *)
OneMorePerOverrun == UseRedis => Cardinality(held) <= 1 + overruns

(* What makes that inductive: the calls inside whose key is gone, by       *)
(* expiry or by the DEL of another call, are no more than the overruns.    *)
Uncovered == held \ {runlock}
OverrunInv ==
    /\ LockTypeOK
    /\ IsFiniteSet(held)
    /\ UseRedis => Cardinality(Uncovered) <= overruns
=============================================================================
