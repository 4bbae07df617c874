--------------------------- MODULE RunLockProofs ---------------------------
(***************************************************************************)
(* Proofs about RunLock, for any set of requests and runs of any length:   *)
(* mutual exclusion until a key expires under its call, and what is left   *)
(* of it from then on.                                                     *)
(***************************************************************************)
EXTENDS RunLock, FiniteSetTheorems, TLAPS

LEMMA LockTypes == LockSpec => []LockTypeOK
  <1>1. LockInit => LockTypeOK
    BY DEF LockInit, LockTypeOK
  <1>2. LockTypeOK /\ [LockNext]_lockVars => LockTypeOK'
    BY DEF LockTypeOK, LockNext, lockVars, Acquire, Refused, AcquireReplyLost, Release,
           ReleaseFails, ProcessDies, Expire, Leave
  <1> QED BY <1>1, <1>2, PTL DEF LockSpec

(* A key that has expired under its call has done so for good.             *)
LEMMA OverranStays == LockTypeOK /\ [LockNext]_lockVars /\ NoOverrun' => NoOverrun
  BY DEF LockTypeOK, LockNext, lockVars, Acquire, Refused, AcquireReplyLost, Release,
         ReleaseFails, ProcessDies, Expire, Leave, NoOverrun

LEMMA StepLockInv ==
    ASSUME LockInv, [LockNext]_lockVars, NoOverrun'
    PROVE  LockInv'
  <1> USE NoOwnerAssumption DEF LockInv, LockTypeOK
  <1>1. ASSUME NEW r \in Requests, Acquire(r) PROVE LockInv'
    BY <1>1 DEF Acquire
  <1>2. ASSUME NEW r \in Requests, Refused(r) PROVE LockInv'
    BY <1>2 DEF Refused, lockVars
  <1>3. ASSUME NEW r \in Requests, AcquireReplyLost(r) PROVE LockInv'
    BY <1>3 DEF AcquireReplyLost
  <1>4. ASSUME NEW r \in Requests, Release(r) PROVE LockInv'
    BY <1>4 DEF Release, Leave
  <1>5. ASSUME NEW r \in Requests, ReleaseFails(r) PROVE LockInv'
    BY <1>5 DEF ReleaseFails, Leave
  <1>6. CASE ProcessDies
    BY <1>6 DEF ProcessDies, Leave
  <1>7. CASE Expire
    BY <1>7 DEF Expire, NoOverrun
  <1>8. CASE UNCHANGED lockVars
    BY <1>8 DEF lockVars
  <1> QED BY <1>1, <1>2, <1>3, <1>4, <1>5, <1>6, <1>7, <1>8 DEF LockNext

LEMMA LockInvAlways == LockSpec => [](NoOverrun => LockInv)
  <1>1. LockInit => LockInv
    BY DEF LockInit, LockInv, LockTypeOK
  <1>2. LockTypeOK /\ (NoOverrun => LockInv) /\ [LockNext]_lockVars => (NoOverrun => LockInv)'
    BY StepLockInv, OverranStays
  <1> QED BY <1>1, <1>2, LockTypes, PTL DEF LockSpec

(* Two calls of run or resume never work on an incident at the same time   *)
(* until a key expires under its call, whatever replies are lost and       *)
(* processes die (hold_run_lock).                                          *)
THEOREM MutualExclusion ==
    ASSUME UseRedis
    PROVE  LockSpec => [](NoOverrun => OneRunAtATime)
  <1>1. LockInv => OneRunAtATime
    BY DEF LockInv, OneRunAtATime
  <1> QED BY <1>1, LockInvAlways, PTL

(* Taking one call out of a finite set of calls.                           *)
LEMMA OneLess ==
    ASSUME NEW S, IsFiniteSet(S), NEW x
    PROVE  /\ IsFiniteSet(S \ {x})
           /\ Cardinality(S) \in Nat /\ Cardinality(S \ {x}) \in Nat
           /\ Cardinality(S \ {x}) = IF x \in S THEN Cardinality(S) - 1 ELSE Cardinality(S)
  BY FS_RemoveElement, FS_CardinalityType

(* A call leaves: it was one of the uncovered ones, or the owner of the    *)
(* key, or, with its DEL, it uncovers another in its place.                *)
LEMMA LeavingCounts ==
    ASSUME UseRedis, OverrunInv, NEW r \in held, Leave({r}),
           runlock' = runlock \/ runlock' = NoOwner
    PROVE  OverrunInv'
  <1> USE DEF OverrunInv, LockTypeOK, Leave, Uncovered
  <1>1. LockTypeOK'
    OBVIOUS
  <1>2. IsFiniteSet(held') /\ IsFiniteSet(held' \ {runlock'})
    BY OneLess
  <1>3. CASE held \subseteq {r}
    <2>1. held' \ {runlock'} = {} /\ overruns' = 0
      BY <1>3
    <2> QED BY <1>1, <1>2, <2>1, FS_EmptySet
  <1>4. CASE ~(held \subseteq {r})
    <2>1. overruns' = overruns
      BY <1>4
    <2>2. CASE runlock' = runlock
      <3>1. held' \ {runlock'} = (held \ {runlock}) \ {r}
        BY <2>2
      <3>2. IsFiniteSet(held \ {runlock})
        BY OneLess
      <3>3. Cardinality(held' \ {runlock'}) <= Cardinality(held \ {runlock})
        BY <3>1, <3>2, OneLess
      <3> QED BY <1>1, <1>2, <2>1, <3>2, <3>3, OneLess, FS_CardinalityType
    <2>3. CASE runlock' = NoOwner
      <3>1. held' \ {runlock'} = held \ {r}
        BY <2>3, NoOwnerAssumption
      <3>2. Cardinality(held \ {r}) = Cardinality(held) - 1
        BY OneLess
      <3>3. Cardinality(held) - 1 <= Cardinality(held \ {runlock})
        BY OneLess
      <3> QED BY <1>1, <1>2, <2>1, <3>1, <3>2, <3>3, OneLess
    <2> QED BY <2>2, <2>3
  <1> QED BY <1>3, <1>4

LEMMA StepOverrunInv ==
    ASSUME UseRedis, OverrunInv, [LockNext]_lockVars
    PROVE  OverrunInv'
  <1> USE NoOwnerAssumption
  <1>0. NoOwner \notin held
    BY DEF OverrunInv, LockTypeOK
  <1>1. ASSUME NEW r \in Requests, Acquire(r) PROVE OverrunInv'
    <2>1. runlock = NoOwner /\ held' \ {runlock'} = held /\ held = held \ {runlock}
      BY <1>0, <1>1 DEF Acquire
    <2>2. IsFiniteSet(held')
      BY <1>1, FS_AddElement DEF Acquire, OverrunInv
    <2> QED BY <1>1, <2>1, <2>2 DEF Acquire, OverrunInv, LockTypeOK, Uncovered
  <1>2. ASSUME NEW r \in Requests, Refused(r) PROVE OverrunInv'
    BY <1>2 DEF Refused, lockVars, OverrunInv, LockTypeOK, Uncovered
  <1>3. ASSUME NEW r \in Requests, AcquireReplyLost(r) PROVE OverrunInv'
    <2>1. held' \ {runlock'} = held /\ held = held \ {runlock}
      BY <1>0, <1>3 DEF AcquireReplyLost
    <2> QED BY <1>3, <2>1 DEF AcquireReplyLost, OverrunInv, LockTypeOK, Uncovered
  <1>4. ASSUME NEW r \in Requests, Release(r) \/ ReleaseFails(r) PROVE OverrunInv'
    BY <1>4, LeavingCounts DEF Release, ReleaseFails
  <1>5. CASE ProcessDies
    <2>1. held' = {} /\ overruns' = 0 /\ held' \ {runlock'} = {}
      BY <1>5 DEF ProcessDies, Leave
    <2> QED BY <1>5, <2>1, FS_EmptySet DEF ProcessDies, Leave, OverrunInv, LockTypeOK, Uncovered
  <1>6. CASE Expire
    <2>1. held' \ {runlock'} = held
      BY <1>0, <1>6 DEF Expire
    <2>2. Cardinality(held \ {runlock})
             = IF runlock \in held THEN Cardinality(held) - 1 ELSE Cardinality(held)
      BY OneLess DEF OverrunInv
    <2>3. Cardinality(held) \in Nat
      BY OneLess DEF OverrunInv
    <2>4. overruns' \in Nat
      BY <1>6 DEF Expire, OverrunInv, LockTypeOK
    <2>5. Cardinality(held) <= overruns'
      BY <1>6, <2>2, <2>3 DEF Expire, OverrunInv, LockTypeOK, Uncovered
    <2> QED BY <1>6, <2>1, <2>4, <2>5 DEF Expire, OverrunInv, LockTypeOK, Uncovered
  <1>7. CASE UNCHANGED lockVars
    BY <1>7 DEF lockVars, OverrunInv, LockTypeOK, Uncovered
  <1> QED BY <1>1, <1>2, <1>3, <1>4, <1>5, <1>6, <1>7 DEF LockNext

(* However long the runs take, a key that expires under its call costs one *)
(* more call inside and the stray DEL that follows costs nothing further   *)
(* (the finally of hold_run_lock, which looks at no owner).                *)
THEOREM StrayDeleteCostsNoMore == LockSpec => []OneMorePerOverrun
  <1>1. CASE ~UseRedis
    BY <1>1, PTL DEF OneMorePerOverrun
  <1>2. CASE UseRedis
    <2>1. LockInit => OverrunInv
      BY FS_EmptySet DEF LockInit, OverrunInv, LockTypeOK, Uncovered
    <2>2. OverrunInv /\ [LockNext]_lockVars => OverrunInv'
      BY <1>2, StepOverrunInv
    <2>3. OverrunInv => OneMorePerOverrun
      BY <1>2, OneLess DEF OverrunInv, OneMorePerOverrun, Uncovered, LockTypeOK
    <2> QED BY <2>1, <2>2, <2>3, PTL DEF LockSpec
  <1> QED BY <1>1, <1>2
=============================================================================
