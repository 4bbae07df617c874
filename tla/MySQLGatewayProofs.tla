------------------------ MODULE MySQLGatewayProofs ------------------------
(***************************************************************************)
(* Proofs about MySQLGateway, for any calls, targets and executors and any *)
(* number of failures.                                                     *)
(***************************************************************************)
EXTENDS MySQLGateway, TLAPS

RollbackPlaces == {"setnx", "peek", "lookup", "insert", "mark", "undo", "unmark", "answered"}
VerifyPlaces == {"count", "update", "before", "after"}

(* A call is where its request takes it.                                   *)
InPlace ==
    \A c \in Calls :
        /\ pc[c] \in RollbackPlaces => req[c] \in Requests
        /\ pc[c] \in VerifyPlaces \cup {"unsent"} => req[c] = VerifyRequest

(* Exactly the calls that ended well have an answer.                       *)
AnsweredHasReply == \A c \in Calls : reply[c] # None <=> pc[c] = "answered"

(* Between its INSERT and its answer a call owns the row of its target.    *)
OwnRow ==
    \A c \in Calls :
        pc[c] \in {"mark", "unmark"} =>
            table[req[c].target] = [id |-> c, executor |-> req[c].executor]

(* Why a call is about to fail, or will if it meets a row.                 *)
CauseKnown ==
    \A c \in Calls :
        /\ pc[c] = "undo" /\ req[c].known => c \in excused
        /\ pc[c] = "insert" => req[c].known
        /\ pc[c] = "insert" /\ table[req[c].target] # None => c \in excused

(* What a verification owes was there when it arrived, and is still there. *)
OwedHasRow ==
    \A c \in Calls :
        /\ \A t \in owed[c] : table[t] # None
        /\ pc[c] = "after" => owed[c] \subseteq verified
        /\ pc[c] = "before" => owed[c] = {}

(* Whoever set a key to "pending" is still on its way to a row or a DEL.   *)
PendingHasWorker ==
    \A t \in Targets :
        faults = 0 /\ redis[t] = "pending" /\ table[t] = None =>
            \E c \in Calls : /\ pc[c] \in {"lookup", "insert", "undo"}
                             /\ req[c].op = "rollback" /\ req[c].target = t

(* Without Redis there are no keys and no statements about them.           *)
NoRedisNoKeys ==
    ~UseRedis => /\ \A t \in Targets : redis[t] = "absent"
                 /\ \A c \in Calls : pc[c] # "setnx"

GInv ==
    /\ NoRedisNoKeys
    /\ TypeOK /\ InPlace /\ AnsweredHasReply /\ OwnRow
    /\ AnswersAgree /\ CauseKnown /\ ErrorHasCause /\ OwedHasRow

---------------------------------------------------------------------------
(* What the two kinds of request are.                                      *)
LEMMA RequestKinds ==
    /\ VerifyRequest.op = "verify"
    /\ VerifyRequest \notin Requests
    /\ \A q \in Requests : /\ q.op = "rollback" /\ q.target \in Targets
                           /\ q.executor \in Executors /\ q.known \in BOOLEAN
  <1>1. VerifyRequest.op = "verify"
    BY DEF VerifyRequest
  <1>2. \A q \in Requests : /\ q.op = "rollback" /\ q.target \in Targets
                            /\ q.executor \in Executors /\ q.known \in BOOLEAN
    BY DEF Requests
  <1>3. VerifyRequest \notin Requests
    BY <1>1, <1>2
  <1> QED BY <1>1, <1>2, <1>3

LEMMA InitGInv == Init => GInv
  BY GatewayAssumption, RequestKinds
  DEF Init, GInv, NoRedisNoKeys, TypeOK, InPlace, AnsweredHasReply, OwnRow, AnswersAgree, CauseKnown,
      ErrorHasCause, OwedHasRow, AtWork, Ended, RollbackPlaces, VerifyPlaces, IsRollback

(* Every statement of every handler keeps the invariant.                   *)
LEMMA StepGInv == GInv /\ [Next]_vars => GInv'
  <1> SUFFICES ASSUME GInv, [Next]_vars PROVE GInv'
    OBVIOUS
  <1> USE GatewayAssumption, RequestKinds
  <1> USE DEF GInv, NoRedisNoKeys, TypeOK, InPlace, AnsweredHasReply, OwnRow, AnswersAgree, CauseKnown,
          ErrorHasCause, OwedHasRow, AtWork, Ended, RollbackPlaces, VerifyPlaces,
          IsRollback, Goto, Fault, Receipt
  <1>1. ASSUME NEW c \in Calls, NEW q \in Requests, ReceiveRollback(c, q) PROVE GInv'
    BY <1>1 DEF ReceiveRollback
  <1>2. ASSUME NEW c \in Calls, SetNX(c) PROVE GInv'
    BY <1>2 DEF SetNX
  <1>3. ASSUME NEW c \in Calls, SetNXFails(c) PROVE GInv'
    BY <1>3 DEF SetNXFails
  <1>4. ASSUME NEW c \in Calls, Peek(c) PROVE GInv'
    BY <1>4 DEF Peek, Replay
  <1>5. ASSUME NEW c \in Calls, PeekFails(c) PROVE GInv'
    BY <1>5 DEF PeekFails
  <1>6. ASSUME NEW c \in Calls, Lookup(c) PROVE GInv'
    BY <1>6 DEF Lookup, Replay
  <1>7. ASSUME NEW c \in Calls, LookupFails(c) PROVE GInv'
    BY <1>7 DEF LookupFails
  <1>8. ASSUME NEW c \in Calls, Insert(c) PROVE GInv'
    BY <1>8 DEF Insert, NewRow, Rivals
  <1>9. ASSUME NEW c \in Calls, InsertFails(c) PROVE GInv'
    BY <1>9 DEF InsertFails, NewRow, Rivals
  <1>10. ASSUME NEW c \in Calls, Mark(c) PROVE GInv'
    BY <1>10 DEF Mark, AnswerOwn
  <1>11. ASSUME NEW c \in Calls, MarkFails(c) PROVE GInv'
    BY <1>11 DEF MarkFails
  <1>12. ASSUME NEW c \in Calls, Unmark(c) PROVE GInv'
    BY <1>12 DEF Unmark, AnswerOwn, Deleted
  <1>13. ASSUME NEW c \in Calls, Undo(c) PROVE GInv'
    BY <1>13 DEF Undo, Deleted
  <1>14. ASSUME NEW c \in Calls, DelFails(c) PROVE GInv'
    BY <1>14 DEF DelFails, AnswerOwn
  <1>15. ASSUME NEW c \in Calls, ReceiveVerify(c) PROVE GInv'
    BY <1>15 DEF ReceiveVerify, Answered
  <1>16. ASSUME NEW c \in Calls, Count(c) PROVE GInv'
    BY <1>16 DEF Count
  <1>17. ASSUME NEW c \in Calls, Update(c) PROVE GInv'
    BY <1>17 DEF Update
  <1>18. ASSUME NEW c \in Calls, VerifyFails(c) PROVE GInv'
    BY <1>18 DEF VerifyFails
  <1>19. ASSUME NEW t \in Targets, KeyExpires(t) PROVE GInv'
    BY <1>19 DEF KeyExpires
  <1>20. CASE Restart
    BY <1>20 DEF Restart
  <1>21. CASE UNCHANGED vars
    BY <1>21 DEF vars
  <1> QED
    BY <1>1, <1>2, <1>3, <1>4, <1>5, <1>6, <1>7, <1>8, <1>9, <1>10, <1>11, <1>12, <1>13, <1>14, <1>15, <1>16, <1>17, <1>18, <1>19, <1>20, <1>21
    DEF Next, RollbackStep, VerifyStep

THEOREM GatewayInv == Spec => []GInv
  BY InitGInv, StepGInv, PTL DEF Spec

(* Type correctness of the gateway's state.                                *)
THEOREM GatewayTypeCorrect == Spec => []TypeOK
  BY GatewayInv, PTL DEF GInv

(* Any number of calls, retries, failed statements and restarts: whoever   *)
(* is answered with a receipt holds the one row of the key                 *)
(* (MySQLStore.Rollback).                                                  *)
THEOREM AnswersAlwaysAgree == Spec => []AnswersAgree
  BY GatewayInv, PTL DEF GInv

(* Only its own database failure or a rival's row makes a rollback of a    *)
(* known scenario fail, whatever Redis holds or does (MySQLStore.Rollback).*)
THEOREM ErrorsHaveCause == Spec => []ErrorHasCause
  BY GatewayInv, PTL DEF GInv

(* Although SELECT COUNT and UPDATE are two statements, a verification     *)
(* sees every rollback answered before it arrived (MySQLStore.Verify).     *)
THEOREM VerifyAlwaysSees == Spec => []VerifySeesRollback
  <1>1. GInv => VerifySeesRollback
    BY DEF GInv, OwedHasRow, VerifySeesRollback
  <1> QED BY <1>1, GatewayInv, PTL

---------------------------------------------------------------------------
LEMMA InitPending == Init => PendingHasWorker
  BY DEF Init, PendingHasWorker

LEMMA StepPending == GInv /\ PendingHasWorker /\ [Next]_vars => PendingHasWorker'
  <1> SUFFICES ASSUME GInv, PendingHasWorker, [Next]_vars PROVE PendingHasWorker'
    OBVIOUS
  <1> USE GatewayAssumption, RequestKinds
  <1> USE DEF GInv, NoRedisNoKeys, TypeOK, InPlace, PendingHasWorker, RollbackPlaces, Goto, Fault
  <1>1. ASSUME NEW c \in Calls, NEW q \in Requests, ReceiveRollback(c, q) PROVE PendingHasWorker'
    BY <1>1 DEF ReceiveRollback
  <1>2. ASSUME NEW c \in Calls, SetNX(c) PROVE PendingHasWorker'
    BY <1>2 DEF SetNX
  <1>3. ASSUME NEW c \in Calls, SetNXFails(c) PROVE PendingHasWorker'
    BY <1>3 DEF SetNXFails
  <1>4. ASSUME NEW c \in Calls, Peek(c) PROVE PendingHasWorker'
    BY <1>4 DEF Peek, Replay
  <1>5. ASSUME NEW c \in Calls, PeekFails(c) PROVE PendingHasWorker'
    BY <1>5 DEF PeekFails
  <1>6. ASSUME NEW c \in Calls, Lookup(c) PROVE PendingHasWorker'
    BY <1>6 DEF Lookup, Replay
  <1>7. ASSUME NEW c \in Calls, LookupFails(c) PROVE PendingHasWorker'
    BY <1>7 DEF LookupFails
  <1>8. ASSUME NEW c \in Calls, Insert(c) PROVE PendingHasWorker'
    <2> SUFFICES ASSUME NEW t \in Targets, faults = 0, redis[t] = "pending", table'[t] = None
                 PROVE \E d \in Calls : /\ pc'[d] \in {"lookup", "insert", "undo"}
                                        /\ req[d].op = "rollback" /\ req[d].target = t
      BY <1>8 DEF Insert
    <2>1. req[c].target \in Targets /\ req[c].executor \in Executors /\ req[c].op = "rollback"
      BY <1>8 DEF Insert
    <2>2. CASE table[req[c].target] # None
      BY <1>8, <2>1, <2>2 DEF Insert
    <2>3. CASE table[req[c].target] = None
      <3>1. [id |-> c, executor |-> req[c].executor] \in Receipt
        BY <2>1 DEF Receipt
      <3>2. t # req[c].target /\ table[t] = None
        BY <1>8, <2>1, <2>3, <3>1 DEF Insert, NewRow
      <3>3. PICK d \in Calls : /\ pc[d] \in {"lookup", "insert", "undo"}
                               /\ req[d].op = "rollback" /\ req[d].target = t
        BY <3>2
      <3> QED BY <1>8, <2>3, <3>2, <3>3 DEF Insert
    <2> QED BY <2>2, <2>3
  <1>9. ASSUME NEW c \in Calls, InsertFails(c) PROVE PendingHasWorker'
    BY <1>9 DEF InsertFails, NewRow
  <1>10. ASSUME NEW c \in Calls, Mark(c) PROVE PendingHasWorker'
    BY <1>10 DEF Mark, AnswerOwn
  <1>11. ASSUME NEW c \in Calls, MarkFails(c) PROVE PendingHasWorker'
    BY <1>11 DEF MarkFails
  <1>12. ASSUME NEW c \in Calls, Unmark(c) PROVE PendingHasWorker'
    BY <1>12 DEF Unmark, AnswerOwn, Deleted
  <1>13. ASSUME NEW c \in Calls, Undo(c) PROVE PendingHasWorker'
    BY <1>13 DEF Undo, Deleted
  <1>14. ASSUME NEW c \in Calls, DelFails(c) PROVE PendingHasWorker'
    BY <1>14 DEF DelFails, AnswerOwn
  <1>15. ASSUME NEW c \in Calls, ReceiveVerify(c) PROVE PendingHasWorker'
    BY <1>15 DEF ReceiveVerify
  <1>16. ASSUME NEW c \in Calls, Count(c) PROVE PendingHasWorker'
    BY <1>16 DEF Count
  <1>17. ASSUME NEW c \in Calls, Update(c) PROVE PendingHasWorker'
    BY <1>17 DEF Update
  <1>18. ASSUME NEW c \in Calls, VerifyFails(c) PROVE PendingHasWorker'
    BY <1>18 DEF VerifyFails
  <1>19. ASSUME NEW t \in Targets, KeyExpires(t) PROVE PendingHasWorker'
    BY <1>19 DEF KeyExpires
  <1>20. CASE Restart
    BY <1>20 DEF Restart
  <1>21. CASE UNCHANGED vars
    BY <1>21 DEF vars
  <1> QED
    BY <1>1, <1>2, <1>3, <1>4, <1>5, <1>6, <1>7, <1>8, <1>9, <1>10, <1>11, <1>12, <1>13, <1>14, <1>15, <1>16, <1>17, <1>18, <1>19, <1>20, <1>21
    DEF Next, RollbackStep, VerifyStep

(* Without failures a "pending" key never outlives its calls unless the    *)
(* rollback was executed (the DELs of MySQLStore.Rollback).                *)
THEOREM KeysNeverOrphaned == Spec => []NoOrphanedKey
  <1>1. GInv /\ PendingHasWorker => NoOrphanedKey
    BY DEF GInv, TypeOK, PendingHasWorker, NoOrphanedKey, IsRollback, Ended, AtWork
  <1>2. Spec => []PendingHasWorker
    BY GatewayInv, InitPending, StepPending, PTL DEF Spec
  <1> QED BY <1>1, <1>2, GatewayInv, PTL

---------------------------------------------------------------------------
(* The refinement: what each statement is in IdempotentRollback.           *)
LEMMA InitPromise == Init => Promise!Init
  BY DEF Init, Promise!Init, IsRollback

LEMMA StepPromise == GInv /\ [Next]_vars => [Promise!Next]_Promise!vars
  <1> SUFFICES ASSUME GInv, [Next]_vars PROVE [Promise!Next]_Promise!vars
    OBVIOUS
  <1> USE GatewayAssumption, RequestKinds
  <1> USE DEF GInv, TypeOK, InPlace, AnsweredHasReply, OwnRow, RollbackPlaces, VerifyPlaces,
          AtWork, Ended, IsRollback, Goto, Fault, Promise!vars
  <1>1. ASSUME NEW c \in Calls, NEW q \in Requests, ReceiveRollback(c, q) PROVE [Promise!Next]_Promise!vars
    <2> DEFINE asked == [d \in Calls |-> IF IsRollback(d) THEN req[d].target ELSE None]
    <2>1. \A d \in Calls : asked'[d] = IF d = c THEN q.target ELSE asked[d]
      BY <1>1 DEF ReceiveRollback
    <2>2. asked[c] = None /\ asked' = [asked EXCEPT ![c] = q.target]
      BY <1>1, <2>1 DEF ReceiveRollback
    <2>3. UNCHANGED <<table, reply, {d \in Calls : IsRollback(d) /\ pc[d] = "failed"}>>
      BY <1>1 DEF ReceiveRollback
    <2>4. Promise!Ask(c, q.target)
      BY <2>2, <2>3 DEF Promise!Ask
    <2> QED BY <2>4 DEF Promise!Next
  <1>2. ASSUME NEW c \in Calls, SetNX(c) PROVE [Promise!Next]_Promise!vars
    BY <1>2 DEF SetNX
  <1>3. ASSUME NEW c \in Calls, SetNXFails(c) PROVE [Promise!Next]_Promise!vars
    BY <1>3 DEF SetNXFails
  <1>4. ASSUME NEW c \in Calls, Peek(c) PROVE [Promise!Next]_Promise!vars
    <2>1. CASE table[req[c].target] # None
      <3>1. Promise!Answer(c)
        BY <1>4, <2>1 DEF Peek, Replay, Promise!Answer, Promise!Open
      <3> QED BY <3>1 DEF Promise!Next
    <2>2. CASE table[req[c].target] = None
      BY <1>4, <2>2 DEF Peek, Replay
    <2> QED BY <2>1, <2>2
  <1>5. ASSUME NEW c \in Calls, PeekFails(c) PROVE [Promise!Next]_Promise!vars
    BY <1>5 DEF PeekFails
  <1>6. ASSUME NEW c \in Calls, Lookup(c) PROVE [Promise!Next]_Promise!vars
    <2>1. CASE table[req[c].target] # None
      <3>1. Promise!Answer(c)
        BY <1>6, <2>1 DEF Lookup, Replay, Promise!Answer, Promise!Open
      <3> QED BY <3>1 DEF Promise!Next
    <2>2. CASE table[req[c].target] = None
      BY <1>6, <2>2 DEF Lookup, Replay
    <2> QED BY <2>1, <2>2
  <1>7. ASSUME NEW c \in Calls, LookupFails(c) PROVE [Promise!Next]_Promise!vars
    BY <1>7 DEF LookupFails
  <1>8. ASSUME NEW c \in Calls, Insert(c) PROVE [Promise!Next]_Promise!vars
    <2>1. CASE table' # table
      <3>1. table[req[c].target] = None /\ table' = NewRow(c)
        BY <1>8, <2>1 DEF Insert
      <3>2. IsRollback(c) /\ req[c].target \in Targets /\ req[c].executor \in Executors
        BY <1>8 DEF Insert
      <3>3. Promise!Open(c)
        BY <1>8, <3>2 DEF Insert, Promise!Open
      <3>4. UNCHANGED <<[d \in Calls |-> IF IsRollback(d) THEN req[d].target ELSE None], reply,
                        {d \in Calls : IsRollback(d) /\ pc[d] = "failed"}>>
        BY <1>8, <3>2 DEF Insert
      <3>5. Promise!Execute(c, req[c].executor)
        BY <3>1, <3>2, <3>3, <3>4 DEF NewRow, Promise!Execute
      <3> QED BY <3>2, <3>5 DEF Promise!Next
    <2>2. CASE table' = table
      BY <1>8, <2>2 DEF Insert, NewRow
    <2> QED BY <2>1, <2>2
  <1>9. ASSUME NEW c \in Calls, InsertFails(c) PROVE [Promise!Next]_Promise!vars
    <2>1. CASE table' # table
      <3>1. table[req[c].target] = None /\ table' = NewRow(c)
        BY <1>9, <2>1 DEF InsertFails
      <3>2. IsRollback(c) /\ req[c].target \in Targets /\ req[c].executor \in Executors
        BY <1>9 DEF InsertFails
      <3>3. Promise!Open(c)
        BY <1>9, <3>2 DEF InsertFails, Promise!Open
      <3>4. UNCHANGED <<[d \in Calls |-> IF IsRollback(d) THEN req[d].target ELSE None], reply,
                        {d \in Calls : IsRollback(d) /\ pc[d] = "failed"}>>
        BY <1>9, <3>2 DEF InsertFails
      <3>5. Promise!Execute(c, req[c].executor)
        BY <3>1, <3>2, <3>3, <3>4 DEF NewRow, Promise!Execute
      <3> QED BY <3>2, <3>5 DEF Promise!Next
    <2>2. CASE table' = table
      BY <1>9, <2>2 DEF InsertFails, NewRow
    <2> QED BY <2>1, <2>2
  <1>10. ASSUME NEW c \in Calls, Mark(c) PROVE [Promise!Next]_Promise!vars
    <2>1. IsRollback(c) /\ req[c].target \in Targets
      BY <1>10 DEF Mark
    <2>2. Promise!Open(c)
      BY <1>10, <2>1 DEF Mark, Promise!Open
    <2>3. table[req[c].target] # None /\ reply' = [reply EXCEPT ![c] = table[req[c].target]]
      <3>1. table[req[c].target] = [id |-> c, executor |-> req[c].executor]
        BY <1>10 DEF Mark
      <3>2. [id |-> c, executor |-> req[c].executor] \in Receipt
        BY <2>1 DEF Receipt
      <3> QED BY <1>10, <3>1, <3>2 DEF Mark, AnswerOwn
    <2>4. UNCHANGED <<[e \in Calls |-> IF IsRollback(e) THEN req[e].target ELSE None], table,
                      {e \in Calls : IsRollback(e) /\ pc[e] = "failed"}>>
      BY <1>10, <2>1 DEF Mark, AnswerOwn
    <2>5. Promise!Answer(c)
      BY <2>1, <2>2, <2>3, <2>4 DEF Promise!Answer
    <2> QED BY <2>5 DEF Promise!Next
  <1>11. ASSUME NEW c \in Calls, MarkFails(c) PROVE [Promise!Next]_Promise!vars
    BY <1>11 DEF MarkFails
  <1>12. ASSUME NEW c \in Calls, Unmark(c) PROVE [Promise!Next]_Promise!vars
    <2>1. IsRollback(c) /\ req[c].target \in Targets
      BY <1>12 DEF Unmark
    <2>2. Promise!Open(c)
      BY <1>12, <2>1 DEF Unmark, Promise!Open
    <2>3. table[req[c].target] # None /\ reply' = [reply EXCEPT ![c] = table[req[c].target]]
      <3>1. table[req[c].target] = [id |-> c, executor |-> req[c].executor]
        BY <1>12 DEF Unmark
      <3>2. [id |-> c, executor |-> req[c].executor] \in Receipt
        BY <2>1 DEF Receipt
      <3> QED BY <1>12, <3>1, <3>2 DEF Unmark, AnswerOwn, Deleted
    <2>4. UNCHANGED <<[e \in Calls |-> IF IsRollback(e) THEN req[e].target ELSE None], table,
                      {e \in Calls : IsRollback(e) /\ pc[e] = "failed"}>>
      BY <1>12, <2>1 DEF Unmark, AnswerOwn, Deleted
    <2>5. Promise!Answer(c)
      BY <2>1, <2>2, <2>3, <2>4 DEF Promise!Answer
    <2> QED BY <2>5 DEF Promise!Next
  <1>13. ASSUME NEW c \in Calls, Undo(c) PROVE [Promise!Next]_Promise!vars
    <2>1. Promise!Fail(c)
      BY <1>13 DEF Undo, Deleted, Promise!Fail, Promise!Open
    <2> QED BY <2>1 DEF Promise!Next
  <1>14. ASSUME NEW c \in Calls, DelFails(c) PROVE [Promise!Next]_Promise!vars
    <2>1. CASE pc[c] = "undo"
      <3>1. Promise!Fail(c)
        BY <1>14, <2>1 DEF DelFails, AnswerOwn, Promise!Fail, Promise!Open
      <3> QED BY <3>1 DEF Promise!Next
    <2>2. CASE pc[c] = "unmark"
      <3>1. IsRollback(c) /\ req[c].target \in Targets
        BY <2>2
      <3>2. Promise!Open(c)
        BY <2>2, <3>1 DEF Promise!Open
      <3>3. table[req[c].target] # None /\ reply' = [reply EXCEPT ![c] = table[req[c].target]]
        BY <1>14, <2>2, <3>1 DEF DelFails, AnswerOwn, Receipt
      <3>4. UNCHANGED <<[e \in Calls |-> IF IsRollback(e) THEN req[e].target ELSE None], table,
                        {e \in Calls : IsRollback(e) /\ pc[e] = "failed"}>>
        BY <1>14, <2>2, <3>1 DEF DelFails, AnswerOwn
      <3>5. Promise!Answer(c)
        BY <3>1, <3>2, <3>3, <3>4 DEF Promise!Answer
      <3> QED BY <3>5 DEF Promise!Next
    <2> QED BY <1>14, <2>1, <2>2 DEF DelFails
  <1>15. ASSUME NEW c \in Calls, ReceiveVerify(c) PROVE [Promise!Next]_Promise!vars
    BY <1>15 DEF ReceiveVerify
  <1>16. ASSUME NEW c \in Calls, Count(c) PROVE [Promise!Next]_Promise!vars
    BY <1>16 DEF Count
  <1>17. ASSUME NEW c \in Calls, Update(c) PROVE [Promise!Next]_Promise!vars
    BY <1>17 DEF Update
  <1>18. ASSUME NEW c \in Calls, VerifyFails(c) PROVE [Promise!Next]_Promise!vars
    BY <1>18 DEF VerifyFails
  <1>19. ASSUME NEW t \in Targets, KeyExpires(t) PROVE [Promise!Next]_Promise!vars
    BY <1>19 DEF KeyExpires
  <1>20. CASE Restart
    BY <1>20 DEF Restart
  <1>21. CASE UNCHANGED vars
    BY <1>21 DEF vars
  <1> QED
    BY <1>1, <1>2, <1>3, <1>4, <1>5, <1>6, <1>7, <1>8, <1>9, <1>10, <1>11, <1>12, <1>13, <1>14, <1>15, <1>16, <1>17, <1>18, <1>19, <1>20, <1>21
    DEF Next, RollbackStep, VerifyStep

(* The statements of MySQLStore.Rollback implement an atomic rollback that *)
(* is executed at most once per key.                                       *)
THEOREM GatewayKeepsPromise == Spec => KeepsPromise
  <1>1. Init => Promise!Init
    BY InitPromise
  <1>2. GInv /\ [Next]_vars => [Promise!Next]_Promise!vars
    BY StepPromise
  <1> QED BY <1>1, <1>2, GatewayInv, PTL DEF Spec, KeepsPromise, Promise!Spec
=============================================================================
