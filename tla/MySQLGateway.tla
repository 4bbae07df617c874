--------------------------- MODULE MySQLGateway ---------------------------
(***************************************************************************)
(* ops-gateway with ACTION_RECEIPT_STORE=mysql: the rollback and verify    *)
(* handlers of mysql_store.go for one incident, one step per statement     *)
(* sent to Redis or MySQL, interleaved as net/http interleaves them.       *)
(*                                                                         *)
(* A call c is one HTTP request; the idempotency key                       *)
(* incident:rollback:target and the Redis key                              *)
(* idemp:rollback:incident:target are both the target here.  A receipt id  *)
(* (nanoseconds of the clock) is the call that inserted the row.  The      *)
(* handlers use context.Background(): a caller that gives up stops nothing.*)
(***************************************************************************)
EXTENDS Integers

CONSTANTS
    Calls,      \* the HTTP requests
    Targets,    \* the services a rollback may name
    Executors,  \* requested_by
    None,       \* no row, no receipt
    UseRedis,   \* is REDIS_URL set?
    MaxFaults   \* bound: failed statements and restarts

Receipt == [id : Calls, executor : Executors]
ASSUME GatewayAssumption ==
    /\ UseRedis \in BOOLEAN
    /\ MaxFaults \in Nat
    /\ None \notin Receipt
    /\ None \notin Targets

VARIABLES
    pc,        \* pc[c]: the statement call c is at, or how it ended
    req,       \* req[c]: what it asks for
    table,     \* action_receipts, one row per idempotency key (UNIQUE KEY)
    verified,  \* the rows whose verification_status was written
    redis,     \* the Redis key of a target
    reply,     \* reply[c]: the receipt a rollback was answered with
    excused,   \* history: calls that met a database failure or a rival's row
    owed,      \* history: owed[c]: targets answered before verify c arrived
    faults     \* counter for the bound
vars == <<pc, req, table, verified, redis, reply, excused, owed, faults>>

Requests == [op : {"rollback"}, target : Targets, executor : Executors, known : BOOLEAN]
VerifyRequest == [op |-> "verify"]

AtWork == {"setnx", "peek", "lookup", "insert", "mark", "undo", "unmark", "count", "update"}
Ended == {"answered", "failed", "before", "after", "lost"}

TypeOK ==
    /\ pc \in [Calls -> {"unsent"} \cup AtWork \cup Ended]
    /\ req \in [Calls -> Requests \cup {VerifyRequest}]
    /\ table \in [Targets -> Receipt \cup {None}]
    /\ verified \subseteq Targets
    /\ redis \in [Targets -> {"absent", "pending", "done"}]
    /\ reply \in [Calls -> Receipt \cup {None}]
    /\ excused \subseteq Calls
    /\ owed \in [Calls -> SUBSET Targets]
    /\ faults \in 0 .. MaxFaults

Init ==
    /\ pc = [c \in Calls |-> "unsent"]
    /\ req = [c \in Calls |-> VerifyRequest]
    /\ table = [t \in Targets |-> None]
    /\ verified = {}
    /\ redis = [t \in Targets |-> "absent"]
    /\ reply = [c \in Calls |-> None]
    /\ excused = {}
    /\ owed = [c \in Calls |-> {}]
    /\ faults = 0

IsRollback(c) == pc[c] # "unsent" /\ req[c].op = "rollback"
Rivals(c) == {d \in Calls \ {c} : IsRollback(d) /\ req[d].target = req[c].target}
Answered == {t \in Targets : \E c \in Calls : IsRollback(c) /\ req[c].target = t /\ pc[c] = "answered"}

Goto(c, label) == pc' = [pc EXCEPT ![c] = label]
Fault == faults < MaxFaults /\ faults' = faults + 1
NoFault == UNCHANGED faults

---------------------------------------------------------------------------
(* POST /actions/rollback                                                  *)
ReceiveRollback(c, q) ==
    /\ pc[c] = "unsent"
    /\ Goto(c, IF UseRedis THEN "setnx" ELSE "lookup")
    /\ req' = [req EXCEPT ![c] = q]
    /\ UNCHANGED <<table, verified, redis, reply, excused, owed, faults>>

(* SETNX key pending: only somebody else's key leads to the first read.    *)
SetNX(c) ==
    LET t == req[c].target
    IN /\ pc[c] = "setnx"
       /\ redis' = [redis EXCEPT ![t] = IF @ = "absent" THEN "pending" ELSE @]
       /\ Goto(c, IF redis[t] = "absent" THEN "lookup" ELSE "peek")
       /\ UNCHANGED <<req, table, verified, reply, excused, owed, faults>>

(* Its error is ignored, whether or not it took effect.                    *)
SetNXFails(c) ==
    LET t == req[c].target
    IN /\ pc[c] = "setnx"
       /\ Fault
       /\ \/ redis' = [redis EXCEPT ![t] = IF @ = "absent" THEN "pending" ELSE @]
          \/ UNCHANGED redis
       /\ Goto(c, "lookup")
       /\ UNCHANGED <<req, table, verified, reply, excused, owed>>

Replay(c) ==
    /\ reply' = [reply EXCEPT ![c] = table[req[c].target]]
    /\ Goto(c, "answered")

(* A plausible slip: a key without a row means somebody is still at work.  *)
PeekRefuses(c) ==
    /\ pc[c] = "peek"
    /\ IF table[req[c].target] # None THEN Replay(c)
       ELSE Goto(c, "failed") /\ UNCHANGED reply
    /\ UNCHANGED <<req, table, verified, redis, excused, owed, faults>>

(* The read behind an existing Redis key: a receipt ends the call, nothing *)
(* found or an error does not.                                             *)
Peek(c) ==
    /\ pc[c] = "peek"
    /\ IF table[req[c].target] # None THEN Replay(c)
       ELSE Goto(c, "lookup") /\ UNCHANGED reply
    /\ UNCHANGED <<req, table, verified, redis, excused, owed, faults>>

PeekFails(c) ==
    /\ pc[c] = "peek"
    /\ Fault
    /\ Goto(c, "lookup")
    /\ UNCHANGED <<req, table, verified, redis, reply, excused, owed>>

(* A plausible slip: an unknown scenario leaves the Redis key behind.      *)
LookupUnknownKeepsKey(c) ==
    /\ pc[c] = "lookup"
    /\ IF table[req[c].target] # None THEN Replay(c)
       ELSE Goto(c, IF req[c].known THEN "insert" ELSE "failed") /\ UNCHANGED reply
    /\ UNCHANGED <<req, table, verified, redis, excused, owed, faults>>

(* getReceiptByKey, then the scenario of the playbook key.                 *)
Lookup(c) ==
    /\ pc[c] = "lookup"
    /\ IF table[req[c].target] # None THEN Replay(c)
       ELSE Goto(c, IF req[c].known THEN "insert" ELSE "undo") /\ UNCHANGED reply
    /\ UNCHANGED <<req, table, verified, redis, excused, owed, faults>>

LookupFails(c) ==
    /\ pc[c] = "lookup"
    /\ Fault
    /\ Goto(c, "undo")
    /\ excused' = excused \cup {c}
    /\ UNCHANGED <<req, table, verified, redis, reply, owed>>

(* A plausible slip: requested_by is not stored.                           *)
NewRowWithoutExecutor(c) == [table EXCEPT ![req[c].target] = [id |-> c, executor |-> None]]
NewRow(c) == [table EXCEPT ![req[c].target] = [id |-> c, executor |-> req[c].executor]]

(* A plausible slip: REPLACE INTO instead of INSERT.                       *)
InsertReplaces(c) ==
    /\ pc[c] = "insert"
    /\ table' = NewRow(c)
    /\ excused' = excused \cup Rivals(c)
    /\ Goto(c, "mark")
    /\ UNCHANGED <<req, verified, redis, reply, owed, faults>>

(* INSERT: the UNIQUE KEY lets one call per target through; for the others *)
(* it is an error like any other.                                          *)
Insert(c) ==
    /\ pc[c] = "insert"
    /\ IF table[req[c].target] = None
       THEN /\ table' = NewRow(c)
            /\ excused' = excused \cup Rivals(c)
            /\ Goto(c, "mark")
       ELSE Goto(c, "undo") /\ UNCHANGED <<table, excused>>
    /\ UNCHANGED <<req, verified, redis, reply, owed, faults>>

(* The INSERT fails, or its row is there and its answer lost.              *)
InsertFails(c) ==
    /\ pc[c] = "insert"
    /\ Fault
    /\ \/ /\ table[req[c].target] = None
          /\ table' = NewRow(c)
          /\ excused' = excused \cup Rivals(c) \cup {c}
       \/ excused' = excused \cup {c} /\ UNCHANGED table
    /\ Goto(c, "undo")
    /\ UNCHANGED <<req, verified, redis, reply, owed>>

AnswerOwn(c) ==
    /\ reply' = [reply EXCEPT ![c] = [id |-> c, executor |-> req[c].executor]]
    /\ Goto(c, "answered")

(* SET key receipt_id, then the answer "executed".                         *)
Mark(c) ==
    /\ pc[c] = "mark"
    /\ redis' = IF UseRedis THEN [redis EXCEPT ![req[c].target] = "done"] ELSE redis
    /\ AnswerOwn(c)
    /\ UNCHANGED <<req, table, verified, excused, owed, faults>>

MarkFails(c) ==
    /\ pc[c] = "mark" /\ UseRedis
    /\ Fault
    /\ redis' = [redis EXCEPT ![req[c].target] = "done"] \/ UNCHANGED redis
    /\ Goto(c, "unmark")
    /\ UNCHANGED <<req, table, verified, reply, excused, owed>>

Deleted(t) == IF UseRedis THEN [redis EXCEPT ![t] = "absent"] ELSE redis

(* DEL key after a failed SET; the rollback is answered all the same.      *)
Unmark(c) ==
    /\ pc[c] = "unmark"
    /\ redis' = Deleted(req[c].target)
    /\ AnswerOwn(c)
    /\ UNCHANGED <<req, table, verified, excused, owed, faults>>

(* DEL key, whoever set it, then the error.                                *)
Undo(c) ==
    /\ pc[c] = "undo"
    /\ redis' = Deleted(req[c].target)
    /\ Goto(c, "failed")
    /\ UNCHANGED <<req, table, verified, reply, excused, owed, faults>>

(* The DEL fails and nobody looks.                                         *)
DelFails(c) ==
    /\ UseRedis
    /\ Fault
    /\ \/ pc[c] = "undo" /\ Goto(c, "failed") /\ UNCHANGED reply
       \/ pc[c] = "unmark" /\ AnswerOwn(c)
    /\ UNCHANGED <<req, table, verified, redis, excused, owed>>

---------------------------------------------------------------------------
(* POST /actions/verify of a known scenario: two statements, no transaction*)
ReceiveVerify(c) ==
    /\ pc[c] = "unsent"
    /\ Goto(c, "count")
    /\ owed' = [owed EXCEPT ![c] = Answered]
    /\ UNCHANGED <<req, table, verified, redis, reply, excused, faults>>

(* A plausible slip: the key in Redis is asked, not the table.             *)
CountInRedis(c) ==
    /\ pc[c] = "count"
    /\ Goto(c, IF \E t \in Targets : redis[t] = "done" THEN "update" ELSE "before")
    /\ UNCHANGED <<req, table, verified, redis, reply, excused, owed, faults>>

(* SELECT COUNT(1)                                                         *)
Count(c) ==
    /\ pc[c] = "count"
    /\ Goto(c, IF \E t \in Targets : table[t] # None THEN "update" ELSE "before")
    /\ UNCHANGED <<req, table, verified, redis, reply, excused, owed, faults>>

Update(c) ==
    /\ pc[c] = "update"
    /\ verified' = {t \in Targets : table[t] # None}
    /\ Goto(c, "after")
    /\ UNCHANGED <<req, table, redis, reply, excused, owed, faults>>

(* Either statement fails; the UPDATE may have been applied.               *)
VerifyFails(c) ==
    /\ pc[c] \in {"count", "update"}
    /\ Fault
    /\ \/ pc[c] = "update" /\ verified' = {t \in Targets : table[t] # None}
       \/ UNCHANGED verified
    /\ Goto(c, "failed")
    /\ UNCHANGED <<req, table, redis, reply, excused, owed>>

---------------------------------------------------------------------------
(* The 24 hours of the Redis key are over.                                 *)
KeyExpires(t) ==
    /\ redis[t] # "absent"
    /\ redis' = [redis EXCEPT ![t] = "absent"]
    /\ UNCHANGED <<pc, req, table, verified, reply, excused, owed, faults>>

(* The gateway dies: its calls end where they are, MySQL and Redis stay.   *)
Restart ==
    /\ Fault
    /\ pc' = [c \in Calls |-> IF pc[c] \in AtWork THEN "lost" ELSE pc[c]]
    /\ UNCHANGED <<req, table, verified, redis, reply, excused, owed>>

RollbackStep(c) ==
    \/ SetNX(c) \/ SetNXFails(c) \/ Peek(c) \/ PeekFails(c) \/ Lookup(c) \/ LookupFails(c)
    \/ Insert(c) \/ InsertFails(c) \/ Mark(c) \/ MarkFails(c) \/ Unmark(c) \/ Undo(c) \/ DelFails(c)
VerifyStep(c) == Count(c) \/ Update(c) \/ VerifyFails(c)

Next ==
    \/ \E c \in Calls :
          \/ \E q \in Requests : ReceiveRollback(c, q)
          \/ ReceiveVerify(c)
          \/ RollbackStep(c)
          \/ VerifyStep(c)
    \/ \E t \in Targets : KeyExpires(t)
    \/ Restart

Spec == Init /\ [][Next]_vars

---------------------------------------------------------------------------
(* Every call that is answered with a receipt is answered with the one row *)
(* of its key, however calls, retries, Redis failures and restarts         *)
(* interleave (MySQLStore.Rollback).  It is part of KeepsPromise.          *)
AnswersAgree ==
    \A c \in Calls : reply[c] # None => reply[c] = table[req[c].target]

(* A rollback of a known scenario fails only for a database failure of its *)
(* own or because a rival executed it meanwhile: no Redis key, however     *)
(* stale, no Redis failure and no earlier crash makes a call fail.         *)
ErrorHasCause ==
    \A c \in Calls :
        (IsRollback(c) /\ pc[c] = "failed" /\ req[c].known) => c \in excused

(* Without failures no key is left "pending" behind calls that are over    *)
(* unless the rollback was executed.                                       *)
NoOrphanedKey ==
    \A t \in Targets :
        (/\ faults = 0 /\ redis[t] = "pending"
         /\ \A c \in Calls : IsRollback(c) /\ req[c].target = t => pc[c] \in Ended)
            => table[t] # None

(* A verification that starts after a rollback was answered never says     *)
(* "not rolled back", and marks that rollback's row (MySQLStore.Verify).   *)
VerifySeesRollback ==
    \A c \in Calls :
        /\ pc[c] = "before" => owed[c] = {}
        /\ pc[c] = "after" => owed[c] \subseteq verified

(* The handlers implement the promise of IdempotentRollback.               *)
Promise == INSTANCE IdempotentRollback WITH
    kept <- table,
    asked <- [c \in Calls |-> IF IsRollback(c) THEN req[c].target ELSE None],
    answer <- reply,
    failed <- {c \in Calls : IsRollback(c) /\ pc[c] = "failed"}
KeepsPromise == Promise!Spec
=============================================================================
