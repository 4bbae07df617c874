------------------------ MODULE WorkflowStateProofs ------------------------
(***************************************************************************)
(* Proofs that the parties of Workflow tell one story: the graph's         *)
(* checkpoint, incident-api's status and ops-gateway's receipts hold data  *)
(* that agree; and, where the run lock keeps two calls apart, the thread,  *)
(* the incident's status and the answer of a call do.                      *)
(***************************************************************************)
EXTENDS WorkflowProofs

SomethingExecuted == \E t \in Targets : executed[t] > 0

(* A receipt held by a thread comes from an executed rollback and, while   *)
(* the gateway forgets nothing, is the one the gateway still has.          *)
GatewayHas(h) ==
    /\ receipts[h.target] # None
    /\ receipts[h.target].executor = h.executor
    /\ receipts[h.target].revision = h.revision

Backed(h) == h # None => SomethingExecuted /\ (KeepsReceipts => GatewayHas(h))

AllBacked ==
    /\ Backed(saved.vals.receipt)
    /\ \A r \in Requests : Backed(vals[r].receipt)

ReceiptsEarned ==
    \A t \in Targets : receipts[t] # None => executed[t] > 0 /\ receipts[t].target = t

DataInv == AllBacked /\ ReceiptsEarned /\ RecoveredWasRolledBack

(* What every step but a gateway restart does to the gateway's store: it   *)
(* may gain receipts and never changes one.                                *)
GatewayGrows ==
    \A t \in Targets :
        /\ receipts[t] # None => receipts'[t] = receipts[t]
        /\ executed[t] > 0 => executed'[t] > 0

---------------------------------------------------------------------------
LEMMA InitData == Init => DataInv
  <1> SUFFICES ASSUME Init PROVE DataInv
    OBVIOUS
  <1>1. NewThread.receipt = None
    BY DEF NewThread
  <1>2. AllBacked
    BY <1>1 DEF Init, AllBacked, Backed, Unstarted
  <1>3. ReceiptsEarned /\ RecoveredWasRolledBack
    BY DEF Init, ReceiptsEarned, RecoveredWasRolledBack
  <1> QED BY <1>2, <1>3 DEF DataInv

LEMMA BackedStays ==
    ASSUME NEW h \in HeldReceipt \cup {None}, Backed(h), GatewayGrows
    PROVE  Backed(h)'
  <1>1. h # None => h.target \in Targets
    BY DEF HeldReceipt
  <1> QED BY <1>1 DEF Backed, SomethingExecuted, GatewayHas, GatewayGrows

LEMMA SameGatewayGrows == ASSUME UNCHANGED gatewayVars PROVE GatewayGrows /\ (ReceiptsEarned => ReceiptsEarned')
  BY DEF gatewayVars, GatewayGrows, ReceiptsEarned

(* A rollback leaves the receipt it answers with in the store.             *)
LEMMA RollbackEarns ==
    ASSUME WInv, ReceiptsEarned, NEW p \in Plan, NEW by \in Reviewers \cup {System}, Rollback(p, by)
    PROVE  /\ GatewayGrows /\ ReceiptsEarned'
           /\ receipts'[p.target] = ReceiptFor(p, by)
           /\ ReceiptFor(p, by) # None /\ ReceiptFor(p, by).target = p.target
           /\ executed'[p.target] > 0
  <1>1. p.target \in Targets /\ ReceiptFor(p, by) \in Receipt
    BY ReceiptType
  <1>2. receipts \in [Targets -> Receipt \cup {None}] /\ executed \in [Targets -> Nat]
    BY DEF WInv, TypeOK
  <1>3. ReceiptFor(p, by).target = p.target
    BY <1>1, <1>2 DEF ReceiptFor, ReceiptsEarned
  <1>4. receipts'[p.target] = ReceiptFor(p, by) /\ ReceiptFor(p, by) # None
    BY <1>1, <1>2, ReceiptAssumption DEF Rollback
  <1>5. executed'[p.target] > 0
    BY <1>1, <1>2 DEF Rollback, ReceiptsEarned
  <1>6. GatewayGrows
    BY <1>1, <1>2 DEF Rollback, GatewayGrows, ReceiptFor
  <1>7. ReceiptsEarned'
    BY <1>1, <1>2, <1>3, <1>4, <1>5 DEF Rollback, ReceiptsEarned
  <1> QED BY <1>3, <1>4, <1>5, <1>6, <1>7

---------------------------------------------------------------------------
(* The steps that are no node's work only move channels between the thread *)
(* and the calls, or forget them, and set no status but a review's.        *)
Moves ==
    /\ saved'.vals \in {saved.vals, NewThread} \cup {vals[r] : r \in Requests}
    /\ \A r \in Requests : vals'[r] \in {vals[r], saved.vals, NewThread}
    /\ status' \in {status, "approved", "rejected"}
    /\ UNCHANGED <<receipts, executed>>

LEMMA MovesKeep == ASSUME DataInv, Moves PROVE DataInv'
  <1>1. \A h : Backed(h) => Backed(h)'
    BY DEF Moves, Backed, SomethingExecuted, GatewayHas
  <1>2. Backed(NewThread.receipt)'
    BY DEF NewThread, Backed
  <1>3. AllBacked'
    BY <1>1, <1>2 DEF DataInv, AllBacked, Moves
  <1>4. ReceiptsEarned' /\ RecoveredWasRolledBack'
    BY DEF DataInv, ReceiptsEarned, RecoveredWasRolledBack, Moves
  <1> QED BY <1>3, <1>4 DEF DataInv

LEMMA EndingMoves ==
    ASSUME WInv, NEW r \in Requests, NEW s, Answer(r, s), saved' = saved, UNCHANGED <<status, receipts, executed>>
    PROVE  Moves
  BY DEF WInv, TypeOK, Answer, Moves

LEMMA CallMoves ==
    ASSUME WInv, NEW r \in Requests,
           \/ \E c \in {RunCall} \cup ResumeCalls : Accept(r, c)
           \/ Conflict(r) \/ ReviewRecorded(r) \/ InvokeRun(r) \/ InvokeResume(r)
           \/ Interrupt(r) \/ Commit(r) \/ LockReplyLost(r)
    PROVE  Moves
  <1>0. TypeOK
    BY DEF WInv
  <1>1. CASE (\E c \in {RunCall} \cup ResumeCalls : Accept(r, c)) \/ Conflict(r) \/ LockReplyLost(r)
    BY <1>1 DEF Accept, Conflict, LockReplyLost, Moves, graphVars, apiVars, gatewayVars
  <1>2. CASE ReviewRecorded(r)
    BY <1>2 DEF ReviewRecorded, Reviewed, ReviewStatus, Moves, gatewayVars
  <1>3. CASE InvokeRun(r) \/ InvokeResume(r)
    BY <1>0, <1>3 DEF InvokeRun, InvokeResume, TypeOK, Moves, apiVars, gatewayVars
  <1>4. CASE Interrupt(r)
    <2>1. saved'.vals = saved.vals
      BY <1>0, <1>4, CheckpointFields DEF Interrupt, TypeOK
    <2> QED BY <1>4, <2>1 DEF Interrupt, Moves, apiVars, gatewayVars
  <1>5. CASE Commit(r)
    BY <1>5 DEF Commit, Moves, apiVars, gatewayVars
  <1> QED BY <1>1, <1>2, <1>3, <1>4, <1>5

LEMMA OtherMoves ==
    ASSUME WInv,
           \/ \E r \in Requests : ResumeUnstarted(r) \/ Respond(r) \/ CallFails(r) \/ RollbackTimesOut(r)
           \/ LockExpires \/ OrchestratorRestarts
           \/ \E ok \in BOOLEAN, reviewer \in Reviewers : DirectReview(ok, reviewer)
           \/ UNCHANGED vars
    PROVE  Moves
  <1>1. ASSUME NEW r \in Requests,
               ResumeUnstarted(r) \/ Respond(r) \/ CallFails(r) \/ RollbackTimesOut(r)
        PROVE  Moves
    BY <1>1, EndingMoves DEF ResumeUnstarted, Respond, CallFails, RollbackTimesOut, apiVars, gatewayVars
  <1>2. CASE LockExpires \/ UNCHANGED vars
    BY <1>2 DEF LockExpires, vars, Moves, graphVars, apiVars, gatewayVars
  <1>3. CASE OrchestratorRestarts
    BY <1>3 DEF OrchestratorRestarts, Unstarted, Moves, apiVars, gatewayVars
  <1>4. ASSUME NEW ok \in BOOLEAN, NEW reviewer \in Reviewers, DirectReview(ok, reviewer) PROVE Moves
    BY <1>4 DEF DirectReview, Reviewed, ReviewStatus, Moves, graphVars, gatewayVars
  <1> QED BY <1>1, <1>2, <1>3, <1>4

---------------------------------------------------------------------------
(* The nodes' work.                                                        *)
LEMMA WorkKeepsData ==
    ASSUME WInv, DataInv, GatewayGrows, ReceiptsEarned', status' # "recovered" \/ status' = status,
           NEW r \in Requests, NEW n, NEW v \in Channels, NEW m, Work(r, n, v, m), Backed(v.receipt)'
    PROVE  DataInv'
  <1>1. /\ saved' = saved /\ saved.vals.receipt \in HeldReceipt \cup {None}
        /\ \A q \in Requests : vals[q].receipt \in HeldReceipt \cup {None}
    BY ChannelFields, CheckpointFields DEF Work, WInv, TypeOK
  <1>2. vals' = [vals EXCEPT ![r] = v]
    BY DEF Work
  <1>3. Backed(saved.vals.receipt)'
    BY <1>1, BackedStays DEF DataInv, AllBacked, Backed, GatewayHas, SomethingExecuted
  <1>4. ASSUME NEW q \in Requests PROVE Backed(vals[q].receipt)'
    <2>1. CASE q = r
      BY <1>2, <2>1 DEF WInv, TypeOK, Backed, GatewayHas, SomethingExecuted
    <2>2. CASE q # r
      <3>1. vals'[q] = vals[q]
        BY <1>2, <2>2 DEF WInv, TypeOK
      <3>2. Backed(vals[q].receipt)
        BY DEF DataInv, AllBacked
      <3> DEFINE h == vals[q].receipt
      <3> QED BY <1>1, <3>1, <3>2, BackedStays DEF Backed, GatewayHas, SomethingExecuted
    <2> QED BY <2>1, <2>2
  <1>5. RecoveredWasRolledBack'
    BY DEF DataInv, RecoveredWasRolledBack, GatewayGrows
  <1>6. AllBacked'
    BY <1>3, <1>4 DEF AllBacked
  <1> QED BY <1>5, <1>6 DEF DataInv

(* A node that touches neither the gateway nor the receipt channel.        *)
LEMMA PlainWorkKeeps ==
    ASSUME WInv, DataInv, UNCHANGED gatewayVars, status' # "recovered" \/ status' = status,
           NEW r \in Requests, NEW n, NEW v \in Channels, NEW m, Work(r, n, v, m),
           v.receipt = vals[r].receipt
    PROVE  DataInv'
  <1>1. GatewayGrows /\ ReceiptsEarned'
    BY SameGatewayGrows DEF DataInv
  <1>2. Backed(v.receipt)'
    BY DEF DataInv, AllBacked, Backed, GatewayHas, SomethingExecuted, gatewayVars
  <1> QED BY <1>1, <1>2, WorkKeepsData

LEMMA AnalysisWork ==
    ASSUME WInv, DataInv, NEW r \in Requests,
           \/ LoadIncident(r) \/ Triage(r) \/ GatherEvidence(r) \/ PlannerAgent(r)
           \/ CriticAgent(r) \/ PolicyAgent(r) \/ ApprovalGate(r)
    PROVE  DataInv'
  <1>0. vals[r] \in Channels
    BY DEF WInv, TypeOK
  <1>1. CASE LoadIncident(r)
    <2> DEFINE v == [vals[r] EXCEPT !.replans = 0]
    <2>0. 0 \in 0 .. 2
      OBVIOUS
    <2>1. v \in Channels /\ v.receipt = vals[r].receipt
      BY <1>0, <2>0 DEF Channels
    <2> QED BY <1>1, <2>1, PlainWorkKeeps DEF LoadIncident, apiVars
  <1>2. CASE Triage(r) \/ GatherEvidence(r)
    BY <1>0, <1>2, PlainWorkKeeps DEF Triage, GatherEvidence, apiVars
  <1>3. CASE PlannerAgent(r)
    <2>1. PICK answer \in PlannerAnswers :
              /\ Work(r, "planner_agent", [vals[r] EXCEPT !.action = WithGuardrail(answer)],
                      "critic_agent")
              /\ status' = AnalysisStatus(WithGuardrail(answer))
              /\ UNCHANGED <<approval, approvers, gatewayVars>>
      BY <1>3 DEF PlannerAgent
    <2> DEFINE v == [vals[r] EXCEPT !.action = WithGuardrail(answer)]
    <2>2. WithGuardrail(answer) \in Plan \cup {None}
      BY PlanAssumption DEF PlannerAnswers, WithGuardrail
    <2>3. v \in Channels /\ v.receipt = vals[r].receipt
      BY <1>0, <2>2 DEF Channels
    <2> QED BY <2>1, <2>3, PlainWorkKeeps DEF AnalysisStatus
  <1>4. CASE CriticAgent(r)
    <2>1. PICK verdict \in CriticAnswers(vals[r].action), count \in {vals[r].replans, vals[r].replans + 1} :
              Work(r, "critic_agent", [vals[r] EXCEPT !.replans = count], RouteAfterCritic(verdict, count))
      BY <1>4 DEF CriticAgent
    <2>2. next[r] = "critic_agent"
      BY <2>1 DEF Work
    <2>3. vals[r].replans \in 0 .. 2 /\ vals[r].replans <= 1
      BY <1>0, <2>2, ChannelFields DEF WInv, AllReady, PlanReady
    <2>4. count \in 0 .. 2
      BY <2>3
    <2> DEFINE v == [vals[r] EXCEPT !.replans = count]
    <2>5. v \in Channels /\ v.receipt = vals[r].receipt
      BY <1>0, <2>4 DEF Channels
    <2> QED BY <1>4, <2>1, <2>5, PlainWorkKeeps DEF CriticAgent, apiVars
  <1>5. CASE PolicyAgent(r)
    BY <1>0, <1>5, PlainWorkKeeps DEF PolicyAgent, apiVars
  <1>6. CASE ApprovalGate(r)
    <2>1. PICK answer \in {"approved", "rejected"} :
              Work(r, "approval_gate",
                   [vals[r] EXCEPT !.approval = answer, !.reviewer = call[r].reviewer],
                   RouteAfterApproval(answer))
      BY <1>6 DEF ApprovalGate
    <2> DEFINE v == [vals[r] EXCEPT !.approval = answer, !.reviewer = call[r].reviewer]
    <2>2. call[r].reviewer \in Reviewers
      BY <1>6, CallKinds DEF ApprovalGate, WInv, OnlyResumesDecide
    <2>3. v \in Channels /\ v.receipt = vals[r].receipt
      BY <1>0, <2>2 DEF Channels
    <2> QED BY <1>6, <2>1, <2>3, PlainWorkKeeps DEF ApprovalGate, apiVars
  <1> QED BY <1>1, <1>2, <1>3, <1>4, <1>5, <1>6

(* The receipt rollback_action keeps is the one the gateway answers with.  *)
LEMMA RollbackWork ==
    ASSUME WInv, DataInv, NEW r \in Requests, RollbackAction(r)
    PROVE  DataInv'
  <1>0. vals[r] \in Channels
    BY DEF WInv, TypeOK
  <1> PICK p, by, got, h, v :
          /\ p = vals[r].action /\ by = Requester(vals[r]) /\ got = ReceiptFor(p, by)
          /\ h = [target |-> got.target, executor |-> got.executor,
                  revision |-> got.revision, verification |-> "pending"]
          /\ v = [vals[r] EXCEPT !.receipt = h]
    OBVIOUS
  <1>1. Work(r, "rollback_action", v, "verify_recovery") /\ Rollback(p, by) /\ status' = status
    BY DEF RollbackAction, apiVars
  <1>2. p \in Plan /\ by \in Reviewers \cup {System}
    BY <1>0, <1>1, ChannelFields DEF WInv, AllReady, PlanReady, Work, Requester
  <1>3. p.target \in Targets /\ h \in HeldReceipt
    BY <1>2, ReceiptType
  <1>4. /\ GatewayGrows /\ ReceiptsEarned' /\ executed'[p.target] > 0
        /\ receipts'[p.target] = got /\ got # None /\ got.target = p.target
    BY <1>1, <1>2, RollbackEarns DEF DataInv
  <1>5. v \in Channels /\ v.receipt = h
    BY <1>0, <1>3 DEF Channels
  <1>6. Backed(v.receipt)'
    BY <1>3, <1>4, <1>5 DEF Backed, SomethingExecuted, GatewayHas
  <1> QED BY <1>1, <1>4, <1>5, <1>6, WorkKeepsData

(* verify_recovery only stamps the receipt it holds; the final report calls*)
(* the incident recovered only with a receipt in hand.                     *)
LEMMA ClosingWork ==
    ASSUME WInv, DataInv, NEW r \in Requests, VerifyRecovery(r) \/ FinalizeReport(r)
    PROVE  DataInv'
  <1>0. vals[r] \in Channels /\ Backed(vals[r].receipt) /\ vals[r].receipt \in HeldReceipt \cup {None}
    BY ChannelFields DEF WInv, TypeOK, DataInv, AllBacked
  <1>1. CASE VerifyRecovery(r)
    <2> PICK h, v :
            /\ h = IF vals[r].receipt = None THEN None
                   ELSE [vals[r].receipt EXCEPT !.verification = Verify]
            /\ v = [vals[r] EXCEPT !.verified = Verify, !.receipt = h]
      OBVIOUS
    <2>1. Work(r, "verify_recovery", v, "finalize_report") /\ UNCHANGED gatewayVars /\ status' = status
      BY <1>1 DEF VerifyRecovery, apiVars
    <2>2. Verify \in Verdicts
      BY ConfigAssumption DEF Verify, Verdicts
    <2>3. \/ h = None
          \/ /\ vals[r].receipt # None /\ h \in HeldReceipt /\ h.target = vals[r].receipt.target
             /\ h.executor = vals[r].receipt.executor /\ h.revision = vals[r].receipt.revision
      BY <1>0, <2>2 DEF HeldReceipt
    <2>4. v \in Channels /\ v.receipt = h
      BY <1>0, <2>2, <2>3 DEF Channels
    <2>5. Backed(h)
      BY <1>0, <2>3 DEF Backed, GatewayHas
    <2>6. GatewayGrows /\ ReceiptsEarned'
      BY <2>1, SameGatewayGrows DEF DataInv
    <2>7. Backed(v.receipt)'
      BY <2>1, <2>4, <2>5 DEF Backed, GatewayHas, SomethingExecuted, gatewayVars
    <2> QED BY <2>1, <2>4, <2>6, <2>7, WorkKeepsData
  <1>2. CASE FinalizeReport(r)
    <2> DEFINE v == [vals[r] EXCEPT !.report = TRUE]
    <2>1. Work(r, "finalize_report", v, End) /\ UNCHANGED gatewayVars
          /\ status' = ReportStatus(vals[r].receipt)
      BY <1>2 DEF FinalizeReport
    <2>2. v \in Channels /\ v.receipt = vals[r].receipt
      BY <1>0 DEF Channels
    <2>3. status' = "recovered" => SomethingExecuted
      BY <1>0, <2>1 DEF ReportStatus, Backed
    <2>4. CASE status' = "recovered" /\ status # "recovered"
      <3>1. AllBacked'
        <4>1. saved' = saved /\ vals' = [vals EXCEPT ![r] = v]
          BY <2>1 DEF Work
        <4>2. \A q \in Requests : vals'[q].receipt = vals[q].receipt
          BY <2>2, <4>1 DEF WInv, TypeOK
        <4> QED BY <2>1, <4>1, <4>2 DEF DataInv, AllBacked, Backed, GatewayHas, SomethingExecuted, gatewayVars
      <3>2. ReceiptsEarned'
        BY <2>1, SameGatewayGrows DEF DataInv
      <3>3. RecoveredWasRolledBack'
        BY <2>1, <2>3, <2>4 DEF RecoveredWasRolledBack, SomethingExecuted, gatewayVars
      <3> QED BY <3>1, <3>2, <3>3 DEF DataInv
    <2>5. CASE ~(status' = "recovered" /\ status # "recovered")
      BY <2>1, <2>2, <2>5, PlainWorkKeeps
    <2> QED BY <2>4, <2>5
  <1> QED BY <1>1, <1>2

(* A rollback its caller has given up: the threads hear nothing of it.     *)
LEMMA LateWork ==
    ASSUME WInv, DataInv, NEW x \in late, LateRollback(x[1], x[2])
    PROVE  DataInv'
  <1>1. x[1] \in Plan /\ x[2] \in Reviewers \cup {System}
    BY DEF WInv, TypeOK
  <1>2. GatewayGrows /\ ReceiptsEarned'
    BY <1>1, RollbackEarns DEF LateRollback, DataInv
  <1>3. UNCHANGED <<vals, saved, status>>
    BY DEF LateRollback, graphVars, apiVars
  <1>4. /\ saved.vals.receipt \in HeldReceipt \cup {None}
        /\ \A q \in Requests : vals[q].receipt \in HeldReceipt \cup {None}
    BY ChannelFields, CheckpointFields DEF WInv, TypeOK
  <1>5. \A h \in HeldReceipt \cup {None} : Backed(h) => Backed(h)'
    BY <1>2, BackedStays
  <1>6. AllBacked'
    BY <1>3, <1>4, <1>5 DEF DataInv, AllBacked, Backed, GatewayHas, SomethingExecuted
  <1>7. RecoveredWasRolledBack'
    BY <1>2, <1>3 DEF DataInv, RecoveredWasRolledBack, GatewayGrows
  <1> QED BY <1>2, <1>6, <1>7 DEF DataInv

(* A gateway that forgets its receipts has still executed them.            *)
LEMMA ForgettingKeeps ==
    ASSUME DataInv, GatewayRestarts
    PROVE  DataInv'
  BY DEF GatewayRestarts, DataInv, AllBacked, Backed, SomethingExecuted, ReceiptsEarned,
         RecoveredWasRolledBack, graphVars, apiVars

LEMMA StepData == WInv /\ DataInv /\ [Next]_vars => DataInv'
  <1> SUFFICES ASSUME WInv, DataInv, [Next]_vars PROVE DataInv'
    OBVIOUS
  <1>1. ASSUME NEW r \in Requests, NEW c \in {RunCall} \cup ResumeCalls, Accept(r, c) PROVE DataInv'
    BY <1>1, CallMoves, MovesKeep
  <1>2. ASSUME NEW r \in Requests, Conflict(r) \/ LockReplyLost(r) PROVE DataInv'
    BY <1>2, CallMoves, MovesKeep
  <1>3. ASSUME NEW r \in Requests, CallFails(r) \/ RollbackTimesOut(r) PROVE DataInv'
    BY <1>3, OtherMoves, MovesKeep
  <1>4. ASSUME NEW r \in Requests, Node(r) PROVE DataInv'
    BY <1>4, AnalysisWork, RollbackWork, ClosingWork, CallMoves, MovesKeep DEF Node
  <1>5. ASSUME NEW r \in Requests, Progress(r) PROVE DataInv'
    BY <1>4, <1>5, CallMoves, OtherMoves, MovesKeep DEF Progress
  <1>6. ASSUME NEW x \in late, LateRollback(x[1], x[2]) PROVE DataInv'
    BY <1>6, LateWork
  <1>7. CASE LockExpires \/ OrchestratorRestarts \/ UNCHANGED vars
    BY <1>7, OtherMoves, MovesKeep
  <1>8. CASE GatewayRestarts
    BY <1>8, ForgettingKeeps
  <1>9. ASSUME NEW ok \in BOOLEAN, NEW reviewer \in Reviewers, DirectReview(ok, reviewer)
        PROVE  DataInv'
    BY <1>9, OtherMoves, MovesKeep
  <1> QED BY <1>1, <1>2, <1>3, <1>5, <1>6, <1>7, <1>8, <1>9 DEF Next

LEMMA DataAlways == Spec => []DataInv
  BY InitData, StepData, WorkflowInv, PTL DEF Spec

(* incident-api says recovered only of an incident for which a rollback    *)
(* was executed, whatever the reasoner, the stores, the lock and the       *)
(* failures (verify_recovery, finalize_report, SaveReport).                *)
THEOREM RecoveredIsEarned == Spec => []RecoveredWasRolledBack
  <1>1. DataInv => RecoveredWasRolledBack
    BY DEF DataInv
  <1> QED BY <1>1, DataAlways, PTL

(* While the gateway's store survives its restarts, the receipt of every   *)
(* checkpoint and every running call is the gateway's own: replays, late   *)
(* rollbacks and re-executed nodes never make the copies differ.           *)
THEOREM ReceiptsAlwaysAgree == ASSUME KeepsReceipts PROVE Spec => []ReceiptsAgree
  <1>1. DataInv => ReceiptsAgree
    BY DEF DataInv, AllBacked, Backed, GatewayHas, ReceiptsAgree, HoldsGatewayReceipt
  <1> QED BY <1>1, DataAlways, PTL

---------------------------------------------------------------------------
(* WaitingCanResume without its condition on the lock.                     *)
Resumable == status = "waiting_for_approval" => saved.next \notin {End, "unstarted"}

(* What holds of a call at work: it is inside the lock, its thread is      *)
(* unfinished, at the node the thread is at, and with the report done the  *)
(* incident no longer waits.                                               *)
CallOK(r) ==
    /\ phase[r] # "idle" => r \in held
    /\ phase[r] \in {"node", "commit"} => saved.next \notin {End, "unstarted"}
    /\ phase[r] = "node" => next[r] = saved.next
    /\ phase[r] = "commit" /\ next[r] = End => status # "waiting_for_approval"

ThreadInv ==
    /\ \A r \in Requests : CallOK(r)
    /\ KeepsCheckpoints => Resumable

Alone(r) == \A q \in Requests : q # r => phase[q] = "idle"

(* The lock: whoever works is alone, and whoever is let in finds nobody.   *)
LEMMA WorkersAreAlone ==
    ASSUME UseRedis, LockInv, ThreadInv, NEW r \in Requests, phase[r] # "idle"
    PROVE  Alone(r)
  BY DEF LockInv, ThreadInv, CallOK, Alone

LEMMA NewcomersAreAlone ==
    ASSUME UseRedis, LockInv, ThreadInv, NEW r \in Requests, Acquire(r)
    PROVE  Alone(r)
  BY NoOwnerAssumption DEF LockInv, LockTypeOK, ThreadInv, CallOK, Alone, Acquire

(* It is enough to look at the one call that works.                        *)
LEMMA OneCallKeeps ==
    ASSUME NEW r \in Requests, Alone(r)', CallOK(r)', KeepsCheckpoints => Resumable'
    PROVE  ThreadInv'
  BY DEF Alone, CallOK, ThreadInv

LEMMA InitThread == Init => ThreadInv
  BY DEF Init, ThreadInv, CallOK, Resumable

---------------------------------------------------------------------------
(* A node's work: the thread stays where its checkpoint is.                *)
LEMMA WorkKeepsThread ==
    ASSUME UseRedis, WInv, LockInv, ThreadInv,
           NEW r \in Requests, NEW n, NEW v, NEW m, Work(r, n, v, m),
           m = End => status' # "waiting_for_approval"
    PROVE  ThreadInv'
  <1>1. Alone(r)'
    BY WorkersAreAlone DEF Work, Alone, WInv, TypeOK
  <1>2. saved' = saved /\ saved.next \notin {End, "unstarted"} /\ phase'[r] = "commit" /\ next'[r] = m
        /\ r \in held'
    BY DEF Work, ThreadInv, CallOK, WInv, TypeOK, lockVars
  <1>3. CallOK(r)' /\ Resumable'
    BY <1>2 DEF CallOK, Resumable
  <1> QED BY <1>1, <1>3, OneCallKeeps

LEMMA NodeKeepsThread ==
    ASSUME UseRedis, WInv, LockInv, ThreadInv, NEW r \in Requests, Node(r)
    PROVE  ThreadInv'
  <1> USE DEF End
  <1>1. CASE LoadIncident(r) \/ Triage(r) \/ GatherEvidence(r) \/ RollbackAction(r) \/ VerifyRecovery(r)
    BY <1>1, WorkKeepsThread DEF LoadIncident, Triage, GatherEvidence, RollbackAction, VerifyRecovery
  <1>2. CASE PlannerAgent(r)
    BY <1>2, WorkKeepsThread DEF PlannerAgent
  <1>3. CASE CriticAgent(r)
    BY <1>3, WorkKeepsThread DEF CriticAgent, RouteAfterCritic
  <1>4. CASE PolicyAgent(r)
    BY <1>4, WorkKeepsThread DEF PolicyAgent, RouteAfterPolicy
  <1>5. CASE ApprovalGate(r)
    BY <1>5, WorkKeepsThread DEF ApprovalGate, RouteAfterApproval
  <1>6. CASE FinalizeReport(r)
    BY <1>6, WorkKeepsThread DEF FinalizeReport, ReportStatus
  <1>7. CASE Interrupt(r)
    <2>1. Alone(r)' /\ phase'[r] = "respond" /\ r \in held'
      BY <1>7, WorkersAreAlone DEF Interrupt, Alone, ThreadInv, CallOK, WInv, TypeOK, lockVars
    <2>2. saved'.next = saved.next /\ status' = status
      BY <1>7, CheckpointFields DEF Interrupt, WInv, TypeOK, apiVars
    <2>3. CallOK(r)'
      BY <2>1 DEF CallOK
    <2>4. KeepsCheckpoints => Resumable'
      BY <2>2 DEF ThreadInv, Resumable
    <2> QED BY <2>1, <2>3, <2>4, OneCallKeeps
  <1> QED BY <1>1, <1>2, <1>3, <1>4, <1>5, <1>6, <1>7 DEF Node

---------------------------------------------------------------------------
(* The other steps of a call.                                              *)
LEMMA AcceptKeepsThread ==
    ASSUME UseRedis, WInv, LockInv, ThreadInv,
           NEW r \in Requests, NEW c \in {RunCall} \cup ResumeCalls, Accept(r, c)
    PROVE  ThreadInv'
  <1>1. Alone(r)'
    BY NewcomersAreAlone DEF Accept, Alone, WInv, TypeOK
  <1>2. phase'[r] = "locked" /\ r \in held'
    BY DEF Accept, Acquire, WInv, TypeOK
  <1>3. CallOK(r)'
    BY <1>2 DEF CallOK
  <1>4. KeepsCheckpoints => Resumable'
    BY DEF ThreadInv, Resumable, Accept, apiVars
  <1> QED BY <1>1, <1>3, <1>4, OneCallKeeps

LEMMA InvokeKeepsThread ==
    ASSUME UseRedis, WInv, LockInv, ThreadInv, NEW r \in Requests,
           ReviewRecorded(r) \/ InvokeRun(r) \/ InvokeResume(r) \/ Commit(r)
    PROVE  ThreadInv'
  <1>0. r \in held /\ Alone(r)
    BY WorkersAreAlone DEF ThreadInv, CallOK, ReviewRecorded, InvokeRun, InvokeResume, Commit
  <1>1. Alone(r)' /\ r \in held'
    BY <1>0 DEF Alone, WInv, TypeOK, ReviewRecorded, InvokeRun, InvokeResume, Commit, lockVars
  <1>2. CASE ReviewRecorded(r)
    <2>1. phase'[r] = "reviewed" /\ saved' = saved /\ status' # "waiting_for_approval"
      BY <1>2 DEF ReviewRecorded, Reviewed, ReviewStatus, WInv, TypeOK
    <2> QED BY <1>1, <2>1, OneCallKeeps DEF CallOK, Resumable
  <1>3. CASE InvokeRun(r)
    <2>1. phase'[r] = "node" /\ next'[r] = "load_incident" /\ saved'.next = "load_incident"
      BY <1>3 DEF InvokeRun, WInv, TypeOK
    <2> QED BY <1>1, <2>1, OneCallKeeps DEF CallOK, Resumable, End
  <1>4. CASE InvokeResume(r)
    <2>1. /\ phase'[r] = (IF saved.next = End THEN "respond" ELSE "node")
          /\ next'[r] = saved.next /\ saved' = saved /\ status' = status /\ saved.next # "unstarted"
      BY <1>4 DEF InvokeResume, WInv, TypeOK, apiVars
    <2> QED BY <1>1, <2>1, OneCallKeeps DEF ThreadInv, CallOK, Resumable
  <1>5. CASE Commit(r)
    <2>1. /\ phase'[r] = (IF next[r] = End THEN "respond" ELSE "node") /\ next'[r] = next[r]
          /\ saved'.next = next[r] /\ next[r] \in Nodes \cup {End} /\ status' = status
      BY <1>5 DEF Commit, WInv, TypeOK, apiVars
    <2>2. next[r] # "unstarted"
      BY <2>1 DEF Nodes, End
    <2>3. CallOK(r)'
      BY <1>1, <2>1, <2>2 DEF CallOK
    <2>4. Resumable'
      BY <1>5, <2>1, <2>2 DEF ThreadInv, CallOK, Commit, Resumable
    <2> QED BY <1>1, <2>3, <2>4, OneCallKeeps
  <1> QED BY <1>2, <1>3, <1>4, <1>5

LEMMA EndKeepsThread ==
    ASSUME UseRedis, WInv, LockInv, ThreadInv, NEW r \in Requests,
           ResumeUnstarted(r) \/ Respond(r) \/ CallFails(r) \/ RollbackTimesOut(r)
    PROVE  ThreadInv'
  <1>1. PICK s : Answer(r, s) /\ saved' = saved /\ status' = status
    BY DEF ResumeUnstarted, Respond, CallFails, RollbackTimesOut, apiVars
  <1>2. Alone(r)
    BY WorkersAreAlone DEF ResumeUnstarted, Respond, CallFails, RollbackTimesOut
  <1>3. Alone(r)' /\ phase'[r] = "idle"
    BY <1>1, <1>2 DEF Answer, Alone, WInv, TypeOK
  <1>4. CallOK(r)'
    BY <1>3 DEF CallOK
  <1> QED BY <1>1, <1>3, <1>4, OneCallKeeps DEF ThreadInv, Resumable

(* The steps of nobody's call.                                             *)
LEMMA OthersKeepThread ==
    ASSUME WInv, ThreadInv,
           \/ \E r \in Requests : Conflict(r) \/ LockReplyLost(r)
           \/ \E x \in late : LateRollback(x[1], x[2])
           \/ LockExpires \/ OrchestratorRestarts \/ GatewayRestarts
           \/ \E ok \in BOOLEAN, reviewer \in Reviewers : DirectReview(ok, reviewer)
           \/ UNCHANGED vars
    PROVE  ThreadInv'
  <1>1. CASE OrchestratorRestarts
    <2>1. (\A q \in Requests : phase'[q] = "idle") /\ status' = status /\ (KeepsCheckpoints => saved' = saved)
      BY <1>1 DEF OrchestratorRestarts, apiVars
    <2> QED BY <2>1 DEF ThreadInv, CallOK, Resumable
  <1>2. ASSUME NEW ok \in BOOLEAN, NEW reviewer \in Reviewers, DirectReview(ok, reviewer)
        PROVE  ThreadInv'
    BY <1>2 DEF DirectReview, Reviewed, ReviewStatus, ThreadInv, CallOK, Resumable, lockVars, graphVars
  <1>3. ASSUME NEW r \in Requests, Conflict(r) \/ LockReplyLost(r) PROVE ThreadInv'
    BY <1>3 DEF Conflict, Refused, LockReplyLost, AcquireReplyLost, ThreadInv, CallOK, Resumable,
                lockVars, graphVars, apiVars
  <1>4. ASSUME NEW x \in late, LateRollback(x[1], x[2]) PROVE ThreadInv'
    BY <1>4 DEF LateRollback, ThreadInv, CallOK, Resumable, lockVars, graphVars, apiVars
  <1>5. CASE LockExpires \/ GatewayRestarts \/ UNCHANGED vars
    BY <1>5 DEF LockExpires, Expire, GatewayRestarts, vars, ThreadInv, CallOK, Resumable,
                lockVars, graphVars, apiVars
  <1> QED BY <1>1, <1>2, <1>3, <1>4, <1>5

LEMMA StepThread ==
    ASSUME UseRedis
    PROVE  WInv /\ LockInv /\ ThreadInv /\ [Next]_vars => ThreadInv'
  <1> SUFFICES ASSUME WInv, LockInv, ThreadInv, [Next]_vars PROVE ThreadInv'
    OBVIOUS
  <1>1. ASSUME NEW r \in Requests, NEW c \in {RunCall} \cup ResumeCalls, Accept(r, c) PROVE ThreadInv'
    BY <1>1, AcceptKeepsThread
  <1>2. ASSUME NEW r \in Requests, Progress(r) \/ CallFails(r) \/ RollbackTimesOut(r) PROVE ThreadInv'
    BY <1>2, InvokeKeepsThread, NodeKeepsThread, EndKeepsThread DEF Progress
  <1>3. ASSUME ~(\E r \in Requests : Progress(r) \/ CallFails(r) \/ RollbackTimesOut(r)),
               ~(\E r \in Requests, c \in {RunCall} \cup ResumeCalls : Accept(r, c))
        PROVE  ThreadInv'
    BY <1>3, OthersKeepThread DEF Next
  <1> QED BY <1>1, <1>2, <1>3

LEMMA WorkflowLockInv == Spec => [](NoOverrun => LockInv)
  BY WorkflowUsesLock, LockInvAlways, PTL

(* A run that has outlived its key has done so for good.                   *)
LEMMA WorkflowOverranStays == WInv /\ [Next]_vars /\ NoOverrun' => NoOverrun
  BY LockSteps, OverranStays DEF WInv, TypeOK

LEMMA ThreadAlways == ASSUME UseRedis PROVE Spec => [](NoOverrun => ThreadInv)
  <1>1. (/\ WInv /\ [Next]_vars
         /\ NoOverrun => LockInv
         /\ NoOverrun => ThreadInv)
           => (NoOverrun => ThreadInv)'
    BY StepThread, WorkflowOverranStays
  <1> QED BY <1>1, InitThread, WorkflowInv, WorkflowLockInv, PTL DEF Spec

(* With the run lock and durable checkpoints, an incident that says it     *)
(* waits for approval always has a thread that resume can continue: no     *)
(* crash between SaveAnalysis and the checkpoint loses it (planner_agent,  *)
(* approval_gate, resume_incident).                                        *)
THEOREM WaitingIncidentsCanResume ==
    ASSUME UseRedis, KeepsCheckpoints
    PROVE  Spec => []WaitingCanResume
  <1>1. (NoOverrun => ThreadInv) => WaitingCanResume
    BY DEF ThreadInv, Resumable, WaitingCanResume
  <1> QED BY <1>1, ThreadAlways, PTL

---------------------------------------------------------------------------
(* A thread on its way from a plan to the gate: incident-api waits, or has *)
(* a person's answer.                                                      *)
PersonStatus == {"waiting_for_approval", "approved", "rejected"}
Visible(v, n) ==
    n \in {"critic_agent", "policy_agent", "approval_gate"} /\ v.action # None
        => status \in PersonStatus

VisibleInv ==
    /\ Visible(saved.vals, saved.next)
    /\ \A r \in Requests : phase[r] \in {"node", "commit"} => Visible(vals[r], next[r])
    /\ saved.paused => saved.next = "approval_gate"

LEMMA InitVisible == Init => VisibleInv
  BY DEF Init, VisibleInv, Visible, Unstarted

LEMMA VisibleStays ==
    ASSUME NEW v, NEW n, Visible(v, n), status' = status \/ status' \in PersonStatus
    PROVE  Visible(v, n)'
  BY DEF Visible

LEMMA OneCallStaysVisible ==
    ASSUME NEW r \in Requests, Alone(r)',
           phase'[r] \in {"node", "commit"} => Visible(vals[r], next[r])',
           Visible(saved.vals, saved.next)', saved'.paused => saved'.next = "approval_gate"
    PROVE  VisibleInv'
  BY DEF Alone, VisibleInv

(* The status may change to one that is no person's only where the         *)
(* checkpoint is not on that way.                                          *)
LEMMA WorkStaysVisible ==
    ASSUME UseRedis, WInv, LockInv, ThreadInv, VisibleInv,
           NEW r \in Requests, NEW n, NEW v, NEW m, Work(r, n, v, m),
           \/ status' = status \/ status' \in PersonStatus
           \/ n \in {"planner_agent", "finalize_report"},
           m \in {"critic_agent", "policy_agent", "approval_gate"} /\ v.action # None
               => status' \in PersonStatus
    PROVE  VisibleInv'
  <1>1. Alone(r)'
    BY WorkersAreAlone DEF Work, Alone, WInv, TypeOK
  <1>2. saved' = saved /\ saved.next = n /\ vals'[r] = v /\ next'[r] = m
    BY DEF Work, ThreadInv, CallOK, WInv, TypeOK
  <1>3. Visible(vals[r], next[r])'
    BY <1>2 DEF Visible
  <1>4. Visible(saved.vals, saved.next)'
    BY <1>2 DEF VisibleInv, Visible
  <1> QED BY <1>1, <1>2, <1>3, <1>4, OneCallStaysVisible DEF VisibleInv

LEMMA NodeStaysVisible ==
    ASSUME Rules, UseRedis, WInv, ApprovalInv, LockInv, ThreadInv, VisibleInv,
           NEW r \in Requests, Node(r)
    PROVE  VisibleInv'
  <1>0. vals[r] \in Channels /\ vals[r].action \in {None, Diagnosis}
    BY DEF WInv, TypeOK, ApprovalInv, AllCleared, Cleared
  <1>a. phase[r] = "node" /\ next[r] \in {"critic_agent", "policy_agent"} /\ vals[r].action # None
            => status \in PersonStatus
    BY DEF VisibleInv, Visible
  <1>1. CASE LoadIncident(r) \/ Triage(r) \/ GatherEvidence(r) \/ RollbackAction(r) \/ VerifyRecovery(r)
    BY <1>1, WorkStaysVisible DEF LoadIncident, Triage, GatherEvidence, RollbackAction, VerifyRecovery, apiVars
  <1>2. CASE PlannerAgent(r)
    <2>1. PICK answer \in PlannerAnswers :
              /\ Work(r, "planner_agent", [vals[r] EXCEPT !.action = WithGuardrail(answer)],
                      "critic_agent")
              /\ status' = AnalysisStatus(WithGuardrail(answer))
      BY <1>2 DEF PlannerAgent
    <2> DEFINE a == WithGuardrail(answer)
               v == [vals[r] EXCEPT !.action = a]
    <2>2. a \in {None, Diagnosis}
      BY DEF PlannerAnswers, WithGuardrail
    <2>3. v.action = a
      BY <1>0, <2>2, SetAction, PlanAssumption
    <2>4. v.action # None => status' \in PersonStatus
      BY <2>1, <2>2, <2>3, PlanAssumption DEF AnalysisStatus, PersonStatus
    <2> QED BY <2>1, <2>4, WorkStaysVisible
  <1>3. CASE CriticAgent(r)
    <2>1. PICK verdict \in CriticAnswers(vals[r].action), count \in {vals[r].replans, vals[r].replans + 1} :
              Work(r, "critic_agent", [vals[r] EXCEPT !.replans = count], RouteAfterCritic(verdict, count))
      BY <1>3 DEF CriticAgent
    <2> DEFINE v == [vals[r] EXCEPT !.replans = count]
    <2>2. v.action = vals[r].action
      BY <1>0 DEF Channels
    <2>3. status' = status /\ (v.action # None => status \in PersonStatus)
      BY <1>3, <1>a, <2>1, <2>2 DEF CriticAgent, apiVars, Work
    <2> QED BY <2>1, <2>3, WorkStaysVisible
  <1>4. CASE PolicyAgent(r)
    <2>1. PICK decision \in PolicyAnswers(vals[r].action) :
              Work(r, "policy_agent", vals[r], RouteAfterPolicy(vals[r].action, decision))
      BY <1>4 DEF PolicyAgent
    <2>2. status' = status /\ (vals[r].action # None => status \in PersonStatus)
      BY <1>4, <1>a, <2>1 DEF PolicyAgent, apiVars, Work
    <2> QED BY <2>1, <2>2, WorkStaysVisible
  <1>5. CASE ApprovalGate(r)
    <2>1. PICK answer, v : Work(r, "approval_gate", v, RouteAfterApproval(answer))
      BY <1>5 DEF ApprovalGate
    <2> QED BY <1>5, <2>1, WorkStaysVisible DEF ApprovalGate, apiVars, RouteAfterApproval
  <1>6. CASE FinalizeReport(r)
    BY <1>6, WorkStaysVisible DEF FinalizeReport, End
  <1>7. CASE Interrupt(r)
    <2>1. Alone(r)' /\ phase'[r] = "respond" /\ status' = status
      BY <1>7, WorkersAreAlone DEF Interrupt, Alone, WInv, TypeOK, apiVars
    <2>2. saved'.vals = saved.vals /\ saved'.next = saved.next /\ saved.next = "approval_gate"
      BY <1>7, CheckpointFields DEF Interrupt, ThreadInv, CallOK, WInv, TypeOK
    <2>3. Visible(saved.vals, saved.next)'
      BY <2>1, <2>2 DEF VisibleInv, Visible
    <2> QED BY <2>1, <2>2, <2>3, OneCallStaysVisible
  <1> QED BY <1>1, <1>2, <1>3, <1>4, <1>5, <1>6, <1>7 DEF Node

LEMMA CallStaysVisible ==
    ASSUME UseRedis, WInv, LockInv, ThreadInv, VisibleInv, NEW r \in Requests,
           ReviewRecorded(r) \/ InvokeRun(r) \/ InvokeResume(r) \/ Commit(r)
    PROVE  VisibleInv'
  <1>1. Alone(r)'
    BY WorkersAreAlone
    DEF Alone, WInv, TypeOK, ReviewRecorded, InvokeRun, InvokeResume, Commit
  <1>2. CASE ReviewRecorded(r)
    <2>1. phase'[r] = "reviewed" /\ saved' = saved /\ status' \in PersonStatus
      BY <1>2 DEF ReviewRecorded, Reviewed, ReviewStatus, PersonStatus, WInv, TypeOK
    <2> QED BY <1>1, <2>1, OneCallStaysVisible DEF VisibleInv, Visible
  <1>3. CASE InvokeRun(r)
    <2>1. next'[r] = "load_incident" /\ saved'.next = "load_incident" /\ ~saved'.paused
      BY <1>3 DEF InvokeRun, WInv, TypeOK
    <2> QED BY <1>1, <2>1, OneCallStaysVisible DEF Visible
  <1>4. CASE InvokeResume(r)
    <2>1. vals'[r] = saved.vals /\ next'[r] = saved.next /\ saved' = saved /\ status' = status
      BY <1>4 DEF InvokeResume, WInv, TypeOK, apiVars
    <2> QED BY <1>1, <2>1, OneCallStaysVisible DEF VisibleInv, Visible
  <1>5. CASE Commit(r)
    <2>1. /\ saved'.vals = vals[r] /\ saved'.next = next[r] /\ ~saved'.paused /\ phase[r] = "commit"
          /\ vals' = vals /\ next' = next /\ status' = status
      BY <1>5 DEF Commit, apiVars
    <2>2. Visible(saved.vals, saved.next)' /\ Visible(vals[r], next[r])'
      BY <2>1 DEF VisibleInv, Visible
    <2> QED BY <1>1, <2>1, <2>2, OneCallStaysVisible
  <1> QED BY <1>2, <1>3, <1>4, <1>5

LEMMA OthersStayVisible ==
    ASSUME UseRedis, WInv, LockInv, ThreadInv, VisibleInv,
           \/ \E r \in Requests :
                 \/ \E c \in {RunCall} \cup ResumeCalls : Accept(r, c)
                 \/ ResumeUnstarted(r) \/ Respond(r) \/ CallFails(r) \/ RollbackTimesOut(r)
                 \/ Conflict(r) \/ LockReplyLost(r)
           \/ \E x \in late : LateRollback(x[1], x[2])
           \/ LockExpires \/ OrchestratorRestarts \/ GatewayRestarts
           \/ \E ok \in BOOLEAN, reviewer \in Reviewers : DirectReview(ok, reviewer)
           \/ UNCHANGED vars
    PROVE  VisibleInv'
  <1>1. CASE OrchestratorRestarts
    <2>1. (\A q \in Requests : phase'[q] = "idle") /\ status' = status /\ saved' \in {saved, Unstarted}
      BY <1>1 DEF OrchestratorRestarts, apiVars
    <2> QED BY <2>1 DEF VisibleInv, Visible, Unstarted
  <1>2. ASSUME NEW ok \in BOOLEAN, NEW reviewer \in Reviewers, DirectReview(ok, reviewer)
        PROVE  VisibleInv'
    <2>1. status' \in PersonStatus /\ UNCHANGED graphVars
      BY <1>2 DEF DirectReview, Reviewed, ReviewStatus, PersonStatus
    <2> QED BY <2>1 DEF VisibleInv, Visible, graphVars
  <1>3. ASSUME NEW r \in Requests, Conflict(r) \/ LockReplyLost(r) PROVE VisibleInv'
    BY <1>3 DEF Conflict, LockReplyLost, VisibleInv, Visible, graphVars, apiVars
  <1>4. ASSUME NEW r \in Requests, NEW c \in {RunCall} \cup ResumeCalls, Accept(r, c) PROVE VisibleInv'
    BY <1>4 DEF Accept, VisibleInv, Visible, WInv, TypeOK, apiVars
  <1>5. ASSUME NEW r \in Requests,
               ResumeUnstarted(r) \/ Respond(r) \/ CallFails(r) \/ RollbackTimesOut(r)
        PROVE  VisibleInv'
    <2>1. PICK s : Answer(r, s) /\ saved' = saved /\ status' = status
      BY <1>5 DEF ResumeUnstarted, Respond, CallFails, RollbackTimesOut, apiVars
    <2>2. Alone(r)
      BY <1>5, WorkersAreAlone DEF ResumeUnstarted, Respond, CallFails, RollbackTimesOut
    <2>3. Alone(r)' /\ phase'[r] = "idle"
      BY <2>1, <2>2 DEF Answer, Alone, WInv, TypeOK
    <2> QED BY <2>1, <2>3, OneCallStaysVisible DEF VisibleInv, Visible
  <1>6. ASSUME NEW x \in late, LateRollback(x[1], x[2]) PROVE VisibleInv'
    BY <1>6 DEF LateRollback, VisibleInv, Visible, graphVars, apiVars
  <1>7. CASE LockExpires \/ GatewayRestarts \/ UNCHANGED vars
    BY <1>7 DEF LockExpires, GatewayRestarts, vars, VisibleInv, Visible, graphVars, apiVars
  <1> QED BY <1>1, <1>2, <1>3, <1>4, <1>5, <1>6, <1>7

LEMMA StepVisible ==
    ASSUME Rules, UseRedis
    PROVE  WInv /\ ApprovalInv /\ LockInv /\ ThreadInv /\ VisibleInv /\ [Next]_vars => VisibleInv'
  <1> SUFFICES ASSUME WInv, ApprovalInv, LockInv, ThreadInv, VisibleInv, [Next]_vars
               PROVE  VisibleInv'
    OBVIOUS
  <1>1. ASSUME NEW r \in Requests, Node(r) PROVE VisibleInv'
    BY <1>1, NodeStaysVisible
  <1>2. ASSUME NEW r \in Requests,
               ReviewRecorded(r) \/ InvokeRun(r) \/ InvokeResume(r) \/ Commit(r)
        PROVE  VisibleInv'
    BY <1>2, CallStaysVisible
  <1>3. ASSUME ~(\E r \in Requests : \/ Node(r) \/ ReviewRecorded(r) \/ InvokeRun(r)
                                     \/ InvokeResume(r) \/ Commit(r))
        PROVE  VisibleInv'
    BY <1>3, OthersStayVisible DEF Next, Progress
  <1> QED BY <1>1, <1>2, <1>3

(* With the rules reasoner and the run lock, a thread that waits for a     *)
(* person never waits unseen: whatever fails, the incident says            *)
(* waiting_for_approval or what a person answered (planner_agent,          *)
(* approval_gate, SaveAnalysis).                                           *)
THEOREM PausedThreadsAreVisible ==
    ASSUME Rules, UseRedis
    PROVE  Spec => []PausedIsVisible
  <1>1. (/\ WInv /\ ApprovalInv /\ [Next]_vars
         /\ NoOverrun => LockInv /\ ThreadInv /\ VisibleInv)
           => (NoOverrun => VisibleInv)'
    BY StepVisible, WorkflowOverranStays
  <1>2. WInv /\ (NoOverrun => VisibleInv) => PausedIsVisible
    <2> SUFFICES ASSUME WInv, VisibleInv, saved.paused PROVE status \in PersonStatus
      BY DEF PausedIsVisible, PersonStatus
    <2>1. saved.next = "approval_gate" /\ saved.vals.action # None
      BY DEF VisibleInv, WInv, AllReady, PlanReady
    <2> QED BY <2>1 DEF VisibleInv, Visible
  <1> QED
    BY <1>1, <1>2, InitVisible, WorkflowInv, ApprovalAlways, WorkflowLockInv, ThreadAlways, PTL DEF Spec

---------------------------------------------------------------------------
(* Without failures and without reviews behind the orchestrator's back: a  *)
(* thread nobody works on rests at its end or at the gate, a decision      *)
(* stands until it is used, and only an approval leads to the rollback.    *)
Resting == {End, "unstarted", "approval_gate"}

Decides(r) ==
    /\ phase[r] = "reviewed" \/ r \in resuming => approval = ReviewStatus(call[r].approved)
    /\ phase[r] \in {"node", "commit"} /\ next[r] = "rollback_action" => approval = "approved"

DecisionInv ==
    /\ (\A r \in Requests : phase[r] \notin {"node", "commit"}) => saved.next \in Resting
    /\ \A r \in Requests : Decides(r)

LEMMA InitDecision == Init => DecisionInv
  BY DEF Init, DecisionInv, Decides, Resting, Unstarted

(* Idle calls have nothing to decide.                                      *)
LEMMA OneCallDecides ==
    ASSUME NEW r \in Requests, Alone(r)', OnlyResumesDecide', Decides(r)',
           phase'[r] \notin {"node", "commit"} => saved'.next \in Resting
    PROVE  DecisionInv'
  BY DEF Alone, OnlyResumesDecide, Decides, DecisionInv

LEMMA WorkDecides ==
    ASSUME UseRedis, WInv, WInv', LockInv, ThreadInv, DecisionInv, approval' = approval,
           NEW r \in Requests, NEW n, NEW v, NEW m, Work(r, n, v, m),
           m = "rollback_action" => approval = "approved"
    PROVE  DecisionInv'
  <1>1. Alone(r)' /\ phase'[r] = "commit" /\ next'[r] = m /\ UNCHANGED <<call, resuming>>
    BY WorkersAreAlone DEF Work, Alone, WInv, TypeOK
  <1>2. Decides(r)'
    BY <1>1 DEF Decides, DecisionInv
  <1> QED BY <1>1, <1>2, OneCallDecides DEF WInv

LEMMA NodeDecides ==
    ASSUME Rules, UseRedis, WInv, WInv', ApprovalInv, LockInv, ThreadInv, DecisionInv,
           NEW r \in Requests, Node(r)
    PROVE  DecisionInv'
  <1>1. CASE LoadIncident(r) \/ Triage(r) \/ GatherEvidence(r) \/ RollbackAction(r) \/ VerifyRecovery(r)
    BY <1>1, WorkDecides DEF LoadIncident, Triage, GatherEvidence, RollbackAction, VerifyRecovery, apiVars
  <1>2. CASE PlannerAgent(r)
    BY <1>2, WorkDecides DEF PlannerAgent
  <1>3. CASE CriticAgent(r)
    BY <1>3, WorkDecides DEF CriticAgent, RouteAfterCritic, apiVars
  <1>4. CASE PolicyAgent(r)
    <2>1. PICK decision \in PolicyAnswers(vals[r].action) :
              Work(r, "policy_agent", vals[r], RouteAfterPolicy(vals[r].action, decision))
      BY <1>4 DEF PolicyAgent
    <2>2. vals[r].action \in {None, Diagnosis}
      BY DEF ApprovalInv, AllCleared, Cleared
    <2>3. RouteAfterPolicy(vals[r].action, decision) # "rollback_action"
      BY <2>2, RulesNeverAllow
    <2> QED BY <1>4, <2>1, <2>3, WorkDecides DEF PolicyAgent, apiVars
  <1>5. CASE ApprovalGate(r)
    <2>1. PICK v : Work(r, "approval_gate", v,
                        RouteAfterApproval(IF call[r].approved THEN "approved" ELSE "rejected"))
      BY <1>5 DEF ApprovalGate
    <2>2. call[r].approved => approval = "approved"
      BY <1>5 DEF ApprovalGate, DecisionInv, Decides, ReviewStatus
    <2> QED BY <1>5, <2>1, <2>2, WorkDecides DEF ApprovalGate, apiVars, RouteAfterApproval
  <1>6. CASE FinalizeReport(r)
    BY <1>6, WorkDecides DEF FinalizeReport, End
  <1>7. CASE Interrupt(r)
    <2>1. Alone(r)' /\ phase'[r] = "respond" /\ UNCHANGED <<call, resuming, approval>>
      BY <1>7, WorkersAreAlone DEF Interrupt, Alone, WInv, TypeOK, apiVars
    <2>2. saved'.next \in Resting
      BY <1>7, CheckpointFields DEF Interrupt, ThreadInv, CallOK, WInv, TypeOK, Resting
    <2>3. Decides(r)'
      BY <2>1 DEF Decides, DecisionInv
    <2> QED BY <2>1, <2>2, <2>3, OneCallDecides DEF WInv
  <1> QED BY <1>1, <1>2, <1>3, <1>4, <1>5, <1>6, <1>7 DEF Node

LEMMA CallDecides ==
    ASSUME UseRedis, WInv, WInv', LockInv, ThreadInv, DecisionInv, NEW r \in Requests,
           ReviewRecorded(r) \/ InvokeRun(r) \/ InvokeResume(r) \/ Commit(r)
           \/ ResumeUnstarted(r) \/ Respond(r)
    PROVE  DecisionInv'
  <1>0. Alone(r)
    BY WorkersAreAlone
    DEF ReviewRecorded, InvokeRun, InvokeResume, Commit, ResumeUnstarted, Respond
  <1>1. Alone(r)'
    BY <1>0 DEF Alone, WInv, TypeOK, Answer, ReviewRecorded, InvokeRun, InvokeResume, Commit,
                ResumeUnstarted, Respond
  <1>2. phase[r] \notin {"node", "commit"} => saved.next \in Resting
    BY <1>0 DEF Alone, DecisionInv
  <1>3. CASE ReviewRecorded(r)
    <2>1. /\ phase[r] = "locked" /\ phase'[r] = "reviewed" /\ saved' = saved /\ call' = call
          /\ approval' = ReviewStatus(call[r].approved)
      BY <1>3 DEF ReviewRecorded, Reviewed, WInv, TypeOK
    <2> QED BY <1>1, <1>2, <2>1, OneCallDecides DEF WInv, Decides
  <1>4. CASE InvokeRun(r)
    <2>1. /\ phase'[r] = "node" /\ next'[r] = "load_incident"
          /\ r \notin resuming'
      BY <1>4, CallKinds DEF InvokeRun, WInv, TypeOK, OnlyResumesDecide
    <2> QED BY <1>1, <2>1, OneCallDecides DEF WInv, Decides
  <1>5. CASE InvokeResume(r)
    <2>1. /\ phase[r] = "reviewed" /\ next'[r] = saved.next /\ saved' = saved /\ call' = call
          /\ approval' = approval
      BY <1>5 DEF InvokeResume, WInv, TypeOK, apiVars
    <2>2. saved.next \in Resting /\ approval = ReviewStatus(call[r].approved)
      BY <1>2, <2>1 DEF DecisionInv, Decides
    <2> QED BY <1>1, <2>1, <2>2, OneCallDecides DEF WInv, Decides, Resting, End
  <1>6. CASE Commit(r)
    <2>1. /\ phase'[r] = (IF next[r] = End THEN "respond" ELSE "node") /\ phase[r] = "commit"
          /\ saved'.next = next[r] /\ resuming' = resuming \ {r}
          /\ UNCHANGED <<call, next, approval>>
      BY <1>6 DEF Commit, WInv, TypeOK, apiVars
    <2>2. Decides(r)'
      BY <2>1 DEF DecisionInv, Decides
    <2>3. phase'[r] \notin {"node", "commit"} => saved'.next \in Resting
      BY <2>1 DEF Resting
    <2> QED BY <1>1, <2>2, <2>3, OneCallDecides DEF WInv
  <1>7. CASE ResumeUnstarted(r) \/ Respond(r)
    <2>1. PICK s : Answer(r, s) /\ saved' = saved /\ phase[r] \in {"reviewed", "respond"}
      BY <1>7 DEF ResumeUnstarted, Respond
    <2>2. phase'[r] = "idle" /\ r \notin resuming'
      BY <2>1 DEF Answer, WInv, TypeOK
    <2> QED BY <1>1, <1>2, <2>1, <2>2, OneCallDecides DEF WInv, Decides
  <1> QED BY <1>3, <1>4, <1>5, <1>6, <1>7

(* With no failure left to happen.                                         *)
LEMMA OthersDecide ==
    ASSUME UseRedis, ~DirectReviews, MaxFaults = 0, WInv, WInv', LockInv, ThreadInv, DecisionInv,
           \/ \E r \in Requests :
                 \/ \E c \in {RunCall} \cup ResumeCalls : Accept(r, c)
                 \/ CallFails(r) \/ RollbackTimesOut(r) \/ Conflict(r) \/ LockReplyLost(r)
           \/ \E x \in late : LateRollback(x[1], x[2])
           \/ LockExpires \/ OrchestratorRestarts \/ GatewayRestarts
           \/ \E ok \in BOOLEAN, reviewer \in Reviewers : DirectReview(ok, reviewer)
           \/ UNCHANGED vars
    PROVE  DecisionInv'
  <1>1. ~(faults < MaxFaults)
    BY DEF WInv, TypeOK
  <1>2. ASSUME NEW r \in Requests, NEW c \in {RunCall} \cup ResumeCalls, Accept(r, c)
        PROVE  DecisionInv'
    <2>1. Alone(r) /\ phase[r] = "idle"
      BY <1>2, NewcomersAreAlone DEF Accept
    <2>2. /\ Alone(r)' /\ phase'[r] = "locked" /\ saved' = saved /\ resuming' = resuming
      BY <1>2, <2>1 DEF Accept, Alone, WInv, TypeOK
    <2>3. saved.next \in Resting
      BY <2>1 DEF Alone, DecisionInv
    <2>4. Decides(r)'
      BY <2>1, <2>2 DEF Decides, WInv, OnlyResumesDecide
    <2> QED BY <2>2, <2>3, <2>4, OneCallDecides DEF WInv
  <1>3. ASSUME UNCHANGED <<phase, call, next, resuming, saved, approval>> PROVE DecisionInv'
    BY <1>3 DEF DecisionInv, Decides
  <1>4. ASSUME NEW r \in Requests, Conflict(r) PROVE DecisionInv'
    BY <1>3, <1>4 DEF Conflict, graphVars, apiVars
  <1>5. ASSUME NEW x \in late, LateRollback(x[1], x[2]) PROVE DecisionInv'
    BY <1>3, <1>5 DEF LateRollback, graphVars, apiVars
  <1>6. CASE LockExpires \/ UNCHANGED vars
    BY <1>3, <1>6 DEF LockExpires, vars, graphVars, apiVars
  <1> QED
    BY <1>1, <1>2, <1>4, <1>5, <1>6
    DEF CallFails, RollbackTimesOut, LockReplyLost, OrchestratorRestarts, GatewayRestarts, DirectReview

LEMMA StepDecision ==
    ASSUME Rules, UseRedis, ~DirectReviews, MaxFaults = 0
    PROVE  WInv /\ WInv' /\ ApprovalInv /\ LockInv /\ ThreadInv /\ DecisionInv /\ [Next]_vars
               => DecisionInv'
  <1> SUFFICES ASSUME WInv, WInv', ApprovalInv, LockInv, ThreadInv, DecisionInv, [Next]_vars
               PROVE  DecisionInv'
    OBVIOUS
  <1>1. ASSUME NEW r \in Requests, Progress(r) PROVE DecisionInv'
    BY <1>1, NodeDecides, CallDecides DEF Progress
  <1>2. ASSUME ~(\E r \in Requests : Progress(r)) PROVE DecisionInv'
    BY <1>2, OthersDecide DEF Next
  <1> QED BY <1>1, <1>2

(* No key expires under its call when nothing at all goes wrong.           *)
LEMMA FaultlessKeys ==
    ASSUME MaxFaults = 0, WInv, [Next]_vars, NoOverrun
    PROVE  NoOverrun'
  <1>0. faults = 0
    BY DEF WInv, TypeOK
  <1>1. ASSUME NEW r \in Requests, Progress(r) PROVE NoOverrun'
    BY <1>1 DEF Progress, ReviewRecorded, InvokeRun, InvokeResume, ResumeUnstarted, Commit, Respond,
                Release, Leave, Node, LoadIncident, Triage, GatherEvidence, PlannerAgent,
                CriticAgent, PolicyAgent, ApprovalGate, RollbackAction, VerifyRecovery,
                FinalizeReport, Interrupt, Work, lockVars, NoOverrun
  <1>2. ASSUME NEW r \in Requests,
               \/ \E c \in {RunCall} \cup ResumeCalls : Accept(r, c)
               \/ Conflict(r) \/ CallFails(r) \/ RollbackTimesOut(r) \/ LockReplyLost(r)
        PROVE  NoOverrun'
    BY <1>0, <1>2 DEF Accept, Acquire, Conflict, Refused, CallFails, RollbackTimesOut, LockReplyLost,
                      lockVars, NoOverrun
  <1>3. CASE LockExpires \/ OrchestratorRestarts
    BY <1>0, <1>3 DEF LockExpires, Expire, OrchestratorRestarts, ProcessDies, Leave, NoOverrun
  <1>4. CASE \/ \E request \in late : LateRollback(request[1], request[2])
             \/ GatewayRestarts
             \/ \E ok \in BOOLEAN, reviewer \in Reviewers : DirectReview(ok, reviewer)
             \/ UNCHANGED vars
    BY <1>4 DEF LateRollback, GatewayRestarts, DirectReview, vars, lockVars, NoOverrun
  <1> QED BY <1>1, <1>2, <1>3, <1>4 DEF Next

LEMMA NoOverrunWithoutFaults == ASSUME MaxFaults = 0 PROVE Spec => []NoOverrun
  <1>1. Init => NoOverrun
    BY DEF Init, LockInit, NoOverrun
  <1>2. WInv /\ NoOverrun /\ [Next]_vars => NoOverrun'
    BY FaultlessKeys
  <1> QED BY <1>1, <1>2, WorkflowInv, PTL DEF Spec

(* As long as nothing fails and all reviews go through resume, the graph   *)
(* asks for no rollback while the last answer is a rejection: the finding  *)
(* of the failing case needs the failure (approval_gate and its edge).     *)
THEOREM RejectionIsRespected ==
    ASSUME Rules, UseRedis, ~DirectReviews, MaxFaults = 0
    PROVE  Spec => RejectionHolds
  <1>1. (/\ WInv /\ WInv' /\ ApprovalInv /\ [Next]_vars
         /\ NoOverrun
         /\ NoOverrun => LockInv /\ ThreadInv
         /\ DecisionInv)
           => DecisionInv'
    BY StepDecision
  <1>2. DecisionInv =>
          [\A r \in Requests :
              (phase[r] = "node" /\ next[r] = "rollback_action" /\ phase'[r] = "commit")
                 => approval # "rejected"]_vars
    BY DEF DecisionInv, Decides
  <1> QED
    BY <1>1, <1>2, InitDecision, WorkflowInv, ApprovalAlways, WorkflowLockInv, ThreadAlways,
       NoOverrunWithoutFaults, PTL
    DEF Spec, RejectionHolds

---------------------------------------------------------------------------
(* What a run answers.  With a plan it goes to the gate and nowhere else,  *)
(* and from the planner on the incident waits; without one nothing is ever *)
(* decided or executed, and its report says "diagnosed".                   *)
ToGate == {"load_incident", "triage", "evidence", "planner_agent", "critic_agent",
           "policy_agent", "approval_gate"}
Planned == {"critic_agent", "policy_agent", "approval_gate"}

GoesToGate(r) ==
    /\ next[r] \in ToGate
    /\ next[r] \in Planned => status = "waiting_for_approval" /\ vals[r].action # None
    /\ phase[r] = "respond" => next[r] = "approval_gate"

Reports(r) ==
    /\ phase[r] = "commit" /\ next[r] = End => vals[r].report /\ status = "diagnosed"
    /\ phase[r] = "respond" => saved.vals.report /\ status = "diagnosed"

TellsRight(r) ==
    call[r].op = "run" /\ phase[r] \in {"node", "commit", "respond"} =>
        /\ Diagnosis # None => GoesToGate(r)
        /\ Diagnosis = None => Reports(r)

Untouched(v) == v.approval = "" /\ v.receipt = None /\ v.verified # "recovered"

NothingDone ==
    Diagnosis = None =>
        /\ Untouched(saved.vals) /\ \A r \in Requests : Untouched(vals[r])
        /\ late = {} /\ ~ RolledBack

AnswerInv == NothingDone /\ \A r \in Requests : TellsRight(r)

LEMMA InitAnswer == Init => AnswerInv
  <1>1. Untouched(NewThread)
    BY VerdictAssumption DEF Untouched, NewThread, Verdicts
  <1> QED BY <1>1 DEF Init, AnswerInv, NothingDone, TellsRight, RolledBack, Unstarted

(* Without a plan no thread is at the gate or at the rollback.             *)
LEMMA NoPlanNoGate ==
    ASSUME WInv, ApprovalInv, Diagnosis = None
    PROVE  /\ saved.vals.action = None /\ saved.next \notin {"approval_gate", "rollback_action"}
           /\ \A r \in Requests : /\ vals[r].action = None
                                  /\ next[r] \notin {"approval_gate", "rollback_action"}
  <1>1. saved.vals.action = None /\ \A r \in Requests : vals[r].action = None
    BY DEF ApprovalInv, AllCleared, Cleared
  <1> QED BY <1>1 DEF WInv, AllReady, PlanReady

LEMMA OneCallTells ==
    ASSUME NEW r \in Requests, Alone(r)', TellsRight(r)', NothingDone'
    PROVE  AnswerInv'
  BY DEF Alone, TellsRight, AnswerInv

LEMMA WorkTells ==
    ASSUME UseRedis, WInv, LockInv, ThreadInv, AnswerInv,
           NEW r \in Requests, NEW n, NEW v, NEW m, Work(r, n, v, m),
           call[r].op = "run" /\ Diagnosis # None =>
               /\ m \in ToGate
               /\ m \in Planned => status' = "waiting_for_approval" /\ v.action # None,
           Diagnosis = None =>
               /\ m = End => v.report /\ status' = "diagnosed"
               /\ Untouched(v) /\ UNCHANGED <<receipts, late>>
    PROVE  AnswerInv'
  <1>1. Alone(r)' /\ phase'[r] = "commit" /\ next'[r] = m /\ vals'[r] = v
        /\ UNCHANGED <<call, saved>>
    BY WorkersAreAlone DEF Work, Alone, WInv, TypeOK
  <1>2. TellsRight(r)'
    BY <1>1 DEF TellsRight, GoesToGate, Reports
  <1>3. NothingDone'
    BY <1>1 DEF AnswerInv, NothingDone, Untouched, RolledBack, Work, WInv, TypeOK
  <1> QED BY <1>1, <1>2, <1>3, OneCallTells

LEMMA NodeTells ==
    ASSUME Rules, UseRedis, WInv, ApprovalInv, LockInv, ThreadInv, AnswerInv,
           NEW r \in Requests, Node(r)
    PROVE  AnswerInv'
  <1> USE DEF End
  <1>0. /\ vals[r] \in Channels /\ vals[r].action \in {None, Diagnosis}
        /\ Diagnosis = None => Untouched(vals[r]) /\ vals[r].action = None /\ ~ RolledBack
    BY DEF WInv, TypeOK, ApprovalInv, AllCleared, Cleared, AnswerInv, NothingDone
  <1>a. phase[r] = "node" /\ call[r].op = "run" /\ Diagnosis # None =>
            /\ next[r] \in ToGate
            /\ next[r] \in Planned => status = "waiting_for_approval" /\ vals[r].action # None
    BY DEF AnswerInv, TellsRight, GoesToGate
  <1>1. CASE LoadIncident(r)
    <2> DEFINE v == [vals[r] EXCEPT !.replans = 0]
    <2>1. v.approval = vals[r].approval /\ v.receipt = vals[r].receipt /\ v.verified = vals[r].verified
      BY <1>0 DEF Channels
    <2>2. Work(r, "load_incident", v, "triage") /\ UNCHANGED <<receipts, late>>
      BY <1>1 DEF LoadIncident, gatewayVars
    <2> QED BY <1>0, <2>1, <2>2, WorkTells DEF Untouched, ToGate, Planned
  <1>2. CASE Triage(r) \/ GatherEvidence(r)
    BY <1>0, <1>2, WorkTells DEF Triage, GatherEvidence, gatewayVars, ToGate, Planned
  <1>3. CASE PlannerAgent(r)
    <2> DEFINE v == [vals[r] EXCEPT !.action = Diagnosis]
    <2>1. /\ Work(r, "planner_agent", v, "critic_agent")
          /\ status' = AnalysisStatus(Diagnosis) /\ UNCHANGED <<receipts, late>>
      BY <1>3 DEF PlannerAgent, PlannerAnswers, WithGuardrail, gatewayVars
    <2>2. /\ v.action = Diagnosis
          /\ v.approval = vals[r].approval /\ v.receipt = vals[r].receipt /\ v.verified = vals[r].verified
      BY <1>0, PlanAssumption DEF Channels
    <2>3. Diagnosis # None => status' = "waiting_for_approval"
      BY <2>1, PlanAssumption DEF AnalysisStatus
    <2> QED BY <1>0, <2>1, <2>2, <2>3, WorkTells DEF Untouched, ToGate
  <1>4. CASE CriticAgent(r)
    <2>1. PICK verdict \in CriticAnswers(vals[r].action), count \in {vals[r].replans, vals[r].replans + 1} :
              Work(r, "critic_agent", [vals[r] EXCEPT !.replans = count], RouteAfterCritic(verdict, count))
      BY <1>4 DEF CriticAgent
    <2> DEFINE v == [vals[r] EXCEPT !.replans = count]
    <2>2. /\ v.action = vals[r].action
          /\ v.approval = vals[r].approval /\ v.receipt = vals[r].receipt /\ v.verified = vals[r].verified
      BY <1>0 DEF Channels
    <2>3. status' = status /\ UNCHANGED <<receipts, late>> /\ phase[r] = "node" /\ next[r] = "critic_agent"
      BY <1>4, <2>1 DEF CriticAgent, apiVars, gatewayVars, Work
    <2>4. RouteAfterCritic(verdict, count) \in {"planner_agent", "policy_agent"}
      BY DEF RouteAfterCritic
    <2> QED BY <1>0, <1>a, <2>1, <2>2, <2>3, <2>4, WorkTells DEF Untouched, ToGate, Planned
  <1>5. CASE PolicyAgent(r)
    <2>1. PICK decision \in PolicyAnswers(vals[r].action) :
              Work(r, "policy_agent", vals[r], RouteAfterPolicy(vals[r].action, decision))
      BY <1>5 DEF PolicyAgent
    <2>2. status' = status /\ UNCHANGED <<receipts, late>> /\ phase[r] = "node" /\ next[r] = "policy_agent"
      BY <1>5, <2>1 DEF PolicyAgent, apiVars, gatewayVars, Work
    <2>3. vals[r].action # None => RouteAfterPolicy(vals[r].action, decision) = "approval_gate"
      BY <1>0, <2>1, PlanAssumption DEF PolicyAnswers, RulePolicy, RouteAfterPolicy
    <2>4. vals[r].action = None => RouteAfterPolicy(vals[r].action, decision) = "verify_recovery"
      BY DEF RouteAfterPolicy
    <2> QED BY <1>0, <1>a, <2>1, <2>2, <2>3, <2>4, WorkTells DEF ToGate, Planned
  <1>6. CASE ApprovalGate(r)
    <2>1. PICK v, m : Work(r, "approval_gate", v, m)
      BY <1>6 DEF ApprovalGate
    <2>2. call[r].op # "run"
      BY <1>6, CallKinds DEF ApprovalGate, WInv, OnlyResumesDecide
    <2>3. Diagnosis # None
      BY <2>1, NoPlanNoGate DEF Work
    <2> QED BY <2>1, <2>2, <2>3, WorkTells
  <1>7. CASE RollbackAction(r)
    <2>1. PICK v : Work(r, "rollback_action", v, "verify_recovery")
      BY <1>7 DEF RollbackAction
    <2>2. Diagnosis # None
      BY <2>1, NoPlanNoGate DEF Work
    <2>3. call[r].op # "run"
      BY <1>a, <2>1, <2>2 DEF Work, ToGate
    <2> QED BY <2>1, <2>2, <2>3, WorkTells
  <1>8. CASE VerifyRecovery(r)
    <2>1. PICK v : /\ Work(r, "verify_recovery", v, "finalize_report")
                   /\ v = [vals[r] EXCEPT !.verified = Verify,
                                !.receipt = IF vals[r].receipt = None THEN None
                                            ELSE [vals[r].receipt EXCEPT !.verification = Verify]]
      BY <1>8 DEF VerifyRecovery
    <2>2. Diagnosis # None => call[r].op # "run"
      BY <1>a, <2>1 DEF Work, ToGate
    <2>3. Diagnosis = None => Untouched(v)
      <3>1. v.approval = vals[r].approval /\ v.verified = Verify
            /\ (vals[r].receipt = None => v.receipt = None)
        BY <1>0, <2>1 DEF Channels
      <3> QED BY <1>0, <3>1 DEF Untouched, Verify
    <2> QED BY <1>8, <2>1, <2>2, <2>3, WorkTells DEF VerifyRecovery, gatewayVars
  <1>9. CASE FinalizeReport(r)
    <2> DEFINE v == [vals[r] EXCEPT !.report = TRUE]
    <2>1. /\ Work(r, "finalize_report", v, End) /\ status' = ReportStatus(vals[r].receipt)
          /\ UNCHANGED <<receipts, late>>
      BY <1>9 DEF FinalizeReport, gatewayVars
    <2>2. Diagnosis # None => call[r].op # "run"
      BY <1>a, <2>1 DEF Work, ToGate
    <2>3. /\ v.report
          /\ v.approval = vals[r].approval /\ v.receipt = vals[r].receipt /\ v.verified = vals[r].verified
      BY <1>0 DEF Channels
    <2>4. Diagnosis = None => status' = "diagnosed" /\ Untouched(v)
      BY <1>0, <2>1, <2>3 DEF ReportStatus, Untouched
    <2> QED BY <2>1, <2>2, <2>3, <2>4, WorkTells
  <1>10. CASE Interrupt(r)
    <2>1. /\ Alone(r)' /\ phase'[r] = "respond" /\ UNCHANGED <<call, vals, next, status, receipts, late>>
          /\ phase[r] = "node" /\ next[r] = "approval_gate"
      BY <1>10, WorkersAreAlone DEF Interrupt, Alone, WInv, TypeOK, apiVars, gatewayVars
    <2>2. Diagnosis # None
      BY <2>1, NoPlanNoGate
    <2>3. TellsRight(r)'
      BY <1>a, <2>1, <2>2 DEF TellsRight, GoesToGate
    <2> QED BY <2>1, <2>2, <2>3, OneCallTells DEF NothingDone
  <1> QED BY <1>1, <1>2, <1>3, <1>4, <1>5, <1>6, <1>7, <1>8, <1>9, <1>10 DEF Node

LEMMA CallTells ==
    ASSUME UseRedis, WInv, LockInv, ThreadInv, AnswerInv, NEW r \in Requests,
           ReviewRecorded(r) \/ InvokeRun(r) \/ InvokeResume(r) \/ Commit(r)
    PROVE  AnswerInv'
  <1>1. Alone(r)' /\ UNCHANGED <<call, receipts, late>>
    BY WorkersAreAlone
    DEF Alone, WInv, TypeOK, ReviewRecorded, InvokeRun, InvokeResume, Commit, gatewayVars
  <1>2. Diagnosis = None => Untouched(saved.vals) /\ Untouched(vals[r])
    BY DEF AnswerInv, NothingDone
  <1>3. CASE ReviewRecorded(r)
    <2>1. phase'[r] = "reviewed" /\ UNCHANGED <<saved, vals>>
      BY <1>3 DEF ReviewRecorded, WInv, TypeOK
    <2> QED BY <1>1, <2>1, OneCallTells DEF AnswerInv, NothingDone, RolledBack, TellsRight
  <1>4. CASE InvokeRun(r)
    <2>1. /\ phase'[r] = "node" /\ next'[r] = "load_incident" /\ saved'.vals = saved.vals
          /\ vals' = [vals EXCEPT ![r] = saved.vals]
      BY <1>4 DEF InvokeRun, WInv, TypeOK
    <2>2. TellsRight(r)'
      BY <2>1 DEF TellsRight, GoesToGate, Reports, ToGate, Planned
    <2>3. NothingDone'
      BY <1>1, <2>1 DEF AnswerInv, NothingDone, RolledBack, Untouched, WInv, TypeOK
    <2> QED BY <1>1, <2>2, <2>3, OneCallTells
  <1>5. CASE InvokeResume(r)
    <2>1. call[r].op # "run" /\ saved' = saved /\ vals' = [vals EXCEPT ![r] = saved.vals]
      BY <1>5, CallKinds DEF InvokeResume, WInv, OnlyResumesDecide
    <2>2. NothingDone'
      BY <1>1, <2>1 DEF AnswerInv, NothingDone, RolledBack, Untouched, WInv, TypeOK
    <2> QED BY <1>1, <2>1, <2>2, OneCallTells DEF TellsRight
  <1>6. CASE Commit(r)
    <2>1. /\ phase[r] = "commit" /\ phase'[r] = (IF next[r] = End THEN "respond" ELSE "node")
          /\ saved'.vals = vals[r] /\ UNCHANGED <<vals, next, status>>
      BY <1>6 DEF Commit, WInv, TypeOK, apiVars
    <2>2. TellsRight(r)'
      BY <1>1, <2>1 DEF AnswerInv, TellsRight, GoesToGate, Reports, ToGate, End
    <2>3. NothingDone'
      BY <1>1, <1>2, <2>1 DEF AnswerInv, NothingDone, RolledBack, Untouched
    <2> QED BY <1>1, <2>2, <2>3, OneCallTells
  <1> QED BY <1>3, <1>4, <1>5, <1>6

LEMMA OthersTell ==
    ASSUME UseRedis, ~DirectReviews, WInv, ApprovalInv, LockInv, ThreadInv, AnswerInv,
           \/ \E r \in Requests :
                 \/ \E c \in {RunCall} \cup ResumeCalls : Accept(r, c)
                 \/ ResumeUnstarted(r) \/ Respond(r) \/ CallFails(r) \/ RollbackTimesOut(r)
                 \/ Conflict(r) \/ LockReplyLost(r)
           \/ \E x \in late : LateRollback(x[1], x[2])
           \/ LockExpires \/ OrchestratorRestarts \/ GatewayRestarts
           \/ \E ok \in BOOLEAN, reviewer \in Reviewers : DirectReview(ok, reviewer)
           \/ UNCHANGED vars
    PROVE  AnswerInv'
  <1>0. Untouched(NewThread) /\ Untouched(Unstarted.vals)
    BY VerdictAssumption DEF Untouched, NewThread, Unstarted, Verdicts
  <1>1. CASE OrchestratorRestarts
    <2>1. /\ \A q \in Requests : phase'[q] = "idle" /\ vals'[q] = NewThread
          /\ saved' \in {saved, Unstarted} /\ UNCHANGED <<receipts, late>>
      BY <1>1 DEF OrchestratorRestarts, gatewayVars
    <2> QED BY <1>0, <2>1 DEF AnswerInv, NothingDone, Untouched, RolledBack, TellsRight
  <1>2. ASSUME NEW r \in Requests, Conflict(r) \/ LockReplyLost(r) PROVE AnswerInv'
    BY <1>2 DEF Conflict, LockReplyLost, AnswerInv, NothingDone, RolledBack, TellsRight, GoesToGate,
                Reports, graphVars, apiVars, gatewayVars
  <1>3. ASSUME NEW r \in Requests, NEW c \in {RunCall} \cup ResumeCalls, Accept(r, c) PROVE AnswerInv'
    <2>1. /\ phase' = [phase EXCEPT ![r] = "locked"] /\ call' = [call EXCEPT ![r] = c]
          /\ UNCHANGED <<vals, next, saved, status, receipts, late>>
      BY <1>3 DEF Accept, apiVars, gatewayVars
    <2>2. \A q \in Requests : TellsRight(q)'
      BY <2>1 DEF AnswerInv, TellsRight, GoesToGate, Reports, WInv, TypeOK
    <2> QED BY <2>1, <2>2 DEF AnswerInv, NothingDone, RolledBack
  <1>4. ASSUME NEW r \in Requests,
               ResumeUnstarted(r) \/ Respond(r) \/ CallFails(r) \/ RollbackTimesOut(r)
        PROVE  AnswerInv'
    <2>1. PICK s : Answer(r, s) /\ saved' = saved /\ receipts' = receipts
      BY <1>4 DEF ResumeUnstarted, Respond, CallFails, RollbackTimesOut, gatewayVars
    <2>2. Alone(r)
      BY <1>4, WorkersAreAlone DEF ResumeUnstarted, Respond, CallFails, RollbackTimesOut
    <2>3. Alone(r)' /\ phase'[r] = "idle" /\ vals' = [vals EXCEPT ![r] = NewThread]
      BY <2>1, <2>2 DEF Answer, Alone, WInv, TypeOK
    <2>4. Diagnosis = None => late' = late
      BY <1>4, NoPlanNoGate DEF ResumeUnstarted, Respond, CallFails, RollbackTimesOut, gatewayVars
    <2>5. NothingDone'
      BY <1>0, <2>1, <2>3, <2>4 DEF AnswerInv, NothingDone, RolledBack, Untouched, WInv, TypeOK
    <2> QED BY <2>3, <2>5, OneCallTells DEF TellsRight
  <1>5. ASSUME NEW x \in late, LateRollback(x[1], x[2]) PROVE AnswerInv'
    <2>1. Diagnosis # None /\ UNCHANGED <<phase, call, vals, next, saved, status>>
      BY <1>5 DEF LateRollback, AnswerInv, NothingDone, graphVars, apiVars
    <2> QED BY <2>1 DEF AnswerInv, NothingDone, TellsRight, GoesToGate, Reports
  <1>6. CASE LockExpires \/ GatewayRestarts \/ UNCHANGED vars
    <2>1. /\ UNCHANGED <<phase, call, vals, next, saved, status>>
          /\ receipts' \in {receipts, [t \in Targets |-> None]} /\ late' \in {late, {}}
      BY <1>6 DEF LockExpires, GatewayRestarts, vars, graphVars, apiVars, gatewayVars
    <2> QED BY <2>1 DEF AnswerInv, NothingDone, RolledBack, TellsRight, GoesToGate, Reports
  <1> QED BY <1>1, <1>2, <1>3, <1>4, <1>5, <1>6 DEF DirectReview

LEMMA StepAnswer ==
    ASSUME Rules, UseRedis, ~DirectReviews
    PROVE  WInv /\ ApprovalInv /\ LockInv /\ ThreadInv /\ AnswerInv /\ [Next]_vars => AnswerInv'
  <1> SUFFICES ASSUME WInv, ApprovalInv, LockInv, ThreadInv, AnswerInv, [Next]_vars
               PROVE  AnswerInv'
    OBVIOUS
  <1>1. ASSUME NEW r \in Requests, Node(r) PROVE AnswerInv'
    BY <1>1, NodeTells
  <1>2. ASSUME NEW r \in Requests,
               ReviewRecorded(r) \/ InvokeRun(r) \/ InvokeResume(r) \/ Commit(r)
        PROVE  AnswerInv'
    BY <1>2, CallTells
  <1>3. ASSUME ~(\E r \in Requests : \/ Node(r) \/ ReviewRecorded(r) \/ InvokeRun(r)
                                     \/ InvokeResume(r) \/ Commit(r))
        PROVE  AnswerInv'
    BY <1>3, OthersTell DEF Next, Progress
  <1> QED BY <1>1, <1>2, <1>3

(* An answer that is no failure is Respond's.                              *)
LEMMA AnswersAreResponses ==
    ASSUME WInv, [Next]_vars, NEW r \in Requests,
           phase[r] = "respond", phase'[r] = "idle", response'[r] # "error"
    PROVE  Respond(r)
  <1>1. ASSUME NEW q \in Requests, NEW c \in {RunCall} \cup ResumeCalls, Accept(q, c) PROVE FALSE
    BY <1>1 DEF Accept, WInv, TypeOK
  <1>2. ASSUME NEW q \in Requests, Node(q) PROVE FALSE
    <2>1. phase' \in {[phase EXCEPT ![q] = "commit"], [phase EXCEPT ![q] = "respond"]}
      BY <1>2 DEF Node, LoadIncident, Triage, GatherEvidence, PlannerAgent, CriticAgent, PolicyAgent,
                  ApprovalGate, RollbackAction, VerifyRecovery, FinalizeReport, Interrupt, Work
    <2> QED BY <2>1 DEF WInv, TypeOK
  <1>3. ASSUME NEW q \in Requests, ReviewRecorded(q) \/ InvokeRun(q) \/ InvokeResume(q) \/ Commit(q)
        PROVE  FALSE
    BY <1>3 DEF ReviewRecorded, InvokeRun, InvokeResume, Commit, WInv, TypeOK
  <1>4. ASSUME NEW q \in Requests,
               ResumeUnstarted(q) \/ CallFails(q) \/ RollbackTimesOut(q) \/ Respond(q)
        PROVE  q = r
    BY <1>4 DEF ResumeUnstarted, CallFails, RollbackTimesOut, Respond, Answer, WInv, TypeOK
  <1>5. ~ ResumeUnstarted(r) /\ ~ CallFails(r) /\ ~ RollbackTimesOut(r)
    BY DEF ResumeUnstarted, CallFails, RollbackTimesOut, Answer, WInv, TypeOK
  <1>6. ASSUME UNCHANGED phase PROVE FALSE
    BY <1>6
  <1>7. ASSUME NEW q \in Requests, Conflict(q) \/ LockReplyLost(q) PROVE FALSE
    BY <1>6, <1>7 DEF Conflict, LockReplyLost, graphVars
  <1>8. ASSUME NEW x \in late, LateRollback(x[1], x[2]) PROVE FALSE
    BY <1>6, <1>8 DEF LateRollback, graphVars
  <1>9. ASSUME LockExpires \/ GatewayRestarts \/ UNCHANGED vars PROVE FALSE
    BY <1>6, <1>9 DEF LockExpires, GatewayRestarts, vars, graphVars
  <1>10. ~ OrchestratorRestarts
    BY DEF OrchestratorRestarts
  <1>11. ASSUME NEW ok \in BOOLEAN, NEW reviewer \in Reviewers, DirectReview(ok, reviewer) PROVE FALSE
    BY <1>6, <1>11 DEF DirectReview, graphVars
  <1> QED
    BY <1>1, <1>2, <1>3, <1>4, <1>5, <1>7, <1>8, <1>9, <1>10, <1>11 DEF Next, Progress

LEMMA ResponseAgrees ==
    ASSUME WInv, ApprovalInv, VisibleInv, AnswerInv, NEW r \in Requests,
           Respond(r), call[r].op = "run"
    PROVE  response'[r] = status
  <1> DEFINE interrupted == saved.paused \/ next[r] = "approval_gate"
  <1>1. response'[r] = DetermineStatus(saved.vals, interrupted) /\ phase[r] = "respond"
    BY DEF Respond, Answer, WInv, TypeOK
  <1>2. TellsRight(r) /\ NothingDone
    BY DEF AnswerInv
  <1>3. CASE Diagnosis # None
    <2>1. next[r] = "approval_gate" /\ status = "waiting_for_approval"
      BY <1>1, <1>2, <1>3 DEF TellsRight, GoesToGate, Planned
    <2> QED BY <1>1, <2>1 DEF DetermineStatus
  <1>4. CASE Diagnosis = None
    <2>1. ~ interrupted /\ saved.vals.action = None
      BY <1>4, NoPlanNoGate DEF VisibleInv
    <2>2. saved.vals.report /\ status = "diagnosed" /\ Untouched(saved.vals)
      BY <1>1, <1>2, <1>4 DEF TellsRight, Reports, NothingDone
    <2> QED BY <1>1, <2>1, <2>2 DEF DetermineStatus, Untouched
  <1> QED BY <1>3, <1>4

(* Where runs use the rules reasoner and the run lock, and all reviews go  *)
(* through resume, whatever fails: the answer to a run is the status the   *)
(* incident has at that moment (_to_run_response and incident-api).        *)
THEOREM RunAnswersAgree ==
    ASSUME Rules, UseRedis, ~DirectReviews
    PROVE  Spec => RunAnswerAgrees
  <1>1. (/\ WInv /\ ApprovalInv /\ [Next]_vars
         /\ NoOverrun => LockInv /\ ThreadInv /\ AnswerInv)
           => (NoOverrun => AnswerInv)'
    BY StepAnswer, WorkflowOverranStays
  <1>2. (/\ WInv /\ ApprovalInv /\ [Next]_vars
         /\ NoOverrun => LockInv /\ ThreadInv /\ VisibleInv)
           => (NoOverrun => VisibleInv)'
    BY StepVisible, WorkflowOverranStays
  <1>3. (/\ WInv /\ ApprovalInv /\ [Next]_vars
         /\ NoOverrun => VisibleInv
         /\ NoOverrun => AnswerInv)
           =>
          \A r \in Requests :
              (call[r].op = "run" /\ phase[r] = "respond" /\ phase'[r] = "idle"
                 /\ response'[r] # "error" /\ NoOverrun)
                    => status = response'[r]
    BY AnswersAreResponses, ResponseAgrees
  <1> QED
    BY <1>1, <1>2, <1>3, InitAnswer, InitVisible, WorkflowInv, ApprovalAlways, WorkflowLockInv,
       ThreadAlways, PTL
    DEF Spec, RunAnswerAgrees

---------------------------------------------------------------------------
(* What a success stands on.  With the rules a thread with a plan reaches  *)
(* the verification by the rollback or by a rejection and in no other way; *)
(* under the lock a call answers from a finished thread or from the gate.  *)
Closing == {"verify_recovery", "finalize_report", End}

Served(v, n) ==
    /\ n \in Closing /\ v.action # None /\ v.approval # "rejected" => SomethingExecuted
    /\ v.verified = "recovered" => SomethingExecuted

ServedInv ==
    /\ Served(saved.vals, saved.next)
    /\ \A r \in Requests :
          /\ phase[r] \in {"node", "commit"} => Served(vals[r], next[r])
          /\ phase[r] = "respond" => next[r] = "approval_gate" \/ saved.next = End

LEMMA UnstartedIsServed == Served(Unstarted.vals, Unstarted.next)
  BY VerdictAssumption DEF Served, Unstarted, NewThread, Verdicts, Closing, End

LEMMA InitServed == Init => ServedInv
  BY UnstartedIsServed DEF Init, ServedInv

(* What was executed stays executed.                                       *)
LEMMA SameExecutions ==
    ASSUME UNCHANGED executed
    PROVE  SomethingExecuted => SomethingExecuted'
  BY DEF SomethingExecuted

LEMMA MoreExecutions ==
    ASSUME WInv, DataInv, NEW p \in Plan, NEW by \in Reviewers \cup {System}, Rollback(p, by)
    PROVE  SomethingExecuted'
  <1>1. p.target \in Targets /\ executed'[p.target] > 0
    BY RollbackEarns, ReceiptType DEF DataInv
  <1> QED BY <1>1 DEF SomethingExecuted

(* The one call at work decides for all threads.                           *)
LEMMA OneCallServes ==
    ASSUME NEW r \in Requests, Alone(r)', Served(saved.vals, saved.next)',
           phase'[r] \in {"node", "commit"} => Served(vals[r], next[r])',
           phase'[r] = "respond" => next'[r] = "approval_gate" \/ saved'.next = End
    PROVE  ServedInv'
  BY DEF Alone, ServedInv

LEMMA WorkServes ==
    ASSUME UseRedis, WInv, LockInv, ThreadInv, ServedInv,
           NEW r \in Requests, NEW n, NEW v, NEW m, Work(r, n, v, m),
           SomethingExecuted => SomethingExecuted', Served(v, m)'
    PROVE  ServedInv'
  <1>1. Alone(r)' /\ phase'[r] = "commit" /\ next'[r] = m /\ vals'[r] = v /\ saved' = saved
    BY WorkersAreAlone DEF Work, Alone, WInv, TypeOK
  <1>2. Served(saved.vals, saved.next)' /\ Served(vals[r], next[r])'
    BY <1>1 DEF ServedInv, Served, SomethingExecuted
  <1> QED BY <1>1, <1>2, OneCallServes

(* A node that leads to none of the closing ones and verifies nothing.     *)
LEMMA OpenWorkServes ==
    ASSUME UseRedis, WInv, LockInv, ThreadInv, ServedInv, UNCHANGED executed,
           NEW r \in Requests, NEW n, NEW v, NEW m, Work(r, n, v, m),
           m \notin Closing, v.verified = vals[r].verified
    PROVE  ServedInv'
  <1>1. vals[r].verified = "recovered" => SomethingExecuted
    BY DEF Work, ServedInv, Served
  <1>2. Served(v, m)'
    BY <1>1 DEF Served, SomethingExecuted
  <1> QED BY <1>2, SameExecutions, WorkServes

LEMMA NodeServes ==
    ASSUME Rules, UseRedis, WInv, ApprovalInv, DataInv, LockInv, ThreadInv, ServedInv,
           NEW r \in Requests, Node(r)
    PROVE  ServedInv'
  <1> USE DEF End, Closing
  <1>0. vals[r] \in Channels /\ vals[r].action \in {None, Diagnosis}
    BY DEF WInv, TypeOK, ApprovalInv, AllCleared, Cleared
  <1>a. phase[r] = "node" => Served(vals[r], next[r])
    BY DEF ServedInv
  <1>1. CASE LoadIncident(r)
    <2>1. PICK v : v = [vals[r] EXCEPT !.replans = 0] /\ Work(r, "load_incident", v, "triage")
      BY <1>1 DEF LoadIncident
    <2>2. v.verified = vals[r].verified /\ "triage" \notin Closing
      BY <1>0, <2>1 DEF Channels
    <2>3. UNCHANGED executed
      BY <1>1 DEF LoadIncident, gatewayVars
    <2> QED BY <2>1, <2>2, <2>3, OpenWorkServes
  <1>2. CASE Triage(r) \/ GatherEvidence(r)
    <2>1. PICK n, v, m : /\ v = vals[r] /\ m \in {"evidence", "planner_agent"}
                         /\ Work(r, n, v, m)
      BY <1>2 DEF Triage, GatherEvidence
    <2>2. UNCHANGED executed
      BY <1>2 DEF Triage, GatherEvidence, gatewayVars
    <2> QED BY <2>1, <2>2, OpenWorkServes
  <1>3. CASE PlannerAgent(r)
    <2>1. PICK a, v : v = [vals[r] EXCEPT !.action = a] /\ Work(r, "planner_agent", v, "critic_agent")
      BY <1>3 DEF PlannerAgent
    <2>2. v.verified = vals[r].verified /\ "critic_agent" \notin Closing
      BY <1>0, <2>1 DEF Channels
    <2>3. UNCHANGED executed
      BY <1>3 DEF PlannerAgent, gatewayVars
    <2> QED BY <2>1, <2>2, <2>3, OpenWorkServes
  <1>4. CASE CriticAgent(r)
    <2>1. PICK verdict, count :
              Work(r, "critic_agent", [vals[r] EXCEPT !.replans = count], RouteAfterCritic(verdict, count))
      BY <1>4 DEF CriticAgent
    <2>2. [vals[r] EXCEPT !.replans = count].verified = vals[r].verified
      BY <1>0 DEF Channels
    <2>3. RouteAfterCritic(verdict, count) \notin Closing
      BY DEF RouteAfterCritic
    <2> QED BY <1>4, <2>1, <2>2, <2>3, OpenWorkServes DEF CriticAgent, gatewayVars
  <1>5. CASE PolicyAgent(r)
    <2>1. PICK decision \in PolicyAnswers(vals[r].action) :
              Work(r, "policy_agent", vals[r], RouteAfterPolicy(vals[r].action, decision))
      BY <1>5 DEF PolicyAgent
    <2>2. UNCHANGED executed
      BY <1>5 DEF PolicyAgent, gatewayVars
    <2>3. CASE vals[r].action # None
      <3>1. RouteAfterPolicy(vals[r].action, decision) = "approval_gate"
        BY <1>0, <2>1, <2>3, PlanAssumption DEF PolicyAnswers, RulePolicy, RouteAfterPolicy
      <3> QED BY <2>1, <2>2, <3>1, OpenWorkServes
    <2>4. CASE vals[r].action = None
      <3>1. Served(vals[r], RouteAfterPolicy(vals[r].action, decision))
        BY <1>a, <2>1, <2>4 DEF Work, Served
      <3> PICK v, m : v = vals[r] /\ m = RouteAfterPolicy(vals[r].action, decision)
        OBVIOUS
      <3>2. Served(v, m)'
        BY <2>2, <3>1 DEF Served, SomethingExecuted
      <3> QED BY <2>1, <2>2, <3>2, SameExecutions, WorkServes
    <2> QED BY <2>3, <2>4
  <1>6. CASE ApprovalGate(r)
    <2>0. PICK answer \in {"approved", "rejected"} :
             Work(r, "approval_gate",
                  [vals[r] EXCEPT !.approval = answer, !.reviewer = call[r].reviewer],
                  RouteAfterApproval(answer))
      BY <1>6 DEF ApprovalGate
    <2>1. PICK v :
             /\ v = [vals[r] EXCEPT !.approval = answer, !.reviewer = call[r].reviewer]
             /\ Work(r, "approval_gate", v, RouteAfterApproval(answer))
      BY <2>0
    <2>2. v.verified = vals[r].verified /\ v.approval = answer
      BY <1>0, <2>1 DEF Channels
    <2>3. UNCHANGED executed
      BY <1>6 DEF ApprovalGate, gatewayVars
    <2>4. CASE answer = "approved"
      <3>1. Work(r, "approval_gate", v, "rollback_action")
        BY <2>1, <2>4 DEF RouteAfterApproval
      <3> QED BY <2>2, <2>3, <3>1, OpenWorkServes
    <2>5. CASE answer = "rejected"
      <3>1. vals[r].verified = "recovered" => SomethingExecuted
        BY <1>a, <2>1 DEF Work, Served
      <3>2. Served(v, RouteAfterApproval(answer))'
        BY <2>2, <2>3, <2>5, <3>1 DEF Served, SomethingExecuted
      <3> QED BY <2>1, <2>3, <3>2, SameExecutions, WorkServes
    <2> QED BY <2>4, <2>5
  <1>7. CASE RollbackAction(r)
    <2>1. PICK v : Work(r, "rollback_action", v, "verify_recovery")
      BY <1>7 DEF RollbackAction
    <2>2. vals[r].action \in Plan /\ Requester(vals[r]) \in Reviewers \cup {System}
      BY <1>0, <2>1, ChannelFields DEF WInv, AllReady, PlanReady, Work, Requester
    <2>3. SomethingExecuted'
      BY <1>7, <2>2, MoreExecutions DEF RollbackAction
    <2>4. Served(v, "verify_recovery")'
      BY <2>3 DEF Served
    <2> QED BY <2>1, <2>3, <2>4, WorkServes
  <1>8. CASE VerifyRecovery(r)
    <2>1. PICK h, v : /\ v = [vals[r] EXCEPT !.verified = Verify, !.receipt = h]
                      /\ Work(r, "verify_recovery", v, "finalize_report")
      BY <1>8 DEF VerifyRecovery
    <2>2. v.verified = Verify /\ v.action = vals[r].action /\ v.approval = vals[r].approval
      BY <1>0, <2>1 DEF Channels
    <2>3. UNCHANGED executed
      BY <1>8 DEF VerifyRecovery, gatewayVars
    <2>4. Verify = "recovered" => SomethingExecuted
      BY DEF Verify, RolledBack, DataInv, ReceiptsEarned, SomethingExecuted
    <2>5. Served(v, "finalize_report")'
      BY <1>a, <2>1, <2>2, <2>3, <2>4 DEF Work, Served, SomethingExecuted
    <2> QED BY <2>1, <2>3, <2>5, SameExecutions, WorkServes
  <1>9. CASE FinalizeReport(r)
    <2>1. PICK v : v = [vals[r] EXCEPT !.report = TRUE] /\ Work(r, "finalize_report", v, End)
      BY <1>9 DEF FinalizeReport
    <2>2. v.verified = vals[r].verified /\ v.action = vals[r].action /\ v.approval = vals[r].approval
      BY <1>0, <2>1 DEF Channels
    <2>3. UNCHANGED executed
      BY <1>9 DEF FinalizeReport, gatewayVars
    <2>4. Served(v, End)'
      BY <1>a, <2>1, <2>2, <2>3 DEF Work, Served, SomethingExecuted
    <2> QED BY <2>1, <2>3, <2>4, SameExecutions, WorkServes
  <1>10. CASE Interrupt(r)
    <2>1. /\ Alone(r)' /\ phase'[r] = "respond" /\ next'[r] = "approval_gate" /\ UNCHANGED executed
      BY <1>10, WorkersAreAlone DEF Interrupt, Alone, WInv, TypeOK, gatewayVars
    <2>2. saved'.vals = saved.vals /\ saved'.next = saved.next
      BY <1>10, CheckpointFields DEF Interrupt, WInv, TypeOK
    <2>3. Served(saved.vals, saved.next)'
      BY <2>1, <2>2 DEF ServedInv, Served, SomethingExecuted
    <2> QED BY <2>1, <2>3, OneCallServes
  <1> QED BY <1>1, <1>2, <1>3, <1>4, <1>5, <1>6, <1>7, <1>8, <1>9, <1>10 DEF Node

LEMMA CallServes ==
    ASSUME UseRedis, WInv, LockInv, ThreadInv, ServedInv, NEW r \in Requests,
           ReviewRecorded(r) \/ InvokeRun(r) \/ InvokeResume(r) \/ Commit(r)
    PROVE  ServedInv'
  <1>1. Alone(r)' /\ UNCHANGED executed
    BY WorkersAreAlone
    DEF Alone, WInv, TypeOK, ReviewRecorded, InvokeRun, InvokeResume, Commit, gatewayVars
  <1>2. ASSUME NEW v, NEW n, Served(v, n) PROVE Served(v, n)'
    BY <1>1, <1>2 DEF Served, SomethingExecuted
  <1>3. Served(saved.vals, saved.next)
    BY DEF ServedInv
  <1>4. CASE ReviewRecorded(r)
    <2>1. phase'[r] = "reviewed" /\ saved' = saved
      BY <1>4 DEF ReviewRecorded, WInv, TypeOK
    <2> QED BY <1>1, <1>3, <2>1, OneCallServes DEF Served, SomethingExecuted
  <1>5. CASE InvokeRun(r)
    <2>1. /\ phase'[r] = "node" /\ next'[r] = "load_incident" /\ vals'[r] = saved.vals
          /\ saved'.vals = saved.vals /\ saved'.next = "load_incident"
      BY <1>5 DEF InvokeRun, WInv, TypeOK
    <2>2. "load_incident" \notin Closing
      BY DEF Closing, End
    <2>3. Served(vals[r], next[r])' /\ Served(saved.vals, saved.next)'
      BY <1>1, <1>3, <2>1, <2>2 DEF Served, SomethingExecuted
    <2> QED BY <1>1, <2>1, <2>3, OneCallServes
  <1>6. CASE InvokeResume(r)
    <2>1. /\ phase'[r] = (IF saved.next = End THEN "respond" ELSE "node")
          /\ next'[r] = saved.next /\ vals'[r] = saved.vals /\ saved' = saved
      BY <1>6 DEF InvokeResume, WInv, TypeOK
    <2>2. Served(vals[r], next[r])' /\ Served(saved.vals, saved.next)'
      BY <1>1, <1>3, <2>1 DEF Served, SomethingExecuted
    <2> QED BY <1>1, <2>1, <2>2, OneCallServes
  <1>7. CASE Commit(r)
    <2>1. /\ phase[r] = "commit" /\ phase'[r] = (IF next[r] = End THEN "respond" ELSE "node")
          /\ saved'.vals = vals[r] /\ saved'.next = next[r] /\ UNCHANGED <<vals, next>>
      BY <1>7 DEF Commit, WInv, TypeOK
    <2>2. Served(vals[r], next[r])
      BY <2>1 DEF ServedInv
    <2>3. Served(vals[r], next[r])' /\ Served(saved.vals, saved.next)'
      BY <1>1, <2>1, <2>2 DEF Served, SomethingExecuted
    <2> QED BY <1>1, <2>1, <2>3, OneCallServes
  <1> QED BY <1>4, <1>5, <1>6, <1>7

LEMMA OthersServe ==
    ASSUME UseRedis, WInv, DataInv, LockInv, ThreadInv, ServedInv,
           \/ \E r \in Requests :
                 \/ \E c \in {RunCall} \cup ResumeCalls : Accept(r, c)
                 \/ ResumeUnstarted(r) \/ Respond(r) \/ CallFails(r) \/ RollbackTimesOut(r)
                 \/ Conflict(r) \/ LockReplyLost(r)
           \/ \E x \in late : LateRollback(x[1], x[2])
           \/ LockExpires \/ OrchestratorRestarts \/ GatewayRestarts
           \/ \E ok \in BOOLEAN, reviewer \in Reviewers : DirectReview(ok, reviewer)
           \/ UNCHANGED vars
    PROVE  ServedInv'
  <1>1. CASE OrchestratorRestarts
    <2>1. /\ \A q \in Requests : phase'[q] = "idle"
          /\ saved' \in {saved, Unstarted} /\ UNCHANGED executed
      BY <1>1 DEF OrchestratorRestarts, gatewayVars
    <2>2. Served(saved.vals, saved.next)'
      BY <2>1, UnstartedIsServed DEF ServedInv, Served, SomethingExecuted
    <2> QED BY <2>1, <2>2 DEF ServedInv
  <1>2. ASSUME NEW r \in Requests, NEW c \in {RunCall} \cup ResumeCalls, Accept(r, c) PROVE ServedInv'
    <2>1. phase' = [phase EXCEPT ![r] = "locked"] /\ UNCHANGED <<vals, next, saved, executed>>
      BY <1>2 DEF Accept, gatewayVars
    <2> QED BY <2>1 DEF ServedInv, Served, SomethingExecuted, WInv, TypeOK
  <1>3. ASSUME NEW r \in Requests,
               ResumeUnstarted(r) \/ Respond(r) \/ CallFails(r) \/ RollbackTimesOut(r)
        PROVE  ServedInv'
    <2>1. PICK s : Answer(r, s) /\ saved' = saved /\ executed' = executed
      BY <1>3 DEF ResumeUnstarted, Respond, CallFails, RollbackTimesOut, gatewayVars
    <2>2. Alone(r)
      BY <1>3, WorkersAreAlone DEF ResumeUnstarted, Respond, CallFails, RollbackTimesOut
    <2>3. Alone(r)' /\ phase'[r] = "idle"
      BY <2>1, <2>2 DEF Answer, Alone, WInv, TypeOK
    <2>4. Served(saved.vals, saved.next)'
      BY <2>1 DEF ServedInv, Served, SomethingExecuted
    <2> QED BY <2>3, <2>4, OneCallServes
  <1>4. ASSUME UNCHANGED <<phase, vals, next, saved>>, SomethingExecuted => SomethingExecuted'
        PROVE  ServedInv'
    BY <1>4 DEF ServedInv, Served, SomethingExecuted
  <1>5. ASSUME NEW x \in late, LateRollback(x[1], x[2]) PROVE ServedInv'
    <2>1. x[1] \in Plan /\ x[2] \in Reviewers \cup {System}
      BY DEF WInv, TypeOK
    <2>2. SomethingExecuted'
      BY <1>5, <2>1, MoreExecutions DEF LateRollback
    <2> QED BY <1>4, <1>5, <2>2 DEF LateRollback, graphVars
  <1>6. ASSUME NEW r \in Requests, Conflict(r) \/ LockReplyLost(r) PROVE ServedInv'
    BY <1>4, <1>6, SameExecutions DEF Conflict, LockReplyLost, graphVars, gatewayVars
  <1>7. CASE LockExpires \/ GatewayRestarts \/ UNCHANGED vars
    BY <1>4, <1>7, SameExecutions DEF LockExpires, GatewayRestarts, vars, graphVars, gatewayVars
  <1>8. ASSUME NEW ok \in BOOLEAN, NEW reviewer \in Reviewers, DirectReview(ok, reviewer)
        PROVE  ServedInv'
    BY <1>4, <1>8, SameExecutions DEF DirectReview, graphVars, gatewayVars
  <1> QED BY <1>1, <1>2, <1>3, <1>5, <1>6, <1>7, <1>8

LEMMA StepServed ==
    ASSUME Rules, UseRedis
    PROVE  WInv /\ ApprovalInv /\ DataInv /\ LockInv /\ ThreadInv /\ ServedInv /\ [Next]_vars
              => ServedInv'
  <1> SUFFICES ASSUME WInv, ApprovalInv, DataInv, LockInv, ThreadInv, ServedInv, [Next]_vars
               PROVE  ServedInv'
    OBVIOUS
  <1>1. ASSUME NEW r \in Requests, Node(r) PROVE ServedInv'
    BY <1>1, NodeServes
  <1>2. ASSUME NEW r \in Requests,
               ReviewRecorded(r) \/ InvokeRun(r) \/ InvokeResume(r) \/ Commit(r)
        PROVE  ServedInv'
    BY <1>2, CallServes
  <1>3. ASSUME ~(\E r \in Requests : \/ Node(r) \/ ReviewRecorded(r) \/ InvokeRun(r)
                                     \/ InvokeResume(r) \/ Commit(r))
        PROVE  ServedInv'
    BY <1>3, OthersServe DEF Next, Progress
  <1> QED BY <1>1, <1>2, <1>3

LEMMA SuccessIsServed ==
    ASSUME WInv, ServedInv, NEW r \in Requests,
           Respond(r), response'[r] \in {"completed", "recovered"}
    PROVE  SomethingExecuted
  <1> DEFINE interrupted == saved.paused \/ next[r] = "approval_gate"
  <1>1. response'[r] = DetermineStatus(saved.vals, interrupted) /\ phase[r] = "respond"
    BY DEF Respond, Answer, WInv, TypeOK
  <1>2. ~ interrupted /\ saved.next = End
    BY <1>1 DEF DetermineStatus, ServedInv
  <1>3. \/ saved.vals.verified = "recovered"
        \/ saved.vals.action # None /\ saved.vals.approval # "rejected"
    BY <1>1, <1>2 DEF DetermineStatus
  <1> QED BY <1>2, <1>3 DEF ServedInv, Served, Closing

(* With the rules reasoner and the run lock nobody is told that the        *)
(* workflow is completed or the incident has recovered unless a rollback   *)
(* was executed, whatever fails and whoever reviews (determine_status,     *)
(* route_after_approval).                                                  *)
THEOREM SuccessIsEarned ==
    ASSUME Rules, UseRedis
    PROVE  Spec => SuccessMeansRollback
  <1>1. (/\ WInv /\ ApprovalInv /\ DataInv /\ [Next]_vars
         /\ NoOverrun => LockInv /\ ThreadInv /\ ServedInv)
           => (NoOverrun => ServedInv)'
    BY StepServed, WorkflowOverranStays
  <1>2. WInv /\ (NoOverrun => ServedInv) /\ [Next]_vars =>
          [\A r \in Requests :
              (/\ phase[r] = "respond" /\ phase'[r] = "idle" /\ NoOverrun
               /\ response'[r] \in {"completed", "recovered"})
                    => \E t \in Targets : executed[t] > 0]_vars
    BY AnswersAreResponses, SuccessIsServed DEF SomethingExecuted
  <1> QED
    BY <1>1, <1>2, InitServed, WorkflowInv, ApprovalAlways, DataAlways, WorkflowLockInv,
       ThreadAlways, PTL
    DEF Spec, SuccessMeansRollback

---------------------------------------------------------------------------
(* Progress, without fairness: what is left to do only ever gets less.     *)
Nearer(r) ==
    phase[r] # "idle" =>
        \/ StepsLeft(r)' < StepsLeft(r)
        \/ UNCHANGED <<phase[r], call[r], vals[r], next[r]>>

LEMMA AtMostTwelveNodes ==
    ASSUME NEW n \in Nodes \cup {End}, NEW v
    PROVE  NodesLeft(n, v) \in 0 .. 12
  BY DEF NodesLeft, MayReplan, Distance, Nodes, End

LEMMA AtMostTwentySevenSteps ==
    ASSUME WInv, NEW r \in Requests
    PROVE  /\ StepsLeft(r) \in 0 .. 27
           /\ phase[r] # "idle" => StepsLeft(r) > 0
  <1>1. NodesLeft(next[r], vals[r]) \in 0 .. 12
    BY AtMostTwelveNodes DEF WInv, TypeOK
  <1>2. phase[r] \in Phases
    BY DEF WInv, TypeOK
  <1> QED BY <1>1, <1>2 DEF StepsLeft, Phases

(* Every node leads to one that has fewer before it.                       *)
LEMMA WorkComesNearer ==
    ASSUME WInv, NEW r \in Requests, NEW n \in Nodes, NEW v, NEW m \in Nodes \cup {End},
           Work(r, n, v, m), NodesLeft(m, v) < NodesLeft(n, vals[r])
    PROVE  Nearer(r)
  <1>1. NodesLeft(m, v) \in 0 .. 12 /\ NodesLeft(n, vals[r]) \in 0 .. 12
    BY AtMostTwelveNodes
  <1>2. StepsLeft(r) = 2 * NodesLeft(n, vals[r]) + 1
    BY DEF Work, StepsLeft
  <1>3. phase'[r] = "commit" /\ vals'[r] = v /\ next'[r] = m
    BY DEF Work, WInv, TypeOK
  <1>4. StepsLeft(r)' = 2 * NodesLeft(m, v) + 2
    BY <1>3 DEF StepsLeft, NodesLeft, MayReplan
  <1> QED BY <1>1, <1>2, <1>4 DEF Nearer

LEMMA NodesComeNearer ==
    ASSUME WInv, NEW r \in Requests, Node(r)
    PROVE  Nearer(r)
  <1> DEFINE v == vals[r]
  <1>0. v \in Channels /\ v.replans \in 0 .. 2
    BY ChannelFields DEF WInv, TypeOK
  <1>1. CASE LoadIncident(r)
    <2>1. PICK w : w = [v EXCEPT !.replans = 0]
      OBVIOUS
    <2>2. NodesLeft("triage", w) < NodesLeft("load_incident", v)
      BY DEF NodesLeft, MayReplan, Distance
    <2> QED BY <1>1, <2>1, <2>2, WorkComesNearer DEF LoadIncident, Nodes
  <1>2. CASE Triage(r)
    <2>1. NodesLeft("evidence", v) < NodesLeft("triage", v)
      BY DEF NodesLeft, MayReplan, Distance
    <2> QED BY <1>2, <2>1, WorkComesNearer DEF Triage, Nodes
  <1>3. CASE GatherEvidence(r)
    <2>1. NodesLeft("planner_agent", v) < NodesLeft("evidence", v)
      BY DEF NodesLeft, MayReplan, Distance
    <2> QED BY <1>3, <2>1, WorkComesNearer DEF GatherEvidence, Nodes
  <1>4. CASE PlannerAgent(r)
    <2>1. PICK a, w : w = [v EXCEPT !.action = a] /\ Work(r, "planner_agent", w, "critic_agent")
      BY <1>4 DEF PlannerAgent
    <2>2. w.replans = v.replans
      BY <1>0, <2>1 DEF Channels
    <2>3. NodesLeft("critic_agent", w) < NodesLeft("planner_agent", v)
      BY <2>2 DEF NodesLeft, MayReplan, Distance
    <2> QED BY <2>1, <2>3, WorkComesNearer DEF Nodes
  <1>5. CASE CriticAgent(r)
    <2>1. PICK verdict, count, w :
             /\ count = (IF verdict = "request_replan" THEN v.replans + 1 ELSE v.replans)
             /\ w = [v EXCEPT !.replans = count]
             /\ Work(r, "critic_agent", w, RouteAfterCritic(verdict, count))
      BY <1>5 DEF CriticAgent
    <2>2. w.replans = count
      BY <1>0, <2>1 DEF Channels
    <2>3. CASE verdict = "request_replan" /\ count <= 1
      <3>1. v.replans = 0 /\ w.replans = 1
        BY <1>0, <2>1, <2>2, <2>3
      <3>2. NodesLeft("planner_agent", w) < NodesLeft("critic_agent", v)
        BY <3>1 DEF NodesLeft, MayReplan, Distance
      <3> QED BY <2>1, <2>3, <3>2, WorkComesNearer DEF RouteAfterCritic, Nodes
    <2>4. CASE ~(verdict = "request_replan" /\ count <= 1)
      <3>1. NodesLeft("policy_agent", w) < NodesLeft("critic_agent", v)
        BY DEF NodesLeft, MayReplan, Distance
      <3> QED BY <2>1, <2>4, <3>1, WorkComesNearer DEF RouteAfterCritic, Nodes
    <2> QED BY <2>3, <2>4
  <1>6. CASE PolicyAgent(r)
    <2>1. PICK decision : Work(r, "policy_agent", v, RouteAfterPolicy(v.action, decision))
      BY <1>6 DEF PolicyAgent
    <2>2. RouteAfterPolicy(v.action, decision) \in {"verify_recovery", "rollback_action", "approval_gate"}
      BY DEF RouteAfterPolicy
    <2>3. NodesLeft(RouteAfterPolicy(v.action, decision), v) < NodesLeft("policy_agent", v)
      BY <2>2 DEF NodesLeft, MayReplan, Distance
    <2> QED BY <2>1, <2>2, <2>3, WorkComesNearer DEF Nodes
  <1>7. CASE ApprovalGate(r)
    <2>1. PICK w, m : /\ m \in {"rollback_action", "verify_recovery"}
                      /\ Work(r, "approval_gate", w, m)
      BY <1>7 DEF ApprovalGate, RouteAfterApproval
    <2>2. NodesLeft(m, w) < NodesLeft("approval_gate", v)
      BY <2>1 DEF NodesLeft, MayReplan, Distance
    <2> QED BY <2>1, <2>2, WorkComesNearer DEF Nodes
  <1>8. CASE Interrupt(r)
    <2>1. phase[r] = "node" /\ next[r] = "approval_gate" /\ phase'[r] = "respond"
      BY <1>8 DEF Interrupt, WInv, TypeOK
    <2>2. NodesLeft("approval_gate", v) = 4
      BY DEF NodesLeft, MayReplan, Distance
    <2> QED BY <2>1, <2>2 DEF Nearer, StepsLeft
  <1>9. CASE RollbackAction(r)
    <2>1. PICK w : Work(r, "rollback_action", w, "verify_recovery")
      BY <1>9 DEF RollbackAction
    <2>2. NodesLeft("verify_recovery", w) < NodesLeft("rollback_action", v)
      BY DEF NodesLeft, MayReplan, Distance
    <2> QED BY <2>1, <2>2, WorkComesNearer DEF Nodes
  <1>10. CASE VerifyRecovery(r)
    <2>1. PICK w : Work(r, "verify_recovery", w, "finalize_report")
      BY <1>10 DEF VerifyRecovery
    <2>2. NodesLeft("finalize_report", w) < NodesLeft("verify_recovery", v)
      BY DEF NodesLeft, MayReplan, Distance
    <2> QED BY <2>1, <2>2, WorkComesNearer DEF Nodes
  <1>11. CASE FinalizeReport(r)
    <2>1. PICK w : Work(r, "finalize_report", w, End)
      BY <1>11 DEF FinalizeReport
    <2>2. NodesLeft(End, w) < NodesLeft("finalize_report", v)
      BY DEF NodesLeft, MayReplan, Distance, End
    <2> QED BY <2>1, <2>2, WorkComesNearer DEF Nodes
  <1> QED BY <1>1, <1>2, <1>3, <1>4, <1>5, <1>6, <1>7, <1>8, <1>9, <1>10, <1>11 DEF Node

LEMMA CallsComeNearer ==
    ASSUME WInv, NEW r \in Requests,
           ReviewRecorded(r) \/ InvokeRun(r) \/ InvokeResume(r) \/ Commit(r)
    PROVE  Nearer(r)
  <1>1. CASE ReviewRecorded(r)
    <2>1. phase[r] = "locked" /\ phase'[r] = "reviewed"
      BY <1>1 DEF ReviewRecorded, WInv, TypeOK
    <2> QED BY <2>1 DEF Nearer, StepsLeft
  <1>2. CASE InvokeRun(r)
    <2>1. phase[r] = "locked" /\ phase'[r] = "node" /\ next'[r] = "load_incident"
      BY <1>2 DEF InvokeRun, WInv, TypeOK
    <2>2. NodesLeft(next[r], vals[r])' = 12
      BY <2>1 DEF NodesLeft, MayReplan, Distance
    <2> QED BY <2>1, <2>2 DEF Nearer, StepsLeft
  <1>3. CASE InvokeResume(r)
    <2>0. saved.next \in Nodes \cup {End}
      BY <1>3, CheckpointFields DEF InvokeResume, WInv, TypeOK
    <2>1. /\ phase[r] = "reviewed" /\ phase'[r] \in {"node", "respond"}
          /\ next'[r] \in Nodes \cup {End}
      BY <1>3, <2>0 DEF InvokeResume, WInv, TypeOK
    <2>2. NodesLeft(next'[r], vals'[r]) \in 0 .. 12
      BY <2>1, AtMostTwelveNodes
    <2>3. NodesLeft(next[r], vals[r])' \in 0 .. 12
      BY <2>2 DEF NodesLeft, MayReplan
    <2>4. StepsLeft(r) = 26 /\ StepsLeft(r)' < 26
      BY <2>1, <2>3 DEF StepsLeft
    <2> QED BY <2>4 DEF Nearer
  <1>4. CASE Commit(r)
    <2>1. /\ phase[r] = "commit" /\ phase'[r] \in {"node", "respond"}
          /\ UNCHANGED <<next, vals>>
      BY <1>4 DEF Commit, WInv, TypeOK
    <2>2. NodesLeft(next[r], vals[r]) \in 0 .. 12 /\ UNCHANGED NodesLeft(next[r], vals[r])
      BY <2>1, AtMostTwelveNodes DEF WInv, TypeOK, NodesLeft, MayReplan
    <2> QED BY <2>1, <2>2 DEF Nearer, StepsLeft
  <1> QED BY <1>1, <1>2, <1>3, <1>4

(* The end of a call is the end of its steps.                              *)
LEMMA EndsAreNearer ==
    ASSUME WInv, NEW r \in Requests, phase'[r] = "idle"
    PROVE  Nearer(r)
  <1>1. StepsLeft(r)' = 0
    BY DEF StepsLeft
  <1> QED BY <1>1, AtMostTwentySevenSteps DEF Nearer

(* A step of one call, or of nobody, leaves the other calls where they are.*)
LEMMA OthersStay ==
    ASSUME WInv, NEW q \in Requests,
           \/ \E r \in Requests \ {q} :
                 \/ \E c \in {RunCall} \cup ResumeCalls : Accept(r, c)
                 \/ Conflict(r) \/ Progress(r) \/ CallFails(r) \/ RollbackTimesOut(r)
                 \/ LockReplyLost(r)
           \/ \E x \in late : LateRollback(x[1], x[2])
           \/ LockExpires \/ GatewayRestarts
           \/ \E ok \in BOOLEAN, reviewer \in Reviewers : DirectReview(ok, reviewer)
           \/ UNCHANGED vars
    PROVE  UNCHANGED <<phase[q], call[q], vals[q], next[q]>>
  <1> USE DEF WInv, TypeOK
  <1>1. ASSUME NEW r \in Requests \ {q}, NEW n, NEW v, NEW m, Work(r, n, v, m)
        PROVE  UNCHANGED <<phase[q], call[q], vals[q], next[q]>>
    BY <1>1 DEF Work
  <1>2. ASSUME NEW r \in Requests \ {q}, Node(r)
        PROVE  UNCHANGED <<phase[q], call[q], vals[q], next[q]>>
    BY <1>1, <1>2 DEF Node, LoadIncident, Triage, GatherEvidence, PlannerAgent, CriticAgent,
       PolicyAgent, ApprovalGate, Interrupt, RollbackAction, VerifyRecovery, FinalizeReport
  <1>3. ASSUME NEW r \in Requests \ {q}, NEW s, Answer(r, s)
        PROVE  UNCHANGED <<phase[q], call[q], vals[q], next[q]>>
    BY <1>3 DEF Answer
  <1>4. ASSUME NEW r \in Requests \ {q},
               Respond(r) \/ ResumeUnstarted(r) \/ CallFails(r) \/ RollbackTimesOut(r)
        PROVE  UNCHANGED <<phase[q], call[q], vals[q], next[q]>>
    BY <1>3, <1>4 DEF Respond, ResumeUnstarted, CallFails, RollbackTimesOut
  <1>5. ASSUME NEW r \in Requests \ {q},
               \/ ReviewRecorded(r) \/ InvokeRun(r) \/ InvokeResume(r) \/ Commit(r)
               \/ \E c \in {RunCall} \cup ResumeCalls : Accept(r, c)
               \/ Conflict(r) \/ LockReplyLost(r)
        PROVE  UNCHANGED <<phase[q], call[q], vals[q], next[q]>>
    BY <1>5 DEF ReviewRecorded, InvokeRun, InvokeResume, Commit, Accept, Conflict, LockReplyLost,
       graphVars
  <1>6. CASE \/ \E x \in late : LateRollback(x[1], x[2])
             \/ LockExpires \/ GatewayRestarts
             \/ \E ok \in BOOLEAN, reviewer \in Reviewers : DirectReview(ok, reviewer)
             \/ UNCHANGED vars
    BY <1>6 DEF LateRollback, LockExpires, GatewayRestarts, DirectReview, vars, graphVars
  <1> QED BY <1>2, <1>4, <1>5, <1>6 DEF Progress

LEMMA StepComesNearer ==
    ASSUME WInv, [Next]_vars, NEW q \in Requests
    PROVE  Nearer(q)
  <1>1. CASE Node(q)
    BY <1>1, NodesComeNearer
  <1>2. CASE ReviewRecorded(q) \/ InvokeRun(q) \/ InvokeResume(q) \/ Commit(q)
    BY <1>2, CallsComeNearer
  <1>3. CASE \/ Respond(q) \/ ResumeUnstarted(q) \/ CallFails(q) \/ RollbackTimesOut(q)
             \/ OrchestratorRestarts
    <2>1. phase'[q] = "idle"
      BY <1>3 DEF Respond, ResumeUnstarted, CallFails, RollbackTimesOut, OrchestratorRestarts,
         Answer, WInv, TypeOK
    <2> QED BY <2>1, EndsAreNearer
  <1>4. CASE \/ \E c \in {RunCall} \cup ResumeCalls : Accept(q, c)
             \/ Conflict(q) \/ LockReplyLost(q)
    BY <1>4 DEF Accept, Conflict, LockReplyLost, Nearer
  <1>5. CASE UNCHANGED <<phase[q], call[q], vals[q], next[q]>>
    BY <1>5 DEF Nearer
  <1> QED BY <1>1, <1>2, <1>3, <1>4, <1>5, OthersStay DEF Next, Progress

(* Every step of a call brings it nearer to its answer, whatever the       *)
(* reasoner answers and whatever the other calls, faults and restarts do:  *)
(* the replan loop of graph.py ends by itself.                             *)
THEOREM CallsAlwaysRunDown == Spec => CallsRunDown
  <1>1. WInv /\ [Next]_vars => \A r \in Requests : Nearer(r)
    BY StepComesNearer
  <1>2. WInv /\ [Next]_vars =>
          [\A r \in Requests :
             phase[r] # "idle" =>
                 \/ StepsLeft(r)' < StepsLeft(r)
                 \/ UNCHANGED <<phase[r], call[r], vals[r], next[r]>>]_vars
    BY <1>1 DEF Nearer
  <1> QED BY <1>2, WorkflowInv, PTL DEF Spec, CallsRunDown
=============================================================================
