-------------------------- MODULE WorkflowProofs --------------------------
(***************************************************************************)
(* Proofs about Workflow, for any requests, reviewers, targets, revisions  *)
(* and plans, any number of calls and any number of failures.              *)
(***************************************************************************)
EXTENDS Workflow, RunLockProofs

(* A thread about to act has a plan, and one about to be criticised has    *)
(* used at most one of its replans.                                        *)
PlanReady(v, n) ==
    /\ n \in {"approval_gate", "rollback_action"} => v.action # None
    /\ n \in {"triage", "evidence", "planner_agent", "critic_agent"} => v.replans <= 1

AllReady ==
    /\ PlanReady(saved.vals, saved.next)
    /\ \A r \in Requests : PlanReady(vals[r], next[r])

(* Only a resume has a decision to hand to the graph.                      *)
OnlyResumesDecide ==
    \A r \in Requests :
        /\ phase[r] = "reviewed" => call[r] \in ResumeCalls
        /\ r \in resuming => call[r] \in ResumeCalls /\ phase[r] \in {"node", "commit", "respond"}

WInv == TypeOK /\ AllReady /\ OnlyResumesDecide

(* With the rules every plan is plan_diagnosis's, and a thread that has    *)
(* passed the gate carries a reviewer who approved.                        *)
Cleared(v, n) ==
    /\ v.action \in {None, Diagnosis}
    /\ n = "rollback_action" => v.reviewer \in approvers

AllCleared ==
    /\ Cleared(saved.vals, saved.next)
    /\ \A r \in Requests : Cleared(vals[r], next[r])

(* The review of a resume is recorded before its decision can be used.     *)
DecisionRecorded ==
    \A r \in Requests :
        (phase[r] = "reviewed" \/ r \in resuming) /\ call[r].approved
            => call[r].reviewer \in approvers

LateApproved == \A x \in late : x[2] \in approvers

ApprovalInv ==
    /\ AllCleared /\ DecisionRecorded /\ LateApproved
    /\ ExecutorApproved /\ RollbackNeedsApproval

---------------------------------------------------------------------------
LEMMA NewThreadType == NewThread \in Channels
  BY DEF NewThread, Channels

LEMMA CallKinds ==
    /\ RunCall.op = "run"
    /\ RunCall \notin ResumeCalls
    /\ \A c \in ResumeCalls : c.op = "resume" /\ c.approved \in BOOLEAN /\ c.reviewer \in Reviewers
  <1>1. RunCall.op = "run"
    BY DEF RunCall
  <1>2. \A c \in ResumeCalls : c.op = "resume" /\ c.approved \in BOOLEAN /\ c.reviewer \in Reviewers
    BY DEF ResumeCalls
  <1>3. RunCall \notin ResumeCalls
    BY <1>1, <1>2
  <1> QED BY <1>1, <1>2, <1>3

(* What the channels of a thread may hold.                                 *)
LEMMA ChannelFields ==
    ASSUME NEW v \in Channels
    PROVE  /\ v.action \in Plan \cup {None}
           /\ v.replans \in 0 .. 2
           /\ v.approval \in {"", "approved", "rejected"}
           /\ v.reviewer \in Reviewers \cup {None}
           /\ v.receipt \in HeldReceipt \cup {None}
           /\ v.verified \in Verdicts \cup {None}
           /\ v.report \in BOOLEAN
  BY DEF Channels

(* The channel updates of the nodes keep the channels' types and leave the *)
(* other channels alone.                                                   *)
LEMMA SetReplans ==
    ASSUME NEW v \in Channels, NEW k \in 0 .. 2, NEW w, w = [v EXCEPT !.replans = k]
    PROVE  w \in Channels /\ w.replans = k /\ w.action = v.action /\ w.reviewer = v.reviewer
  BY DEF Channels

LEMMA SetAction ==
    ASSUME NEW v \in Channels, NEW a \in Plan \cup {None}, NEW w, w = [v EXCEPT !.action = a]
    PROVE  w \in Channels /\ w.replans = v.replans /\ w.action = a /\ w.reviewer = v.reviewer
  BY DEF Channels

LEMMA SetReceipt ==
    ASSUME NEW v \in Channels, NEW h \in HeldReceipt, NEW w, w = [v EXCEPT !.receipt = h]
    PROVE  w \in Channels /\ w.replans = v.replans /\ w.action = v.action
  BY DEF Channels

LEMMA SetVerified ==
    ASSUME NEW v \in Channels, NEW d \in Verdicts, NEW h \in HeldReceipt \cup {None},
           NEW w, w = [v EXCEPT !.verified = d, !.receipt = h]
    PROVE  w \in Channels /\ w.replans = v.replans /\ w.action = v.action
  BY DEF Channels

LEMMA SetReport ==
    ASSUME NEW v \in Channels, NEW w, w = [v EXCEPT !.report = TRUE]
    PROVE  w \in Channels /\ w.replans = v.replans /\ w.action = v.action
  BY DEF Channels

LEMMA CheckpointFields ==
    /\ Unstarted \in Checkpoint
    /\ \A s \in Checkpoint : /\ s.vals \in Channels /\ s.paused \in BOOLEAN
                             /\ s.next \in Nodes \cup {End, "unstarted"}
                             /\ [s EXCEPT !.paused = TRUE] \in Checkpoint
                             /\ [s EXCEPT !.paused = TRUE].vals = s.vals
                             /\ [s EXCEPT !.paused = TRUE].next = s.next
    /\ \A v \in Channels, n \in Nodes \cup {End} :
          LET s == [vals |-> v, next |-> n, paused |-> FALSE]
          IN s \in Checkpoint /\ s.vals = v /\ s.next = n
  BY NewThreadType DEF Checkpoint, Unstarted

(* The receipt of a rollback, and the copy of it the graph holds.          *)
LEMMA ReceiptType ==
    ASSUME WInv, NEW p \in Plan, NEW by \in Reviewers \cup {System}
    PROVE  /\ p.target \in Targets
           /\ ReceiptFor(p, by) \in Receipt
           /\ \A x \in Receipt : [target |-> x.target, executor |-> x.executor,
                  revision |-> x.revision, verification |-> "pending"] \in HeldReceipt
  <1>1. p.target \in Targets /\ p.revision \in Revisions
    BY DEF Plan
  <1>2. ReceiptFor(p, by) \in Receipt
    BY <1>1 DEF WInv, TypeOK, ReceiptFor, Receipt
  <1>3. \A x \in Receipt : [target |-> x.target, executor |-> x.executor,
                  revision |-> x.revision, verification |-> "pending"] \in HeldReceipt
    BY DEF Receipt, HeldReceipt
  <1> QED BY <1>1, <1>2, <1>3

---------------------------------------------------------------------------
(* The parts of TypeOK outside the graph's own state.                      *)
OutsideTypeOK ==
    /\ status \in IncidentStatus
    /\ approval \in {None, "approved", "rejected"}
    /\ approvers \subseteq Reviewers
    /\ receipts \in [Targets -> Receipt \cup {None}]
    /\ executed \in [Targets -> Nat]
    /\ late \subseteq Plan \X (Reviewers \cup {System})

LEMMA InitWInv == Init => WInv
  <1> SUFFICES ASSUME Init PROVE WInv
    OBVIOUS
  <1>1. TypeOK
    BY NewThreadType, CheckpointFields, ConfigAssumption
    DEF Init, TypeOK, LockInit, LockTypeOK, Phases, End, IncidentStatus
  <1>2. AllReady
    BY DEF Init, AllReady, PlanReady, Unstarted, NewThread, End
  <1>3. OnlyResumesDecide
    BY DEF Init, OnlyResumesDecide
  <1> QED BY <1>1, <1>2, <1>3 DEF WInv

(* A node that leaves a typed thread, ready for what comes next, keeps the *)
(* invariant.                                                              *)
LEMMA WorkKeeps ==
    ASSUME WInv, OutsideTypeOK',
           NEW r \in Requests, NEW n, NEW v \in Channels, NEW m \in Nodes \cup {End},
           Work(r, n, v, m), PlanReady(v, m)
    PROVE  WInv'
  <1>1. TypeOK'
    BY DEF WInv, TypeOK, OutsideTypeOK, Work, lockVars, bounds, LockTypeOK, Phases
  <1>2. AllReady'
    BY DEF WInv, TypeOK, AllReady, PlanReady, Work
  <1>3. OnlyResumesDecide'
    BY DEF WInv, TypeOK, OnlyResumesDecide, Work
  <1> QED BY <1>1, <1>2, <1>3 DEF WInv

(* Ending a call keeps the invariant.                                      *)
LEMMA AnswerKeeps ==
    ASSUME WInv, OutsideTypeOK', LockTypeOK', saved' = saved,
           calls' \in 0 .. MaxCalls, faults' \in 0 .. MaxFaults,
           NEW r \in Requests, NEW s \in RunStatus \cup {"none", "conflict", "error"}, Answer(r, s)
    PROVE  WInv'
  <1>1. TypeOK'
    BY NewThreadType DEF WInv, TypeOK, OutsideTypeOK, Answer, Phases
  <1>2. AllReady'
    BY DEF WInv, TypeOK, AllReady, PlanReady, Answer, NewThread, End
  <1>3. OnlyResumesDecide'
    BY DEF WInv, TypeOK, OnlyResumesDecide, Answer
  <1> QED BY <1>1, <1>2, <1>3 DEF WInv

LEMMA StepWInv == WInv /\ [Next]_vars => WInv'
  <1> SUFFICES ASSUME WInv, [Next]_vars PROVE WInv'
    OBVIOUS
  <1> USE PlanAssumption, ConfigAssumption, SystemAssumption
  <1>0. WInv => OutsideTypeOK /\ LockTypeOK /\ AllReady /\ TypeOK /\ OnlyResumesDecide
    BY DEF WInv, TypeOK, OutsideTypeOK
  <1>a. ASSUME NEW r \in Requests PROVE vals[r] \in Channels /\ PlanReady(vals[r], next[r])
    BY <1>0 DEF TypeOK, AllReady
  <1>1. ASSUME NEW r \in Requests, NEW c \in {RunCall} \cup ResumeCalls, Accept(r, c) PROVE WInv'
    BY <1>1 DEF Accept, Acquire, WInv, TypeOK, AllReady, LockTypeOK, Phases,
                PlanReady, OnlyResumesDecide, apiVars, gatewayVars
  <1>2. ASSUME NEW r \in Requests, Conflict(r) PROVE WInv'
    BY <1>2 DEF Conflict, Refused, lockVars, WInv, TypeOK, AllReady, LockTypeOK,
                PlanReady, OnlyResumesDecide, graphVars, apiVars, gatewayVars
  <1>3. ASSUME NEW r \in Requests, ReviewRecorded(r) PROVE WInv'
    BY <1>3, CallKinds DEF ReviewRecorded, Reviewed, ReviewStatus, lockVars, bounds, WInv, TypeOK, AllReady,
                LockTypeOK, Phases, PlanReady, OnlyResumesDecide, gatewayVars, IncidentStatus
  <1>4. ASSUME NEW r \in Requests, InvokeRun(r) PROVE WInv'
    <2>1. TypeOK'
      BY <1>4, CheckpointFields DEF InvokeRun, lockVars, bounds, WInv, TypeOK, LockTypeOK,
                Phases, gatewayVars, apiVars, Nodes
    <2>2. AllReady'
      <3>1. saved.vals \in Channels
        BY <1>0, CheckpointFields DEF TypeOK
      <3>2. saved'.vals = saved.vals /\ saved'.next = "load_incident"
        BY <1>4, <3>1 DEF InvokeRun
      <3>3. \A q \in Requests : PlanReady(vals'[q], next'[q])
        BY <1>4, <1>0, <3>1 DEF InvokeRun, TypeOK, AllReady, PlanReady
      <3> QED BY <3>2, <3>3 DEF AllReady, PlanReady
    <2>3. OnlyResumesDecide'
      BY <1>4, CallKinds DEF InvokeRun, WInv, TypeOK, OnlyResumesDecide
    <2> QED BY <2>1, <2>2, <2>3 DEF WInv
  <1>5. ASSUME NEW r \in Requests, InvokeResume(r) PROVE WInv'
    <2>1. TypeOK'
      BY <1>5, CheckpointFields DEF InvokeResume, lockVars, bounds, WInv, TypeOK, LockTypeOK,
                Phases, gatewayVars, apiVars
    <2>2. AllReady'
      BY <1>5, CheckpointFields DEF InvokeResume, WInv, TypeOK, AllReady, PlanReady
    <2>3. OnlyResumesDecide'
      BY <1>5 DEF InvokeResume, WInv, TypeOK, OnlyResumesDecide
    <2> QED BY <2>1, <2>2, <2>3 DEF WInv
  <1>6. ASSUME NEW r \in Requests, ResumeUnstarted(r) PROVE WInv'
    <2>1. OutsideTypeOK' /\ LockTypeOK' /\ calls' \in 0 .. MaxCalls /\ faults' \in 0 .. MaxFaults
      BY <1>6, <1>0 DEF ResumeUnstarted, Release, Leave, OutsideTypeOK, LockTypeOK, TypeOK, apiVars,
                gatewayVars, bounds
    <2> QED BY <1>6, <2>1, AnswerKeeps DEF ResumeUnstarted
  <1>7. ASSUME NEW r \in Requests, LoadIncident(r) PROVE WInv'
    <2>1. OutsideTypeOK'
      BY <1>7, <1>0 DEF LoadIncident, OutsideTypeOK, apiVars, gatewayVars
    <2> DEFINE v == [vals[r] EXCEPT !.replans = 0]
    <2>2. v \in Channels /\ v.replans = 0
      BY <1>a, 0 \in 0 .. 2, SetReplans
    <2>3. PlanReady(v, "triage")
      BY <2>2 DEF PlanReady
    <2> QED BY <1>7, <2>1, <2>2, <2>3, WorkKeeps DEF LoadIncident, Nodes
  <1>8. ASSUME NEW r \in Requests, Triage(r) PROVE WInv'
    <2>1. OutsideTypeOK' /\ Work(r, "triage", vals[r], "evidence")
      BY <1>8, <1>0 DEF Triage, OutsideTypeOK, apiVars, gatewayVars
    <2>2. PlanReady(vals[r], "evidence")
      BY <2>1, <1>a DEF PlanReady, Work
    <2> QED BY <1>a, <2>1, <2>2, WorkKeeps DEF Nodes
  <1>9. ASSUME NEW r \in Requests, GatherEvidence(r) PROVE WInv'
    <2>1. OutsideTypeOK' /\ Work(r, "evidence", vals[r], "planner_agent")
      BY <1>9, <1>0 DEF GatherEvidence, OutsideTypeOK, apiVars, gatewayVars
    <2>2. PlanReady(vals[r], "planner_agent")
      BY <2>1, <1>a DEF PlanReady, Work
    <2> QED BY <1>a, <2>1, <2>2, WorkKeeps DEF Nodes
  <1>10. ASSUME NEW r \in Requests, PlannerAgent(r) PROVE WInv'
    <2>1. PICK answer \in PlannerAnswers :
              /\ Work(r, "planner_agent", [vals[r] EXCEPT !.action = WithGuardrail(answer)],
                      "critic_agent")
              /\ status' = AnalysisStatus(WithGuardrail(answer))
              /\ UNCHANGED <<approval, approvers, gatewayVars>>
      BY <1>10 DEF PlannerAgent
    <2> DEFINE a == WithGuardrail(answer)
    <2>2. a \in Plan \cup {None}
      BY DEF PlannerAnswers, WithGuardrail
    <2>3. OutsideTypeOK'
      BY <2>1, <1>0 DEF OutsideTypeOK, gatewayVars, AnalysisStatus, IncidentStatus
    <2> DEFINE v == [vals[r] EXCEPT !.action = a]
    <2>4. v \in Channels /\ v.replans = vals[r].replans
      BY <1>a, <2>2, SetAction
    <2>5. PlanReady(v, "critic_agent")
      BY <1>a, <2>1, <2>4 DEF PlanReady, Work
    <2> QED BY <2>1, <2>3, <2>4, <2>5, WorkKeeps DEF Nodes
  <1>11. ASSUME NEW r \in Requests, CriticAgent(r) PROVE WInv'
    <2>1. PICK verdict \in CriticAnswers(vals[r].action), count \in {vals[r].replans, vals[r].replans + 1} :
              Work(r, "critic_agent", [vals[r] EXCEPT !.replans = count], RouteAfterCritic(verdict, count))
      BY <1>11 DEF CriticAgent
    <2>2. OutsideTypeOK'
      BY <1>11, <1>0 DEF CriticAgent, OutsideTypeOK, apiVars, gatewayVars
    <2>3. vals[r].replans \in 0 .. 2 /\ vals[r].replans <= 1
      <3>1. vals[r].replans \in 0 .. 2
        BY <1>a, ChannelFields
      <3>2. next[r] = "critic_agent"
        BY <2>1 DEF Work
      <3>3. vals[r].replans <= 1
        BY <1>a, <3>2 DEF PlanReady
      <3> QED BY <3>1, <3>3
    <2>4. count \in 0 .. 2
      BY <2>3
    <2> DEFINE v == [vals[r] EXCEPT !.replans = count]
    <2>5. v \in Channels /\ v.replans = count
      BY <1>a, <2>4, SetReplans
    <2> HIDE DEF v
    <2>6. RouteAfterCritic(verdict, count) \in Nodes /\ PlanReady(v, RouteAfterCritic(verdict, count))
      BY <2>4, <2>5 DEF PlanReady, RouteAfterCritic, Nodes
    <2> QED BY <2>1, <2>2, <2>5, <2>6, WorkKeeps DEF v
  <1>12. ASSUME NEW r \in Requests, PolicyAgent(r) PROVE WInv'
    <2>1. PICK decision \in PolicyAnswers(vals[r].action) :
              Work(r, "policy_agent", vals[r], RouteAfterPolicy(vals[r].action, decision))
      BY <1>12 DEF PolicyAgent
    <2>2. OutsideTypeOK'
      BY <1>12, <1>0 DEF PolicyAgent, OutsideTypeOK, apiVars, gatewayVars
    <2>3. PlanReady(vals[r], RouteAfterPolicy(vals[r].action, decision))
          /\ RouteAfterPolicy(vals[r].action, decision) \in Nodes
      BY DEF PlanReady, RouteAfterPolicy, Nodes
    <2> QED BY <1>a, <2>1, <2>2, <2>3, WorkKeeps
  <1>13. ASSUME NEW r \in Requests, ApprovalGate(r) PROVE WInv'
    <2>1. PICK answer \in {"approved", "rejected"} :
              Work(r, "approval_gate",
                   [vals[r] EXCEPT !.approval = answer, !.reviewer = call[r].reviewer],
                   RouteAfterApproval(answer))
      BY <1>13 DEF ApprovalGate
    <2> DEFINE v == [vals[r] EXCEPT !.approval = answer, !.reviewer = call[r].reviewer]
    <2>2. OutsideTypeOK'
      BY <1>13, <1>0 DEF ApprovalGate, OutsideTypeOK, apiVars, gatewayVars
    <2>3. call[r].reviewer \in Reviewers
      BY <1>13, <1>0, CallKinds DEF ApprovalGate, OnlyResumesDecide
    <2>4. v \in Channels /\ v.action = vals[r].action
      BY <1>a, <2>3, ChannelFields DEF Channels
    <2>5. PlanReady(v, RouteAfterApproval(answer)) /\ RouteAfterApproval(answer) \in Nodes
      BY <1>a, <2>1, <2>4 DEF PlanReady, RouteAfterApproval, Work, Nodes
    <2> QED BY <2>1, <2>2, <2>4, <2>5, WorkKeeps
  <1>14. ASSUME NEW r \in Requests, Interrupt(r) PROVE WInv'
    <2>1. saved' \in Checkpoint /\ saved'.vals = saved.vals /\ saved'.next = saved.next
      BY <1>14, <1>0, CheckpointFields DEF Interrupt, TypeOK
    <2>2. TypeOK'
      BY <1>14, <1>0, <2>1 DEF Interrupt, TypeOK, LockTypeOK, Phases, lockVars, apiVars,
                gatewayVars, bounds
    <2>3. AllReady' /\ OnlyResumesDecide'
      BY <1>14, <1>0, <2>1 DEF Interrupt, TypeOK, AllReady, PlanReady, OnlyResumesDecide
    <2> QED BY <2>2, <2>3 DEF WInv
  <1>15. ASSUME NEW r \in Requests, RollbackAction(r) PROVE WInv'
    <2> DEFINE p == vals[r].action
               by == Requester(vals[r])
               got == ReceiptFor(p, by)
               h == [target |-> got.target, executor |-> got.executor,
                     revision |-> got.revision, verification |-> "pending"]
    <2>1. Work(r, "rollback_action", [vals[r] EXCEPT !.receipt = h], "verify_recovery")
          /\ Rollback(p, by) /\ UNCHANGED <<late, apiVars>>
      BY <1>15 DEF RollbackAction
    <2>2. p \in Plan /\ by \in Reviewers \cup {System}
      BY <1>a, <2>1, ChannelFields DEF PlanReady, Work, Requester
    <2>3. p.target \in Targets /\ got \in Receipt /\ h \in HeldReceipt
      BY <2>2, ReceiptType
    <2>4. OutsideTypeOK'
      BY <1>0, <2>1, <2>3 DEF OutsideTypeOK, Rollback, apiVars
    <2>5. [vals[r] EXCEPT !.receipt = h] \in Channels
          /\ PlanReady([vals[r] EXCEPT !.receipt = h], "verify_recovery")
      BY <1>a, <2>3, SetReceipt DEF PlanReady
    <2> QED BY <2>1, <2>4, <2>5, WorkKeeps DEF Nodes
  <1>16. ASSUME NEW r \in Requests, VerifyRecovery(r) PROVE WInv'
    <2> DEFINE h == IF vals[r].receipt = None THEN None
                    ELSE [vals[r].receipt EXCEPT !.verification = Verify]
               v == [vals[r] EXCEPT !.verified = Verify, !.receipt = h]
    <2>1. OutsideTypeOK' /\ Work(r, "verify_recovery", v, "finalize_report")
      BY <1>16, <1>0 DEF VerifyRecovery, OutsideTypeOK, apiVars, gatewayVars
    <2>2. Verify \in Verdicts
      BY DEF Verify, Verdicts
    <2>3. h \in HeldReceipt \cup {None}
      <3>1. \A x \in HeldReceipt, d \in Verdicts : [x EXCEPT !.verification = d] \in HeldReceipt
        BY DEF HeldReceipt
      <3> QED BY <1>a, <2>2, <3>1, ChannelFields
    <2>4. v \in Channels /\ PlanReady(v, "finalize_report")
      BY <1>a, <2>2, <2>3, SetVerified DEF PlanReady
    <2> QED BY <2>1, <2>4, WorkKeeps DEF Nodes
  <1>17. ASSUME NEW r \in Requests, FinalizeReport(r) PROVE WInv'
    <2> DEFINE v == [vals[r] EXCEPT !.report = TRUE]
    <2>1. OutsideTypeOK' /\ Work(r, "finalize_report", v, End)
      BY <1>17, <1>0 DEF FinalizeReport, OutsideTypeOK, gatewayVars, ReportStatus, IncidentStatus
    <2>2. v \in Channels /\ PlanReady(v, End)
      BY <1>a, SetReport DEF PlanReady, End
    <2> QED BY <2>1, <2>2, WorkKeeps
  <1>18. ASSUME NEW r \in Requests, Commit(r) PROVE WInv'
    <2>1. saved' \in Checkpoint /\ saved'.vals = vals[r] /\ saved'.next = next[r]
      BY <1>18, <1>0, <1>a, CheckpointFields DEF Commit, TypeOK
    <2>2. TypeOK'
      BY <1>18, <1>0, <2>1 DEF Commit, TypeOK, LockTypeOK, Phases, lockVars, apiVars,
                gatewayVars, bounds
    <2>3. AllReady' /\ OnlyResumesDecide'
      BY <1>18, <1>0, <2>1 DEF Commit, TypeOK, AllReady, PlanReady, OnlyResumesDecide
    <2> QED BY <2>2, <2>3 DEF WInv
  <1>19. ASSUME NEW r \in Requests, Respond(r) PROVE WInv'
    <2>1. OutsideTypeOK' /\ LockTypeOK' /\ calls' \in 0 .. MaxCalls /\ faults' \in 0 .. MaxFaults
      BY <1>19, <1>0 DEF Respond, Release, Leave, OutsideTypeOK, LockTypeOK, TypeOK, apiVars,
                gatewayVars, bounds
    <2>2. DetermineStatus(saved.vals, saved.paused \/ next[r] = "approval_gate") \in RunStatus
      BY DEF DetermineStatus, RunStatus
    <2> QED BY <1>19, <2>1, <2>2, AnswerKeeps DEF Respond
  <1>20. ASSUME NEW r \in Requests, CallFails(r) PROVE WInv'
    <2>1. OutsideTypeOK' /\ LockTypeOK' /\ calls' \in 0 .. MaxCalls /\ faults' \in 0 .. MaxFaults
      BY <1>20, <1>0 DEF CallFails, Release, ReleaseFails, Leave, OutsideTypeOK, LockTypeOK, TypeOK,
                apiVars, gatewayVars
    <2> QED BY <1>20, <2>1, AnswerKeeps DEF CallFails
  <1>21. ASSUME NEW r \in Requests, RollbackTimesOut(r) PROVE WInv'
    <2>1. vals[r].action \in Plan /\ Requester(vals[r]) \in Reviewers \cup {System}
      BY <1>21, <1>a, ChannelFields DEF RollbackTimesOut, PlanReady, Requester
    <2>2. OutsideTypeOK' /\ LockTypeOK' /\ calls' \in 0 .. MaxCalls /\ faults' \in 0 .. MaxFaults
      BY <1>21, <1>0, <2>1 DEF RollbackTimesOut, Release, Leave, OutsideTypeOK, LockTypeOK, TypeOK, apiVars
    <2> QED BY <1>21, <2>2, AnswerKeeps DEF RollbackTimesOut
  <1>22. ASSUME NEW r \in Requests, LockReplyLost(r) PROVE WInv'
    BY <1>22, <1>0 DEF LockReplyLost, AcquireReplyLost, WInv, TypeOK, AllReady, LockTypeOK,
                PlanReady, OnlyResumesDecide, graphVars, apiVars, gatewayVars
  <1>23. ASSUME NEW x \in late, LateRollback(x[1], x[2]) PROVE WInv'
    <2>1. x[1] \in Plan /\ x[2] \in Reviewers \cup {System}
      BY <1>0 DEF TypeOK
    <2>2. x[1].target \in Targets /\ ReceiptFor(x[1], x[2]) \in Receipt
      BY <2>1, ReceiptType
    <2>3. OutsideTypeOK'
      BY <1>23, <1>0, <2>2 DEF LateRollback, Rollback, OutsideTypeOK, apiVars
    <2> QED BY <1>23, <1>0, <2>3 DEF LateRollback, WInv, TypeOK, OutsideTypeOK, AllReady, LockTypeOK,
                PlanReady, OnlyResumesDecide, lockVars, graphVars, bounds
  <1>24. CASE LockExpires
    BY <1>24, <1>0 DEF LockExpires, Expire, WInv, TypeOK, AllReady, LockTypeOK,
                PlanReady, OnlyResumesDecide, graphVars, apiVars, gatewayVars, bounds
  <1>25. CASE OrchestratorRestarts
    <2>1. saved' \in Checkpoint /\ PlanReady(saved'.vals, saved'.next)
      BY <1>25, <1>0, CheckpointFields
      DEF OrchestratorRestarts, TypeOK, AllReady, PlanReady, Unstarted, NewThread
    <2>2. TypeOK'
      BY <1>25, <1>0, <2>1, NewThreadType DEF OrchestratorRestarts, ProcessDies, Leave, TypeOK, LockTypeOK,
                Phases, apiVars, gatewayVars
    <2>3. AllReady' /\ OnlyResumesDecide'
      BY <1>25, <1>0, <2>1 DEF OrchestratorRestarts, AllReady, PlanReady, OnlyResumesDecide,
                NewThread, End
    <2> QED BY <2>2, <2>3 DEF WInv
  <1>26. CASE GatewayRestarts
    BY <1>26, <1>0 DEF GatewayRestarts, WInv, TypeOK, AllReady, LockTypeOK,
                PlanReady, OnlyResumesDecide, lockVars, graphVars, apiVars
  <1>27. ASSUME NEW ok \in BOOLEAN, NEW reviewer \in Reviewers, DirectReview(ok, reviewer)
         PROVE WInv'
    BY <1>27, <1>0 DEF DirectReview, Reviewed, ReviewStatus, WInv, TypeOK, AllReady, LockTypeOK, IncidentStatus,
                PlanReady, OnlyResumesDecide, lockVars, graphVars, gatewayVars
  <1>28. CASE UNCHANGED vars
    BY <1>28, <1>0 DEF vars, WInv, TypeOK, AllReady, LockTypeOK, PlanReady, OnlyResumesDecide,
                lockVars, graphVars, apiVars, gatewayVars, bounds
  <1> QED
    BY <1>1, <1>2, <1>3, <1>4, <1>5, <1>6, <1>7, <1>8, <1>9, <1>10, <1>11, <1>12, <1>13, <1>14,
       <1>15, <1>16, <1>17, <1>18, <1>19, <1>20, <1>21, <1>22, <1>23, <1>24, <1>25, <1>26, <1>27,
       <1>28
    DEF Next, Progress, Node

THEOREM WorkflowInv == Spec => []WInv
  BY InitWInv, StepWInv, PTL DEF Spec

(* Type correctness, and with it the bound on replans: replans is at most  *)
(* 2 although every planner and critic answer is arbitrary.                *)
THEOREM WorkflowTypeCorrect == Spec => []TypeOK
  BY WorkflowInv, PTL DEF WInv

---------------------------------------------------------------------------
(* The approval invariant, with the rules reasoner.                        *)
LEMMA InitApproval == Init => ApprovalInv
  <1> SUFFICES ASSUME Init PROVE ApprovalInv
    OBVIOUS
  <1>1. NewThread.action = None
    BY DEF NewThread
  <1>2. AllCleared
    BY <1>1 DEF Init, AllCleared, Cleared, Unstarted, End
  <1>3. DecisionRecorded
    BY DEF Init, DecisionRecorded
  <1>4. LateApproved /\ ExecutorApproved /\ RollbackNeedsApproval
    BY DEF Init, LateApproved, ExecutorApproved, RollbackNeedsApproval
  <1> QED BY <1>2, <1>3, <1>4 DEF ApprovalInv

(* The parts that speak of ops-gateway.                                    *)
GatewayApproved == LateApproved /\ ExecutorApproved /\ RollbackNeedsApproval

LEMMA GatewayKeeps ==
    ASSUME GatewayApproved, approvers \subseteq approvers', UNCHANGED gatewayVars
    PROVE  GatewayApproved'
  BY DEF GatewayApproved, LateApproved, ExecutorApproved, RollbackNeedsApproval, gatewayVars

(* A rollback asked for by somebody who approved.                          *)
LEMMA RollbackKeeps ==
    ASSUME WInv, GatewayApproved, approvers' = approvers, late' \subseteq late,
           NEW p \in Plan, NEW by \in approvers, Rollback(p, by)
    PROVE  GatewayApproved'
  <1>1. p.target \in Targets
    BY DEF Plan
  <1>2. ReceiptFor(p, by).executor \in approvers
    BY <1>1 DEF ReceiptFor, GatewayApproved, ExecutorApproved
  <1>3. ExecutorApproved'
    BY <1>1, <1>2 DEF WInv, TypeOK, Rollback, GatewayApproved, ExecutorApproved
  <1>4. LateApproved' /\ RollbackNeedsApproval'
    BY DEF GatewayApproved, LateApproved, RollbackNeedsApproval
  <1> QED BY <1>3, <1>4 DEF GatewayApproved

LEMMA WorkClears ==
    ASSUME WInv, ApprovalInv, approvers' = approvers, GatewayApproved',
           NEW r \in Requests, NEW n, NEW v, NEW m, Work(r, n, v, m), Cleared(v, m)
    PROVE  ApprovalInv'
  <1>1. AllCleared'
    BY DEF WInv, TypeOK, ApprovalInv, AllCleared, Cleared, Work
  <1>2. DecisionRecorded'
    BY DEF WInv, TypeOK, ApprovalInv, DecisionRecorded, Work
  <1> QED BY <1>1, <1>2 DEF ApprovalInv, GatewayApproved

LEMMA AnswerClears ==
    ASSUME WInv, ApprovalInv, approvers' = approvers, GatewayApproved', saved' = saved,
           NEW r \in Requests, NEW s, Answer(r, s)
    PROVE  ApprovalInv'
  <1>1. AllCleared'
    BY DEF WInv, TypeOK, ApprovalInv, AllCleared, Cleared, Answer, NewThread, End
  <1>2. DecisionRecorded'
    BY CallKinds DEF WInv, TypeOK, OnlyResumesDecide, ApprovalInv, DecisionRecorded, Answer
  <1> QED BY <1>1, <1>2 DEF ApprovalInv, GatewayApproved

(* The requester of a cleared rollback has approved.                       *)
LEMMA RequesterApproved ==
    ASSUME WInv, NEW v \in Channels, Cleared(v, "rollback_action")
    PROVE  Requester(v) \in approvers
  BY PlanAssumption DEF WInv, TypeOK, Cleared, Requester

(* With the rules a plan never gets past the gate without a person.        *)
LEMMA RulesNeverAllow ==
    ASSUME Rules, NEW a \in {None, Diagnosis}, NEW decision \in PolicyAnswers(a)
    PROVE  RouteAfterPolicy(a, decision) # "rollback_action"
  <1>1. CASE a = None
    BY <1>1 DEF RouteAfterPolicy
  <1>2. CASE a # None
    BY <1>2, PlanAssumption DEF RouteAfterPolicy, PolicyAnswers, RulePolicy
  <1> QED BY <1>1, <1>2

LEMMA StepApproval ==
    ASSUME Rules, WInv, ApprovalInv, [Next]_vars
    PROVE  ApprovalInv'
  <1>0. /\ TypeOK /\ OnlyResumesDecide /\ AllCleared /\ DecisionRecorded /\ GatewayApproved
        /\ \A r \in Requests : vals[r] \in Channels /\ Cleared(vals[r], next[r])
    BY DEF WInv, TypeOK, ApprovalInv, AllCleared, GatewayApproved
  <1>a. ASSUME AllCleared', DecisionRecorded', GatewayApproved' PROVE ApprovalInv'
    BY <1>a DEF ApprovalInv, GatewayApproved
  <1>1. ASSUME NEW r \in Requests, NEW c \in {RunCall} \cup ResumeCalls, Accept(r, c)
        PROVE  ApprovalInv'
    <2>1. AllCleared' /\ DecisionRecorded'
      BY <1>0, <1>1 DEF Accept, TypeOK, AllCleared, Cleared, DecisionRecorded, OnlyResumesDecide, apiVars
    <2>2. GatewayApproved'
      BY <1>0, <1>1, GatewayKeeps DEF Accept, apiVars
    <2> QED BY <1>a, <2>1, <2>2
  <1>2. ASSUME NEW r \in Requests, Conflict(r) PROVE ApprovalInv'
    <2>1. AllCleared' /\ DecisionRecorded'
      BY <1>0, <1>2 DEF Conflict, AllCleared, Cleared, DecisionRecorded, graphVars, apiVars
    <2>2. GatewayApproved'
      BY <1>0, <1>2, GatewayKeeps DEF Conflict, apiVars
    <2> QED BY <1>a, <2>1, <2>2
  <1>3. ASSUME NEW r \in Requests, ReviewRecorded(r) PROVE ApprovalInv'
    <2>1. AllCleared'
      BY <1>0, <1>3 DEF ReviewRecorded, Reviewed, ReviewStatus, AllCleared, Cleared
    <2>2. DecisionRecorded'
      BY <1>0, <1>3 DEF ReviewRecorded, Reviewed, ReviewStatus, TypeOK, DecisionRecorded
    <2>3. GatewayApproved'
      BY <1>0, <1>3, GatewayKeeps DEF ReviewRecorded, Reviewed, ReviewStatus
    <2> QED BY <1>a, <2>1, <2>2, <2>3
  <1>4. ASSUME NEW r \in Requests, InvokeRun(r) PROVE ApprovalInv'
    <2>1. AllCleared'
      <3>1. saved'.vals = saved.vals /\ saved'.next = "load_incident"
        BY <1>4 DEF InvokeRun
      <3> QED BY <1>0, <1>4, <3>1 DEF InvokeRun, TypeOK, AllCleared, Cleared, apiVars
    <2>2. DecisionRecorded'
      BY <1>0, <1>4, CallKinds DEF InvokeRun, TypeOK, DecisionRecorded, apiVars
    <2>3. GatewayApproved'
      BY <1>0, <1>4, GatewayKeeps DEF InvokeRun, apiVars
    <2> QED BY <1>a, <2>1, <2>2, <2>3
  <1>5. ASSUME NEW r \in Requests, InvokeResume(r) PROVE ApprovalInv'
    <2>1. AllCleared' /\ DecisionRecorded'
      BY <1>0, <1>5 DEF InvokeResume, TypeOK, AllCleared, Cleared, DecisionRecorded, apiVars
    <2>2. GatewayApproved'
      BY <1>0, <1>5, GatewayKeeps DEF InvokeResume, apiVars
    <2> QED BY <1>a, <2>1, <2>2
  <1>6. ASSUME NEW r \in Requests, ResumeUnstarted(r) PROVE ApprovalInv'
    <2>1. GatewayApproved' /\ approvers' = approvers
      BY <1>0, <1>6, GatewayKeeps DEF ResumeUnstarted, apiVars
    <2> QED BY <1>6, <2>1, AnswerClears DEF ResumeUnstarted
  <1>7. ASSUME NEW r \in Requests, LoadIncident(r) PROVE ApprovalInv'
    <2> DEFINE v == [vals[r] EXCEPT !.replans = 0]
    <2>1. GatewayApproved' /\ approvers' = approvers
      BY <1>0, <1>7, GatewayKeeps DEF LoadIncident, apiVars
    <2>2. v.action = vals[r].action
      BY <1>0, 0 \in 0 .. 2, SetReplans
    <2>3. Cleared(v, "triage")
      BY <1>0, <2>2 DEF Cleared
    <2> QED BY <1>7, <2>1, <2>3, WorkClears DEF LoadIncident
  <1>8. ASSUME NEW r \in Requests, Triage(r) PROVE ApprovalInv'
    <2>1. GatewayApproved' /\ approvers' = approvers
      BY <1>0, <1>8, GatewayKeeps DEF Triage, apiVars
    <2>2. Cleared(vals[r], "evidence")
      BY <1>0 DEF Cleared
    <2> QED BY <1>8, <2>1, <2>2, WorkClears DEF Triage
  <1>9. ASSUME NEW r \in Requests, GatherEvidence(r) PROVE ApprovalInv'
    <2>1. GatewayApproved' /\ approvers' = approvers
      BY <1>0, <1>9, GatewayKeeps DEF GatherEvidence, apiVars
    <2>2. Cleared(vals[r], "planner_agent")
      BY <1>0 DEF Cleared
    <2> QED BY <1>9, <2>1, <2>2, WorkClears DEF GatherEvidence
  <1>10. ASSUME NEW r \in Requests, PlannerAgent(r) PROVE ApprovalInv'
    <2>1. PICK answer \in PlannerAnswers :
              Work(r, "planner_agent", [vals[r] EXCEPT !.action = WithGuardrail(answer)],
                   "critic_agent")
      BY <1>10 DEF PlannerAgent
    <2> DEFINE a == WithGuardrail(answer)
               v == [vals[r] EXCEPT !.action = a]
    <2>2. a \in {None, Diagnosis}
      BY DEF PlannerAnswers, WithGuardrail
    <2>3. v.action = a
      BY <1>0, <2>2, SetAction, PlanAssumption
    <2>4. Cleared(v, "critic_agent")
      BY <2>2, <2>3 DEF Cleared
    <2>5. GatewayApproved' /\ approvers' = approvers
      BY <1>0, <1>10, GatewayKeeps DEF PlannerAgent
    <2> QED BY <2>1, <2>4, <2>5, WorkClears
  <1>11. ASSUME NEW r \in Requests, CriticAgent(r) PROVE ApprovalInv'
    <2>1. PICK verdict \in CriticAnswers(vals[r].action), count \in {vals[r].replans, vals[r].replans + 1} :
              Work(r, "critic_agent", [vals[r] EXCEPT !.replans = count], RouteAfterCritic(verdict, count))
      BY <1>11 DEF CriticAgent
    <2> DEFINE v == [vals[r] EXCEPT !.replans = count]
    <2>2. v.action = vals[r].action
      BY <1>0 DEF Channels
    <2>3. Cleared(v, RouteAfterCritic(verdict, count))
      BY <1>0, <2>2 DEF Cleared, RouteAfterCritic
    <2>4. GatewayApproved' /\ approvers' = approvers
      BY <1>0, <1>11, GatewayKeeps DEF CriticAgent, apiVars
    <2> QED BY <2>1, <2>3, <2>4, WorkClears
  <1>12. ASSUME NEW r \in Requests, PolicyAgent(r) PROVE ApprovalInv'
    <2>1. PICK decision \in PolicyAnswers(vals[r].action) :
              Work(r, "policy_agent", vals[r], RouteAfterPolicy(vals[r].action, decision))
      BY <1>12 DEF PolicyAgent
    <2>2. vals[r].action \in {None, Diagnosis}
      BY <1>0 DEF Cleared
    <2>3. Cleared(vals[r], RouteAfterPolicy(vals[r].action, decision))
      BY <2>2, RulesNeverAllow DEF Cleared
    <2>4. GatewayApproved' /\ approvers' = approvers
      BY <1>0, <1>12, GatewayKeeps DEF PolicyAgent, apiVars
    <2> QED BY <2>1, <2>3, <2>4, WorkClears
  <1>13. ASSUME NEW r \in Requests, ApprovalGate(r) PROVE ApprovalInv'
    <2> DEFINE answer == IF call[r].approved THEN "approved" ELSE "rejected"
               v == [vals[r] EXCEPT !.approval = answer, !.reviewer = call[r].reviewer]
    <2>1. Work(r, "approval_gate", v, RouteAfterApproval(answer))
      BY <1>13 DEF ApprovalGate
    <2>2. v.action = vals[r].action /\ v.reviewer = call[r].reviewer
      BY <1>0 DEF Channels
    <2>3. call[r].approved => call[r].reviewer \in approvers
      BY <1>0, <1>13 DEF ApprovalGate, DecisionRecorded
    <2>4. Cleared(v, RouteAfterApproval(answer))
      BY <1>0, <2>2, <2>3 DEF Cleared, RouteAfterApproval
    <2>5. GatewayApproved' /\ approvers' = approvers
      BY <1>0, <1>13, GatewayKeeps DEF ApprovalGate, apiVars
    <2> QED BY <2>1, <2>4, <2>5, WorkClears
  <1>14. ASSUME NEW r \in Requests, Interrupt(r) PROVE ApprovalInv'
    <2>1. saved'.vals = saved.vals /\ saved'.next = saved.next
      BY <1>0, <1>14, CheckpointFields DEF Interrupt, TypeOK
    <2>2. AllCleared' /\ DecisionRecorded'
      BY <1>0, <1>14, <2>1 DEF Interrupt, TypeOK, AllCleared, Cleared, DecisionRecorded, apiVars
    <2>3. GatewayApproved'
      BY <1>0, <1>14, GatewayKeeps DEF Interrupt, apiVars
    <2> QED BY <1>a, <2>2, <2>3
  <1>15. ASSUME NEW r \in Requests, RollbackAction(r) PROVE ApprovalInv'
    <2> DEFINE p == vals[r].action
               by == Requester(vals[r])
               got == ReceiptFor(p, by)
               v == [vals[r] EXCEPT !.receipt =
                       [target |-> got.target, executor |-> got.executor,
                        revision |-> got.revision, verification |-> "pending"]]
    <2>1. Work(r, "rollback_action", v, "verify_recovery") /\ Rollback(p, by)
          /\ UNCHANGED <<late, apiVars>>
      BY <1>15 DEF RollbackAction
    <2>2. by \in approvers
      BY <1>0, <2>1, RequesterApproved DEF Work
    <2>3. p \in Plan
      BY <1>0, <2>1, ChannelFields DEF WInv, AllReady, PlanReady, Work
    <2>4. GatewayApproved' /\ approvers' = approvers
      BY <1>0, <2>1, <2>2, <2>3, RollbackKeeps DEF apiVars
    <2>5. v.action = vals[r].action
      BY <1>0 DEF Channels
    <2>6. Cleared(v, "verify_recovery")
      BY <1>0, <2>5 DEF Cleared
    <2> QED BY <2>1, <2>4, <2>6, WorkClears
  <1>16. ASSUME NEW r \in Requests, VerifyRecovery(r) PROVE ApprovalInv'
    <2> DEFINE h == IF vals[r].receipt = None THEN None
                    ELSE [vals[r].receipt EXCEPT !.verification = Verify]
               v == [vals[r] EXCEPT !.verified = Verify, !.receipt = h]
    <2>1. Work(r, "verify_recovery", v, "finalize_report")
      BY <1>16 DEF VerifyRecovery
    <2>2. v.action = vals[r].action
      BY <1>0 DEF Channels
    <2>3. Cleared(v, "finalize_report")
      BY <1>0, <2>2 DEF Cleared
    <2>4. GatewayApproved' /\ approvers' = approvers
      BY <1>0, <1>16, GatewayKeeps DEF VerifyRecovery, apiVars
    <2> QED BY <2>1, <2>3, <2>4, WorkClears
  <1>17. ASSUME NEW r \in Requests, FinalizeReport(r) PROVE ApprovalInv'
    <2> DEFINE v == [vals[r] EXCEPT !.report = TRUE]
    <2>1. Work(r, "finalize_report", v, End)
      BY <1>17 DEF FinalizeReport
    <2>2. v.action = vals[r].action
      BY <1>0, SetReport
    <2>3. Cleared(v, End)
      BY <1>0, <2>2 DEF Cleared, End
    <2>4. GatewayApproved' /\ approvers' = approvers
      BY <1>0, <1>17, GatewayKeeps DEF FinalizeReport
    <2> QED BY <2>1, <2>3, <2>4, WorkClears
  <1>18. ASSUME NEW r \in Requests, Commit(r) PROVE ApprovalInv'
    <2>1. saved'.vals = vals[r] /\ saved'.next = next[r]
      BY <1>18 DEF Commit
    <2>2. AllCleared' /\ DecisionRecorded'
      BY <1>0, <1>18, <2>1 DEF Commit, TypeOK, AllCleared, Cleared, DecisionRecorded, apiVars
    <2>3. GatewayApproved'
      BY <1>0, <1>18, GatewayKeeps DEF Commit, apiVars
    <2> QED BY <1>a, <2>2, <2>3
  <1>19. ASSUME NEW r \in Requests, Respond(r) PROVE ApprovalInv'
    <2>1. GatewayApproved' /\ approvers' = approvers
      BY <1>0, <1>19, GatewayKeeps DEF Respond, apiVars
    <2> QED BY <1>19, <2>1, AnswerClears DEF Respond
  <1>20. ASSUME NEW r \in Requests, CallFails(r) PROVE ApprovalInv'
    <2>1. GatewayApproved' /\ approvers' = approvers
      BY <1>0, <1>20, GatewayKeeps DEF CallFails, apiVars
    <2> QED BY <1>20, <2>1, AnswerClears DEF CallFails
  <1>21. ASSUME NEW r \in Requests, RollbackTimesOut(r) PROVE ApprovalInv'
    <2>1. Requester(vals[r]) \in approvers
      BY <1>0, <1>21, RequesterApproved DEF RollbackTimesOut
    <2>2. GatewayApproved' /\ approvers' = approvers
      BY <1>0, <1>21, <2>1
      DEF RollbackTimesOut, GatewayApproved, LateApproved, ExecutorApproved, RollbackNeedsApproval,
          apiVars
    <2> QED BY <1>21, <2>2, AnswerClears DEF RollbackTimesOut
  <1>22. ASSUME NEW r \in Requests, LockReplyLost(r) PROVE ApprovalInv'
    <2>1. AllCleared' /\ DecisionRecorded'
      BY <1>0, <1>22 DEF LockReplyLost, AllCleared, Cleared, DecisionRecorded, graphVars, apiVars
    <2>2. GatewayApproved'
      BY <1>0, <1>22, GatewayKeeps DEF LockReplyLost, apiVars
    <2> QED BY <1>a, <2>1, <2>2
  <1>23. ASSUME NEW x \in late, LateRollback(x[1], x[2]) PROVE ApprovalInv'
    <2>1. x[1] \in Plan /\ x[2] \in approvers
      BY <1>0 DEF TypeOK, GatewayApproved, LateApproved
    <2>2. Rollback(x[1], x[2]) /\ late' \subseteq late /\ approvers' = approvers
      BY <1>23 DEF LateRollback, apiVars
    <2>3. GatewayApproved'
      BY <1>0, <2>1, <2>2, RollbackKeeps
    <2>4. AllCleared' /\ DecisionRecorded'
      BY <1>0, <1>23 DEF LateRollback, AllCleared, Cleared, DecisionRecorded, graphVars, apiVars
    <2> QED BY <1>a, <2>3, <2>4
  <1>24. CASE LockExpires
    <2>1. AllCleared' /\ DecisionRecorded'
      BY <1>0, <1>24 DEF LockExpires, AllCleared, Cleared, DecisionRecorded, graphVars, apiVars
    <2>2. GatewayApproved'
      BY <1>0, <1>24, GatewayKeeps DEF LockExpires, apiVars
    <2> QED BY <1>a, <2>1, <2>2
  <1>25. CASE OrchestratorRestarts
    <2>1. AllCleared' /\ DecisionRecorded'
      BY <1>0, <1>25 DEF OrchestratorRestarts, AllCleared, Cleared, DecisionRecorded, OnlyResumesDecide,
                Unstarted, NewThread, End, apiVars
    <2>2. GatewayApproved'
      BY <1>0, <1>25, GatewayKeeps DEF OrchestratorRestarts, apiVars
    <2> QED BY <1>a, <2>1, <2>2
  <1>26. CASE GatewayRestarts
    <2>1. AllCleared' /\ DecisionRecorded'
      BY <1>0, <1>26 DEF GatewayRestarts, AllCleared, Cleared, DecisionRecorded, graphVars, apiVars
    <2>2. GatewayApproved'
      BY <1>0, <1>26 DEF GatewayRestarts, GatewayApproved, LateApproved, ExecutorApproved,
                RollbackNeedsApproval, apiVars
    <2> QED BY <1>a, <2>1, <2>2
  <1>27. ASSUME NEW ok \in BOOLEAN, NEW reviewer \in Reviewers, DirectReview(ok, reviewer)
         PROVE ApprovalInv'
    <2>1. AllCleared' /\ DecisionRecorded'
      BY <1>0, <1>27 DEF DirectReview, Reviewed, ReviewStatus, AllCleared, Cleared, DecisionRecorded, graphVars
    <2>2. GatewayApproved'
      BY <1>0, <1>27, GatewayKeeps DEF DirectReview, Reviewed, ReviewStatus
    <2> QED BY <1>a, <2>1, <2>2
  <1>28. CASE UNCHANGED vars
    BY <1>28 DEF vars, ApprovalInv, AllCleared, Cleared, DecisionRecorded, LateApproved,
         ExecutorApproved, RollbackNeedsApproval, graphVars, apiVars, gatewayVars
  <1> QED
    BY <1>1, <1>2, <1>3, <1>4, <1>5, <1>6, <1>7, <1>8, <1>9, <1>10, <1>11, <1>12, <1>13, <1>14,
       <1>15, <1>16, <1>17, <1>18, <1>19, <1>20, <1>21, <1>22, <1>23, <1>24, <1>25, <1>26, <1>27,
       <1>28
    DEF Next, Progress, Node

LEMMA ApprovalAlways == ASSUME Rules PROVE Spec => []ApprovalInv
  <1>1. WInv /\ ApprovalInv /\ [Next]_vars => ApprovalInv'
    BY StepApproval
  <1> QED BY <1>1, InitApproval, WorkflowInv, PTL DEF Spec

(* With the rules reasoner nothing is rolled back before a person has      *)
(* approved, whatever fails, restarts, expires or runs concurrently, with  *)
(* or without the run lock (policy_agent, approval_gate).                  *)
THEOREM NoRollbackWithoutApproval == ASSUME Rules PROVE Spec => []RollbackNeedsApproval
  <1>1. ApprovalInv => RollbackNeedsApproval
    BY DEF ApprovalInv
  <1> QED BY <1>1, ApprovalAlways, PTL

(* With the rules reasoner every receipt names a person who approved       *)
(* (approval_gate, rollback_action).                                       *)
THEOREM ReceiptsNameAnApprover == ASSUME Rules PROVE Spec => []ExecutorApproved
  <1>1. ApprovalInv => ExecutorApproved
    BY DEF ApprovalInv
  <1> QED BY <1>1, ApprovalAlways, PTL

---------------------------------------------------------------------------
(* Every call of the two endpoints uses the lock the way RunLock does.     *)
LEMMA LockSteps == [Next]_vars => [LockNext]_lockVars
  <1> SUFFICES ASSUME [Next]_vars PROVE LockNext \/ UNCHANGED lockVars
    BY DEF lockVars
  <1>1. ASSUME NEW r \in Requests, NEW c \in {RunCall} \cup ResumeCalls, Accept(r, c)
        PROVE  LockNext
    BY <1>1 DEF Accept, LockNext
  <1>2. ASSUME NEW r \in Requests, Node(r) PROVE UNCHANGED lockVars
    BY <1>2 DEF Node, LoadIncident, Triage, GatherEvidence, PlannerAgent, CriticAgent, PolicyAgent,
         ApprovalGate, Interrupt, RollbackAction, VerifyRecovery, FinalizeReport, Work
  <1>3. ASSUME NEW r \in Requests, Progress(r) PROVE LockNext \/ UNCHANGED lockVars
    BY <1>2, <1>3 DEF Progress, ReviewRecorded, InvokeRun, InvokeResume, ResumeUnstarted, Commit,
         Respond, LockNext
  <1>4. ASSUME NEW r \in Requests,
               Conflict(r) \/ CallFails(r) \/ RollbackTimesOut(r) \/ LockReplyLost(r)
        PROVE  LockNext
    BY <1>4 DEF Conflict, CallFails, RollbackTimesOut, LockReplyLost, LockNext
  <1>5. CASE LockExpires \/ OrchestratorRestarts
    BY <1>5 DEF LockExpires, OrchestratorRestarts, LockNext
  <1>6. ASSUME GatewayRestarts \/ (\E x \in late : LateRollback(x[1], x[2]))
               \/ (\E ok \in BOOLEAN, reviewer \in Reviewers : DirectReview(ok, reviewer))
        PROVE  UNCHANGED lockVars
    BY <1>6 DEF GatewayRestarts, LateRollback, DirectReview
  <1>7. CASE UNCHANGED vars
    BY <1>7 DEF vars
  <1> QED BY <1>1, <1>3, <1>4, <1>5, <1>6, <1>7 DEF Next

(* The workflow implements the specification of the lock alone.            *)
THEOREM WorkflowUsesLock == Spec => LockSpec
  <1>1. Init => LockInit
    BY DEF Init
  <1> QED BY <1>1, LockSteps, PTL DEF Spec, LockSpec

(* Two calls never work on an incident at the same time (run and resume    *)
(* under hold_run_lock) until a key expires under its call.                *)
THEOREM WorkflowMutualExclusion ==
    ASSUME UseRedis
    PROVE  Spec => [](NoOverrun => OneRunAtATime)
  BY WorkflowUsesLock, MutualExclusion, PTL

(* With runs of any length, the workflow never has more calls of run and   *)
(* resume at work on the incident than one and the keys that expired under *)
(* them.                                                                   *)
THEOREM WorkflowOverruns == Spec => []OneMorePerOverrun
  BY WorkflowUsesLock, StrayDeleteCostsNoMore, PTL
=============================================================================
