----------------------------- MODULE Workflow -----------------------------
(***************************************************************************)
(* The life of ONE incident: the calls of the orchestrator's two endpoints *)
(* (run and resume, graph.py), the LangGraph thread they drive, the status *)
(* incident-api keeps for the incident and the rollback receipts           *)
(* ops-gateway keeps for it.                                               *)
(*                                                                         *)
(* A call holds the run lock (RunLock), loads the thread's checkpoint,     *)
(* executes one node after another and writes a checkpoint after each.  A  *)
(* node is two steps: `phase` "node" -> "commit" is its work, every remote *)
(* call included; "commit" -> "node" is the checkpoint.  A failure between *)
(* the two is a remote call whose effect stays and whose result is lost.   *)
(*                                                                         *)
(* LangGraph itself is external: what is modelled of it is how graph.py    *)
(* relies on it (checkpoint per superstep, a new input discards the        *)
(* pending node and keeps the channel values, Command(resume) re-executes  *)
(* the pending node, interrupt() pauses unless a resume value is there).   *)
(* The three evidence agents are one superstep here.                       *)
(***************************************************************************)
EXTENDS RunLock, StatusRules, Integers, FiniteSets

CONSTANTS
    Reviewers,        \* the people who approve or reject
    Targets,          \* the service names a plan may want to roll back
    Revisions,        \* the release revisions a plan may name
    Rules,            \* REASONER_PROVIDER=rules (TRUE) or an LLM (FALSE)
    Diagnosis,        \* what plan_diagnosis makes of the evidence: a plan or None
    LLMPlans,         \* what the LLM's planner may answer, None included
    EvidenceEnough,   \* are there three change and log items or more?
    Outcome,          \* the scenario's VerificationAfter status
    KeepsCheckpoints, \* SQLite checkpointer (TRUE) or MemorySaver (FALSE)
    KeepsReceipts,    \* MySQL gateway store (TRUE) or the in-memory one (FALSE)
    DirectReviews,    \* do people also call incident-api's approve/reject?
    MaxCalls,         \* bound: calls accepted and direct reviews
    MaxFaults         \* bound: failures, restarts and overruns of the lock

Plan == [target : Targets, revision : Revisions, risk : {"medium", "high"},
         needsApproval : BOOLEAN]

(* plan_diagnosis builds every action with risk high and approval required.*)
ASSUME PlanAssumption ==
    /\ Diagnosis \in Plan \cup {None}
    /\ Diagnosis # None => Diagnosis.needsApproval /\ Diagnosis.risk = "high"
    /\ LLMPlans \subseteq Plan \cup {None}
    /\ None \notin Plan \cup Reviewers
ASSUME ConfigAssumption ==
    /\ Rules \in BOOLEAN /\ EvidenceEnough \in BOOLEAN
    /\ KeepsCheckpoints \in BOOLEAN /\ KeepsReceipts \in BOOLEAN
    /\ DirectReviews \in BOOLEAN
    /\ Outcome \in {"recovered", "partial_recovered", "not_recovered"}
    /\ MaxCalls \in Nat /\ MaxFaults \in Nat

System == "system"    \* the default of state.get("approval_reviewer", "system")
ASSUME SystemAssumption == System \notin Reviewers /\ None # System

Nodes == {"load_incident", "triage", "evidence", "planner_agent", "critic_agent",
          "policy_agent", "approval_gate", "rollback_action", "verify_recovery",
          "finalize_report"}
End == "end"
Phases == {"idle", "locked", "reviewed", "node", "commit", "respond"}

(* What a call asks for: run, or resume with a reviewer's decision.        *)
RunCall == [op |-> "run"]
ResumeCalls == [op : {"resume"}, approved : BOOLEAN, reviewer : Reviewers]

(* The gateway's receipt, and the copy of it in the graph's state.         *)
Receipt == [target : Targets, executor : Reviewers \cup {System}, revision : Revisions]
Verdicts == {"recovered", "partial_recovered", "not_recovered"}
HeldReceipt == [target : Targets, executor : Reviewers \cup {System},
                revision : Revisions, verification : Verdicts \cup {"pending"}]
ASSUME ReceiptAssumption == None \notin Receipt
ASSUME VerdictAssumption == None \notin Verdicts

(* The channels of GraphState that a later step reads.                     *)
Channels == [action : Plan \cup {None}, replans : 0 .. 2,
             approval : {"", "approved", "rejected"},
             reviewer : Reviewers \cup {None}, receipt : HeldReceipt \cup {None},
             verified : Verdicts \cup {None}, report : BOOLEAN]
NewThread == [action |-> None, replans |-> 0, approval |-> "", reviewer |-> None,
              receipt |-> None, verified |-> None, report |-> FALSE]

VARIABLES
    phase,     \* phase[r]: where call r is
    call,      \* call[r]: what it was asked
    vals,      \* vals[r]: its copy of the channels
    next,      \* next[r]: the node it is at
    resuming,  \* the calls whose resume value interrupt() may still return
    saved,     \* the thread's last checkpoint
    status,    \* the incident's status at incident-api
    approval,  \* the incident's approval row at incident-api (None: no row)
    receipts,  \* receipts[t]: ops-gateway's receipt for the key of target t
    response,  \* response[r]: the status the last call of r was answered with
    approvers, \* history: who ever approved at incident-api
    executed,  \* history: executed[t] is how often a rollback of t was executed
    late,      \* rollbacks sent to ops-gateway whose caller has given up
    calls, faults  \* counters for the bounds

graphVars == <<phase, call, vals, next, resuming, saved>>
apiVars == <<status, approval, approvers>>
gatewayVars == <<receipts, executed, late>>
bounds == <<calls, faults>>
vars == <<lockVars, graphVars, apiVars, gatewayVars, response, bounds>>

Checkpoint == [vals : Channels, next : Nodes \cup {End, "unstarted"}, paused : BOOLEAN]
Unstarted == [vals |-> NewThread, next |-> "unstarted", paused |-> FALSE]
RunStatus == {"waiting_for_approval", "rejected", "recovered", "diagnosed",
              "completed", "diagnosing"}

TypeOK ==
    /\ LockTypeOK
    /\ phase \in [Requests -> Phases]
    /\ call \in [Requests -> {RunCall} \cup ResumeCalls]
    /\ vals \in [Requests -> Channels]
    /\ next \in [Requests -> Nodes \cup {End}]
    /\ resuming \subseteq Requests
    /\ saved \in Checkpoint
    /\ status \in IncidentStatus
    /\ approval \in {None, "approved", "rejected"}
    /\ receipts \in [Targets -> Receipt \cup {None}]
    /\ response \in [Requests -> RunStatus \cup {"none", "conflict", "error"}]
    /\ approvers \subseteq Reviewers
    /\ executed \in [Targets -> Nat]
    /\ late \subseteq Plan \X (Reviewers \cup {System})
    /\ calls \in 0 .. MaxCalls /\ faults \in 0 .. MaxFaults

Init ==
    /\ LockInit
    /\ phase = [r \in Requests |-> "idle"]
    /\ call = [r \in Requests |-> RunCall]
    /\ vals = [r \in Requests |-> NewThread]
    /\ next = [r \in Requests |-> End]
    /\ resuming = {}
    /\ saved = Unstarted
    /\ status = "created"
    /\ approval = None
    /\ receipts = [t \in Targets |-> None]
    /\ response = [r \in Requests |-> "none"]
    /\ approvers = {}
    /\ executed = [t \in Targets |-> 0]
    /\ late = {}
    /\ calls = 0 /\ faults = 0

---------------------------------------------------------------------------
(* incident-api: its writes are StatusRules; a review also writes its row. *)

(* ReviewIncident: the approval row and the status, with no guard on       *)
(* either.                                                                 *)
Reviewed(ok, reviewer) ==
    /\ approval' = ReviewStatus(ok)
    /\ status' = ReviewStatus(ok)
    /\ approvers' = IF ok THEN approvers \cup {reviewer} ELSE approvers

---------------------------------------------------------------------------
(* ops-gateway: one receipt per idempotency key; the key of a rollback is  *)
(* incident:rollback:target, so for one incident it is the target.  Here   *)
(* the operation is atomic.                                                *)
ReceiptFor(p, by) ==
    IF receipts[p.target] # None THEN receipts[p.target]
    ELSE [target |-> p.target, executor |-> by, revision |-> p.revision]

(* A plausible slip: the key is not looked up before executing.            *)
RollbackWithoutKeyLookup(p, by) ==
    /\ receipts' = [receipts EXCEPT ![p.target] =
                      [target |-> p.target, executor |-> by, revision |-> p.revision]]
    /\ executed' = [executed EXCEPT ![p.target] = @ + 1]

Rollback(p, by) ==
    /\ receipts' = [receipts EXCEPT ![p.target] = ReceiptFor(p, by)]
    /\ executed' = [executed EXCEPT ![p.target] = IF receipts[p.target] = None THEN @ + 1 ELSE @]

RolledBack == \E t \in Targets : receipts[t] # None

(* VerificationBefore is not_recovered in every scenario.                  *)
Verify == IF RolledBack THEN Outcome ELSE "not_recovered"

---------------------------------------------------------------------------
(* The reasoners: the rules compute their answer, an LLM may answer        *)
(* anything its schema allows.                                             *)
PlannerAnswers == IF Rules THEN {Diagnosis} ELSE LLMPlans

(* planner_agent falls back on plan_diagnosis when no action was proposed. *)
WithGuardrail(a) == IF a = None THEN Diagnosis ELSE a

(* The rules' second objection, a plan without revisions or verification   *)
(* policy, never arises for their own plans: create_incident refuses an    *)
(* incident whose context names no revisions (server.go), and              *)
(* plan_diagnosis always sets the policy.                                  *)
CriticAnswers(a) ==
    IF ~Rules THEN {"approve_plan", "request_replan"}
    ELSE IF a # None /\ ~EvidenceEnough THEN {"request_replan"} ELSE {"approve_plan"}

PolicyDecisions == {"allow", "require_human_approval", "deny"}

(* A plausible slip: only one risk level is compared.                      *)
RulePolicyOnRiskOnly(a) ==
    IF a # None /\ a.risk = "medium" THEN "require_human_approval" ELSE "allow"
RulePolicy(a) ==
    IF a # None /\ (a.needsApproval \/ a.risk = "high")
    THEN "require_human_approval" ELSE "allow"

PolicyAnswers(a) == IF Rules THEN {RulePolicy(a)} ELSE PolicyDecisions

---------------------------------------------------------------------------
(* The conditional edges of the graph and the status of a RunResponse.     *)
RouteAfterCritic(verdict, replans) ==
    IF verdict = "request_replan" /\ replans <= 1 THEN "planner_agent" ELSE "policy_agent"

RouteAfterPolicy(a, decision) ==
    IF a = None \/ decision = "deny" THEN "verify_recovery"
    ELSE IF decision = "allow" THEN "rollback_action" ELSE "approval_gate"

(* A plausible slip: any answer releases the rollback.                     *)
RouteAfterAnyApproval(answer) == "rollback_action"
(* Another: the branches are swapped.                                      *)
RouteAfterRejection(answer) ==
    IF answer = "approved" THEN "verify_recovery" ELSE "rollback_action"
RouteAfterApproval(answer) ==
    IF answer = "approved" THEN "rollback_action" ELSE "verify_recovery"

DetermineStatus(v, interrupted) ==
    IF interrupted THEN "waiting_for_approval"
    ELSE IF v.approval = "rejected" THEN "rejected"
    ELSE IF v.verified = "recovered" THEN "recovered"
    ELSE IF ~v.report THEN "diagnosing"
    ELSE IF v.action = None THEN "diagnosed" ELSE "completed"

---------------------------------------------------------------------------
(* Starting a call: the lock, then (resume only) the review at             *)
(* incident-api, then the graph.                                           *)
Accept(r, c) ==
    /\ phase[r] = "idle"
    /\ calls < MaxCalls
    /\ Acquire(r)
    /\ phase' = [phase EXCEPT ![r] = "locked"]
    /\ call' = [call EXCEPT ![r] = c]
    /\ calls' = calls + 1
    /\ UNCHANGED <<vals, next, resuming, saved, apiVars, gatewayVars, response, faults>>

(* 409, see app.py.                                                        *)
Conflict(r) ==
    /\ phase[r] = "idle"
    /\ calls < MaxCalls
    /\ Refused(r)
    /\ response' = [response EXCEPT ![r] = "conflict"]
    /\ calls' = calls + 1
    /\ UNCHANGED <<graphVars, apiVars, gatewayVars, faults>>

ReviewRecorded(r) ==
    /\ phase[r] = "locked" /\ call[r].op = "resume"
    /\ Reviewed(call[r].approved, call[r].reviewer)
    /\ phase' = [phase EXCEPT ![r] = "reviewed"]
    /\ UNCHANGED <<lockVars, call, vals, next, resuming, saved, gatewayVars, response, bounds>>

(* ainvoke({"incident_id": id}): the pending node is discarded, the        *)
(* channels keep what earlier runs of the thread left in them.             *)
InvokeRun(r) ==
    /\ phase[r] = "locked" /\ call[r].op = "run"
    /\ phase' = [phase EXCEPT ![r] = "node"]
    /\ vals' = [vals EXCEPT ![r] = saved.vals]
    /\ next' = [next EXCEPT ![r] = "load_incident"]
    /\ saved' = [vals |-> saved.vals, next |-> "load_incident", paused |-> FALSE]
    /\ UNCHANGED <<lockVars, call, resuming, apiVars, gatewayVars, response, bounds>>

(* A plausible slip: the graph is continued without the decision.          *)
InvokeResumeDropsDecision(r) ==
    /\ phase[r] = "reviewed" /\ saved.next # "unstarted"
    /\ phase' = [phase EXCEPT ![r] = IF saved.next = End THEN "respond" ELSE "node"]
    /\ vals' = [vals EXCEPT ![r] = saved.vals]
    /\ next' = [next EXCEPT ![r] = saved.next]
    /\ UNCHANGED <<lockVars, call, resuming, saved, apiVars, gatewayVars, response, bounds>>

(* ainvoke(Command(resume=...)) on a thread with a pending node; on a      *)
(* finished thread it returns the old values.                              *)
InvokeResume(r) ==
    /\ phase[r] = "reviewed" /\ saved.next # "unstarted"
    /\ phase' = [phase EXCEPT ![r] = IF saved.next = End THEN "respond" ELSE "node"]
    /\ vals' = [vals EXCEPT ![r] = saved.vals]
    /\ next' = [next EXCEPT ![r] = saved.next]
    /\ resuming' = resuming \cup {r}
    /\ UNCHANGED <<lockVars, call, saved, apiVars, gatewayVars, response, bounds>>

---------------------------------------------------------------------------
(* The nodes.  Work(r, n, v, m): node n leaves the channels v, m is next.  *)
Work(r, n, v, m) ==
    /\ phase[r] = "node" /\ next[r] = n
    /\ phase' = [phase EXCEPT ![r] = "commit"]
    /\ vals' = [vals EXCEPT ![r] = v]
    /\ next' = [next EXCEPT ![r] = m]
    /\ UNCHANGED <<lockVars, call, resuming, saved, response, bounds>>

(* A plausible slip: the replan count of an earlier run is kept.           *)
LoadIncidentKeepsReplans(r) ==
    /\ Work(r, "load_incident", vals[r], "triage")
    /\ UNCHANGED <<apiVars, gatewayVars>>
LoadIncident(r) ==
    /\ Work(r, "load_incident", [vals[r] EXCEPT !.replans = 0], "triage")
    /\ UNCHANGED <<apiVars, gatewayVars>>

Triage(r) ==
    /\ Work(r, "triage", vals[r], "evidence")
    /\ UNCHANGED <<apiVars, gatewayVars>>

(* change_agent, log_agent and dependency_agent.                           *)
GatherEvidence(r) ==
    /\ Work(r, "evidence", vals[r], "planner_agent")
    /\ UNCHANGED <<apiVars, gatewayVars>>

PlannerAgent(r) ==
    \E answer \in PlannerAnswers :
        LET a == WithGuardrail(answer)
        IN /\ Work(r, "planner_agent", [vals[r] EXCEPT !.action = a], "critic_agent")
           /\ status' = AnalysisStatus(a)
           /\ UNCHANGED <<approval, approvers, gatewayVars>>

(* A plausible slip: the replan is not counted.                            *)
CriticAgentForgetsCount(r) ==
    \E verdict \in CriticAnswers(vals[r].action) :
        /\ Work(r, "critic_agent", vals[r], RouteAfterCritic(verdict, vals[r].replans))
        /\ UNCHANGED <<apiVars, gatewayVars>>
CriticAgent(r) ==
    \E verdict \in CriticAnswers(vals[r].action) :
        LET count == IF verdict = "request_replan" THEN vals[r].replans + 1 ELSE vals[r].replans
        IN /\ Work(r, "critic_agent", [vals[r] EXCEPT !.replans = count],
                   RouteAfterCritic(verdict, count))
           /\ UNCHANGED <<apiVars, gatewayVars>>

PolicyAgent(r) ==
    \E decision \in PolicyAnswers(vals[r].action) :
        /\ Work(r, "policy_agent", vals[r], RouteAfterPolicy(vals[r].action, decision))
        /\ UNCHANGED <<apiVars, gatewayVars>>

(* interrupt() returns the resume value ...                                *)
ApprovalGate(r) ==
    LET answer == IF call[r].approved THEN "approved" ELSE "rejected"
    IN /\ r \in resuming
       /\ Work(r, "approval_gate",
               [vals[r] EXCEPT !.approval = answer, !.reviewer = call[r].reviewer],
               RouteAfterApproval(answer))
       /\ UNCHANGED <<apiVars, gatewayVars>>

(* ... or, without one, pauses the thread; ainvoke returns.                *)
Interrupt(r) ==
    /\ phase[r] = "node" /\ next[r] = "approval_gate" /\ r \notin resuming
    /\ phase' = [phase EXCEPT ![r] = "respond"]
    /\ saved' = IF saved = [vals |-> vals[r], next |-> next[r], paused |-> FALSE]
                THEN [saved EXCEPT !.paused = TRUE] ELSE saved
    /\ UNCHANGED <<lockVars, call, vals, next, resuming, apiVars, gatewayVars, response, bounds>>

Requester(v) == IF v.reviewer = None THEN System ELSE v.reviewer

RollbackAction(r) ==
    LET p == vals[r].action
        got == ReceiptFor(p, Requester(vals[r]))
    IN /\ Work(r, "rollback_action",
               [vals[r] EXCEPT !.receipt =
                   [target |-> got.target, executor |-> got.executor,
                    revision |-> got.revision, verification |-> "pending"]],
               "verify_recovery")
       /\ Rollback(p, Requester(vals[r]))
       /\ UNCHANGED <<late, apiVars>>

VerifyRecovery(r) ==
    LET held_ == vals[r].receipt
    IN /\ Work(r, "verify_recovery",
               [vals[r] EXCEPT !.verified = Verify,
                               !.receipt = IF held_ = None THEN None
                                           ELSE [held_ EXCEPT !.verification = Verify]],
               "finalize_report")
       /\ UNCHANGED <<apiVars, gatewayVars>>

(* A plausible slip: without a receipt the incident's status stays.        *)
FinalizeReportKeepsStatus(r) ==
    /\ Work(r, "finalize_report", [vals[r] EXCEPT !.report = TRUE], End)
    /\ status' = IF vals[r].receipt = None THEN status ELSE ReportStatus(vals[r].receipt)
    /\ UNCHANGED <<approval, approvers, gatewayVars>>
FinalizeReport(r) ==
    /\ Work(r, "finalize_report", [vals[r] EXCEPT !.report = TRUE], End)
    /\ status' = ReportStatus(vals[r].receipt)
    /\ UNCHANGED <<approval, approvers, gatewayVars>>

(* The checkpoint after a superstep; an unused resume value is gone.       *)
Commit(r) ==
    /\ phase[r] = "commit"
    /\ saved' = [vals |-> vals[r], next |-> next[r], paused |-> FALSE]
    /\ phase' = [phase EXCEPT ![r] = IF next[r] = End THEN "respond" ELSE "node"]
    /\ resuming' = resuming \ {r}
    /\ UNCHANGED <<lockVars, call, vals, next, apiVars, gatewayVars, response, bounds>>

---------------------------------------------------------------------------
(* Ending a call: it forgets what it held in memory.                       *)
Answer(r, s) ==
    /\ phase' = [phase EXCEPT ![r] = "idle"]
    /\ call' = [call EXCEPT ![r] = RunCall]
    /\ vals' = [vals EXCEPT ![r] = NewThread]
    /\ next' = [next EXCEPT ![r] = End]
    /\ resuming' = resuming \ {r}
    /\ response' = [response EXCEPT ![r] = s]

(* _to_run_response reads the thread's last checkpoint, then the lock is   *)
(* released.                                                               *)
Respond(r) ==
    /\ phase[r] = "respond"
    /\ Release(r)
    /\ Answer(r, DetermineStatus(saved.vals, saved.paused \/ next[r] = "approval_gate"))
    /\ UNCHANGED <<saved, apiVars, gatewayVars, bounds>>

(* resume of a thread that was never run: load_incident has no incident_id.*)
ResumeUnstarted(r) ==
    /\ phase[r] = "reviewed" /\ saved.next = "unstarted"
    /\ Release(r)
    /\ Answer(r, "error")
    /\ UNCHANGED <<saved, apiVars, gatewayVars, bounds>>

(* Anything raises: an agent, a remote call, the DEL of the lock.  What    *)
(* was done remotely stays done, what was not checkpointed is lost.        *)
CallFails(r) ==
    /\ phase[r] # "idle"
    /\ faults < MaxFaults
    /\ Release(r) \/ ReleaseFails(r)
    /\ Answer(r, "error")
    /\ faults' = faults + 1
    /\ UNCHANGED <<saved, apiVars, gatewayVars, calls>>

(* The rollback request meets the client's ten seconds: the call fails,    *)
(* the gateway still has the request ...                                   *)
RollbackTimesOut(r) ==
    /\ phase[r] = "node" /\ next[r] = "rollback_action"
    /\ faults < MaxFaults
    /\ Release(r)
    /\ Answer(r, "error")
    /\ late' = late \cup {<<vals[r].action, Requester(vals[r])>>}
    /\ faults' = faults + 1
    /\ UNCHANGED <<saved, apiVars, receipts, executed, calls>>

(* ... and carries it out whenever it gets to it.                          *)
LateRollback(p, by) ==
    /\ <<p, by>> \in late
    /\ Rollback(p, by)
    /\ late' = late \ {<<p, by>>}
    /\ UNCHANGED <<lockVars, graphVars, apiVars, response, bounds>>

(* The SET of the lock takes effect and the call fails.                    *)
LockReplyLost(r) ==
    /\ phase[r] = "idle"
    /\ calls < MaxCalls /\ faults < MaxFaults
    /\ AcquireReplyLost(r)
    /\ response' = [response EXCEPT ![r] = "error"]
    /\ calls' = calls + 1 /\ faults' = faults + 1
    /\ UNCHANGED <<graphVars, apiVars, gatewayVars>>

(* The key expires; that a run outlives it counts as a fault.              *)
LockExpires ==
    /\ Expire
    /\ runlock \in held => faults < MaxFaults
    /\ faults' = IF runlock \in held THEN faults + 1 ELSE faults
    /\ UNCHANGED <<graphVars, apiVars, gatewayVars, response, calls>>

(* The orchestrator process is restarted: every call is cut off.           *)
OrchestratorRestarts ==
    /\ faults < MaxFaults
    /\ ProcessDies
    /\ phase' = [r \in Requests |-> "idle"]
    /\ call' = [r \in Requests |-> RunCall]
    /\ vals' = [r \in Requests |-> NewThread]
    /\ next' = [r \in Requests |-> End]
    /\ resuming' = {}
    /\ saved' = IF KeepsCheckpoints THEN saved ELSE Unstarted
    /\ response' = [r \in Requests |-> IF phase[r] = "idle" THEN response[r] ELSE "error"]
    /\ faults' = faults + 1
    /\ UNCHANGED <<apiVars, gatewayVars, calls>>

(* ops-gateway is restarted with the in-memory store.                      *)
GatewayRestarts ==
    /\ ~KeepsReceipts
    /\ faults < MaxFaults
    /\ receipts' = [t \in Targets |-> None]
    /\ faults' = faults + 1
    /\ late' = {}
    /\ UNCHANGED <<lockVars, graphVars, apiVars, executed, response, calls>>

(* Somebody calls incident-api's approve or reject without the             *)
(* orchestrator: nothing resumes the graph.                                *)
DirectReview(ok, reviewer) ==
    /\ DirectReviews
    /\ calls < MaxCalls
    /\ Reviewed(ok, reviewer)
    /\ calls' = calls + 1
    /\ UNCHANGED <<lockVars, graphVars, gatewayVars, response, faults>>

Node(r) ==
    \/ LoadIncident(r) \/ Triage(r) \/ GatherEvidence(r) \/ PlannerAgent(r)
    \/ CriticAgent(r) \/ PolicyAgent(r) \/ ApprovalGate(r) \/ Interrupt(r)
    \/ RollbackAction(r) \/ VerifyRecovery(r) \/ FinalizeReport(r)

(* What a call does by itself once accepted.                               *)
Progress(r) ==
    \/ ReviewRecorded(r) \/ InvokeRun(r) \/ InvokeResume(r) \/ ResumeUnstarted(r)
    \/ Node(r) \/ Commit(r) \/ Respond(r)

Next ==
    \/ \E r \in Requests :
          \/ \E c \in {RunCall} \cup ResumeCalls : Accept(r, c)
          \/ Conflict(r)
          \/ Progress(r)
          \/ CallFails(r)
          \/ RollbackTimesOut(r)
          \/ LockReplyLost(r)
    \/ \E request \in late : LateRollback(request[1], request[2])
    \/ LockExpires
    \/ OrchestratorRestarts
    \/ GatewayRestarts
    \/ \E ok \in BOOLEAN, reviewer \in Reviewers : DirectReview(ok, reviewer)

(* The event loop keeps running an accepted call, and Redis expires keys.  *)
(* People and faults are not fair.                                         *)
Fairness ==
    /\ \A r \in Requests : WF_vars(Progress(r))
    /\ WF_vars(LockExpires)

Spec == Init /\ [][Next]_vars
FairSpec == Spec /\ Fairness

---------------------------------------------------------------------------
(* A rollback is executed only when a person has approved at incident-api  *)
(* (policy_agent and approval_gate; with the rules reasoner).              *)
RollbackNeedsApproval == (\E t \in Targets : executed[t] > 0) => approvers # {}

(* The receipt of a rollback names somebody who did approve, however often *)
(* the call was retried, re-run or answered by another reviewer.           *)
ExecutorApproved ==
    \A t \in Targets : receipts[t] # None => receipts[t].executor \in approvers

(* The receipt in a checkpoint or in a running call is the gateway's own,  *)
(* also when it came from a replay.                                        *)
HoldsGatewayReceipt(v) ==
    v.receipt # None =>
        LET kept == receipts[v.receipt.target]
        IN /\ kept # None
           /\ kept.executor = v.receipt.executor
           /\ kept.revision = v.receipt.revision
ReceiptsAgree ==
    HoldsGatewayReceipt(saved.vals) /\ \A r \in Requests : HoldsGatewayReceipt(vals[r])

(* incident-api says "recovered" only of an incident whose rollback was    *)
(* executed (verify_recovery, finalize_report, SaveReport).                *)
RecoveredWasRolledBack == status = "recovered" => \E t \in Targets : executed[t] > 0

(* While the thread waits for a person and nobody is working on it, the    *)
(* incident says so, or says what a person answered (rules reasoner, until *)
(* a run outlives its key).                                                *)
PausedIsVisible ==
    saved.paused /\ held = {} /\ NoOverrun
        => status \in {"waiting_for_approval", "approved", "rejected"}

(* An incident that says it waits for approval has a thread that resume    *)
(* can continue (durable checkpoints, until a run outlives its key).       *)
WaitingCanResume ==
    status = "waiting_for_approval" /\ NoOverrun => saved.next \notin {End, "unstarted"}

(* After a rejection the graph asks for no rollback until somebody         *)
(* approves (approval_gate and its edge to rollback_action).               *)
RejectionHolds ==
    [][\A r \in Requests :
          (phase[r] = "node" /\ next[r] = "rollback_action" /\ phase'[r] = "commit")
             => approval # "rejected"]_vars

(* An approval given to the paused thread is carried out: the target of    *)
(* the plan it was given for gets its receipt (approval_gate, then         *)
(* rollback_action).                                                       *)
ApprovalIsCarriedOut ==
    \A r \in Requests, t \in Targets :
        (/\ phase[r] = "reviewed" /\ call[r].approved
         /\ saved.paused /\ saved.vals.action.target = t)
            ~> receipts[t] # None

(* The answer to a run is the status the incident has at that moment,      *)
(* until a run outlives its key (_to_run_response, SaveAnalysis and        *)
(* SaveReport).                                                            *)
RunAnswerAgrees ==
    [][\A r \in Requests :
          (call[r].op = "run" /\ phase[r] = "respond" /\ phase'[r] = "idle"
             /\ response'[r] # "error" /\ NoOverrun)
                => status = response'[r]]_vars

(* Whoever is told that the workflow is completed or the incident has      *)
(* recovered, a rollback was executed: no failure, retry, re-run or late   *)
(* answer makes an approval that came to nothing look like success, until  *)
(* a run outlives its key and two calls share the thread                   *)
(* (determine_status).                                                     *)
SuccessMeansRollback ==
    [][\A r \in Requests :
          (/\ phase[r] = "respond" /\ phase'[r] = "idle" /\ NoOverrun
           /\ response'[r] \in {"completed", "recovered"})
                => \E t \in Targets : executed[t] > 0]_vars

(* How many nodes a call at node n, with the replans counted in v, has     *)
(* before it at most: one replan sends it back from the critic.            *)
Distance == [load_incident |-> 10, triage |-> 9, evidence |-> 8, planner_agent |-> 7,
             critic_agent |-> 6, policy_agent |-> 5, approval_gate |-> 4,
             rollback_action |-> 3, verify_recovery |-> 2, finalize_report |-> 1, end |-> 0]
MayReplan(n, v) ==
    \/ n = "load_incident"
    \/ n \in {"triage", "evidence", "planner_agent", "critic_agent"} /\ v.replans = 0
NodesLeft(n, v) == IF MayReplan(n, v) THEN Distance[n] + 2 ELSE Distance[n]
StepsLeft(r) ==
    CASE phase[r] = "locked" -> 27
      [] phase[r] = "reviewed" -> 26
      [] phase[r] = "commit" -> 2 * NodesLeft(next[r], vals[r]) + 2
      [] phase[r] = "node" -> 2 * NodesLeft(next[r], vals[r]) + 1
      [] phase[r] = "respond" -> 1
      [] phase[r] = "idle" -> 0

(* Whatever the reasoner answers, however often the critic asks for        *)
(* another plan and whatever the other calls do, every step of a call      *)
(* brings it nearer to its answer: at most twelve nodes, no loop           *)
(* (route_after_critic, and load_incident, which resets the count).        *)
CallsRunDown ==
    [][\A r \in Requests :
          phase[r] # "idle" =>
              \/ StepsLeft(r)' < StepsLeft(r)
              \/ UNCHANGED <<phase[r], call[r], vals[r], next[r]>>]_vars

(* Every accepted call is answered: the replan loop ends, nothing blocks.  *)
EveryCallEnds == \A r \in Requests : phase[r] # "idle" ~> phase[r] = "idle"

(* A crash, a lost reply or a failed DEL does not lock the incident for    *)
(* ever.                                                                   *)
LockIsFreed == []<>(runlock = NoOwner)
=============================================================================
