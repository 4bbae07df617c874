--------------------------- MODULE EvidenceFanOut ---------------------------
(***************************************************************************)
(* From load_incident to the saved analysis, agent by agent (graph.py):    *)
(* triage, the three evidence agents of one superstep side by side, then   *)
(* the planner.  Workflow has each of these as one step; here _run_agent   *)
(* is the steps it is made of, with the audit writes around the agent's    *)
(* work, and a call can fail, or the process be restarted, between any two.*)
(*                                                                         *)
(* LangGraph is external.  One branch that raises ends the superstep: the  *)
(* others are cancelled (a CancelledError passes `except Exception`), what *)
(* finished branches returned is kept with the thread, and a resume        *)
(* executes only the rest; a new input starts over.                        *)
(*                                                                         *)
(* One call executes at a time (RunLock).  An audit write whose reply is   *)
(* lost is one that was recorded: the caller ignores both.                 *)
(***************************************************************************)
EXTENDS Diagnosis

CONSTANTS
    Findings,         \* what each evidence agent may answer
    PlannerAnswers,   \* what the reasoner's plan may be
    MaxCalls,
    MaxFaults         \* failures, restarts and lost audit writes, together

Agents == Sources \cup {"triage", "planner"}

Unfinished == {"load_incident", "triage", "evidence", "planner"}

Nothing == [s \in Sources |-> None]
Idle == [a \in Agents |-> "off"]
NoOutput == [a \in Agents |-> None]

(* A branch's evidence, with the run and the call it was gathered in.      *)
Evidence == [round : 1 .. MaxCalls, call : 1 .. MaxCalls,
             items : UNION {{BuildEvidence(s, f) : f \in Findings[s]} : s \in Sources}]

ASSUME BoundAssumption == MaxCalls \in Nat /\ MaxFaults \in Nat
ASSUME NoneAssumption == None \notin Evidence

VARIABLES
    active,       \* a call executes the graph
    next,         \* the node the thread's checkpoint is at
    channels,     \* the thread's change_evidence, log_evidence, dependency_evidence
    plan,         \* its hypotheses and proposed_action
    pending,      \* what finished branches of an unfinished superstep returned
    stage,        \* how far each agent of the running call is
    output,       \* what the agent's work returned
    analysis,     \* what save_analysis left at incident-api
    trail,        \* incident_events and agent_runs
    answer,       \* of the last call
    round,        \* the run the thread is in: number of its call
    calls,
    brokenCall,   \* the last call something it works with failed in
    workFaults, auditFaults

threadVars == <<next, channels, plan, pending>>
bounds == <<calls, brokenCall, workFaults, auditFaults>>
besideAudit ==    \* all but stage, trail and auditFaults
    <<active, threadVars, output, analysis, answer, round, calls, brokenCall, workFaults>>
vars == <<active, threadVars, stage, output, analysis, trail, answer, round, bounds>>

Stages == {"off", "query", "start", "think",
           "completed_run", "completed_event", "returned", "saved", "done",
           "failed_run", "failed_event", "failed"}

Init ==
    /\ active = FALSE
    /\ next = "unstarted"
    /\ channels = Nothing /\ plan = None /\ pending = Nothing
    /\ stage = Idle /\ output = NoOutput
    /\ analysis = None /\ trail = {}
    /\ answer = "none" /\ round = 0
    /\ calls = 0 /\ brokenCall = 0 /\ workFaults = 0 /\ auditFaults = 0

---------------------------------------------------------------------------
(* The agents at work when a call comes to node n.                         *)
Entering(n, kept) ==
    [a \in Agents |->
        IF a \notin Sources THEN IF a = n THEN "start" ELSE "off"
        ELSE IF n # "evidence" THEN "off"
        ELSE IF kept[a] = None THEN "query" ELSE "done"]

Begin(n, kept) ==
    /\ ~active /\ calls < MaxCalls
    /\ active' = TRUE
    /\ next' = n /\ pending' = kept
    /\ stage' = Entering(n, kept)
    /\ answer' = "none"
    /\ calls' = calls + 1
    /\ UNCHANGED <<channels, plan, output, analysis, trail, brokenCall, workFaults, auditFaults>>

(* A plausible slip: run continues the thread instead of starting over.    *)
StartRunContinues ==
    /\ IF next \in Unfinished THEN Begin(next, pending) ELSE Begin("load_incident", Nothing)
    /\ round' = calls'

(* run: a new input drops what an earlier call left unfinished.            *)
StartRun ==
    /\ Begin("load_incident", Nothing)
    /\ round' = calls'

(* resume of a call that failed: on from the unfinished node.              *)
Resume ==
    /\ next \in Unfinished
    /\ Begin(next, pending)
    /\ UNCHANGED round

(* The call ends; its agents end with it.                                  *)
End(a) ==
    /\ active' = FALSE
    /\ stage' = Idle /\ output' = NoOutput
    /\ answer' = a

CanFail == workFaults + auditFaults < MaxFaults

Fault ==
    /\ CanFail
    /\ workFaults' = workFaults + 1
    /\ brokenCall' = calls

---------------------------------------------------------------------------
(* Audit.                                                                  *)
Record(table, actor, what) == [table |-> table, actor |-> actor, what |-> what, call |-> calls]

Stored(record) ==
    /\ trail' = trail \cup {record}
    /\ UNCHANGED auditFaults

Lost ==
    /\ CanFail
    /\ auditFaults' = auditFaults + 1
    /\ UNCHANGED trail

(* A write that fails is counted and forgotten.                            *)
Audit(record) == Stored(record) \/ Lost

At(a, from, to) ==
    /\ stage[a] = from
    /\ stage' = [stage EXCEPT ![a] = to]

(* Two plausible slips: a lost event is raised; in _run_agent the first    *)
(* lands in the caller, the one after the work in the except branch.       *)
RecordEventRaises(a, from, to, what) ==
    /\ Audit(Record("event", a, what))
    /\ IF auditFaults' = auditFaults THEN At(a, from, to) ELSE At(a, from, "failed")
    /\ UNCHANGED besideAudit
RecordEventRaisesInside(a, from, to, what) ==
    /\ Audit(Record("event", a, what))
    /\ IF auditFaults' = auditFaults \/ what # "agent_completed"
       THEN At(a, from, to) ELSE At(a, from, "failed_run")
    /\ UNCHANGED besideAudit

RecordEvent(a, from, to, what) ==
    /\ At(a, from, to)
    /\ Audit(Record("event", a, what))
    /\ UNCHANGED besideAudit

RecordAgentRun(a, from, to, what) ==
    /\ At(a, from, to)
    /\ Audit(Record("run", a, what))
    /\ UNCHANGED besideAudit

---------------------------------------------------------------------------
(* An evidence agent asks ops-gateway for its items ...                    *)
Query(s) ==
    /\ At(s, "query", "start")
    /\ UNCHANGED <<active, threadVars, output, analysis, trail, answer, round, bounds>>

(* ... and a query that fails leaves no trace in the audit.                *)
QueryFails(s) ==
    /\ At(s, "query", "failed")
    /\ Fault
    /\ UNCHANGED <<active, threadVars, output, analysis, trail, answer, round, calls, auditFaults>>

(* _run_agent.                                                             *)
RecordStarted(a) == RecordEvent(a, "start", "think", "agent_started")

Answers(a) ==
    CASE a \in Sources -> Findings[a]
      [] a = "triage" -> {"decided"}
      [] a = "planner" -> PlannerAnswers

(* A plausible slip: the records are left to a task nobody awaits.         *)
ThinkAndReturn(a) ==
    /\ At(a, "think", "returned")
    /\ \E o \in Answers(a) : output' = [output EXCEPT ![a] = o]
    /\ UNCHANGED <<active, threadVars, analysis, trail, answer, round, bounds>>
Think(a) ==
    /\ At(a, "think", "completed_run")
    /\ \E o \in Answers(a) : output' = [output EXCEPT ![a] = o]
    /\ UNCHANGED <<active, threadVars, analysis, trail, answer, round, bounds>>

ThinkFails(a) ==
    /\ At(a, "think", "failed_run")
    /\ Fault
    /\ UNCHANGED <<active, threadVars, output, analysis, trail, answer, round, calls, auditFaults>>

RecordCompletedRun(a) == RecordAgentRun(a, "completed_run", "completed_event", "completed")
RecordCompleted(a) == RecordEvent(a, "completed_event", "returned", "agent_completed")
RecordFailedRun(a) == RecordAgentRun(a, "failed_run", "failed_event", "failed")
RecordFailed(a) == RecordEvent(a, "failed_event", "failed", "agent_failed")

RunAgent(a) ==
    \/ RecordStarted(a) \/ Think(a)
    \/ RecordCompletedRun(a) \/ RecordCompleted(a)
    \/ RecordFailedRun(a) \/ RecordFailed(a)

---------------------------------------------------------------------------
(* The nodes.                                                              *)
GoOn(n) ==
    /\ next' = n
    /\ stage' = Entering(n, Nothing)
    /\ output' = NoOutput

LoadIncident ==
    /\ active /\ next = "load_incident"
    /\ Audit(Record("event", "load_incident", "incident_loaded"))
    /\ GoOn("triage")
    /\ UNCHANGED <<active, channels, plan, pending, analysis, answer, round,
                   calls, brokenCall, workFaults>>

(* The incident is not there to read, or the checkpoint after its event    *)
(* cannot be written.                                                      *)
LoadIncidentFails ==
    /\ active /\ next = "load_incident"
    /\ trail' \in {trail, trail \cup {Record("event", "load_incident", "incident_loaded")}}
    /\ Fault
    /\ End("error")
    /\ UNCHANGED <<threadVars, analysis, round, calls, auditFaults>>

Triaged ==
    /\ stage["triage"] = "returned"
    /\ GoOn("evidence")
    /\ UNCHANGED <<active, channels, plan, pending, analysis, trail, answer, round, bounds>>

(* A branch returns: its ids are given here, whatever the agent's were.    *)
Deliver(s) ==
    /\ At(s, "returned", "done")
    /\ pending' = [pending EXCEPT ![s] =
           [round |-> round, call |-> calls, items |-> BuildEvidence(s, output[s])]]
    /\ UNCHANGED <<active, next, channels, plan, output, analysis, trail, answer, round, bounds>>

(* A plausible slip: an edge from each agent instead of one from all.      *)
JoinOnFirst ==
    /\ \E s \in Sources : stage[s] = "done"
    /\ channels' = pending
    /\ pending' = Nothing
    /\ GoOn("planner")
    /\ UNCHANGED <<active, plan, analysis, trail, answer, round, bounds>>

(* The barrier in front of the planner.                                    *)
Join ==
    /\ \A s \in Sources : stage[s] = "done"
    /\ channels' = pending
    /\ pending' = Nothing
    /\ GoOn("planner")
    /\ UNCHANGED <<active, plan, analysis, trail, answer, round, bounds>>

(* What planner_agent makes of the reasoner's answer.                      *)
Fallback == PlanDiagnosis(channels["change"].items, channels["log"].items,
                          channels["dependency"].items)

WithGuardrail(o) ==
    [cause |-> IF o.hypotheses THEN "reasoner" ELSE Fallback.cause,
     action |-> IF o.action # None THEN o.action ELSE Fallback.action]

SavedBy(o) == [evidence |-> channels, plan |-> WithGuardrail(o)]

SaveAnalysis ==
    /\ At("planner", "returned", "saved")
    /\ analysis' = SavedBy(output["planner"])
    /\ UNCHANGED <<active, threadVars, output, trail, answer, round, bounds>>

(* The save fails, before or after incident-api did it.                    *)
SaveAnalysisFails ==
    /\ At("planner", "returned", "failed")
    /\ analysis' \in {analysis, SavedBy(output["planner"])}
    /\ Fault
    /\ UNCHANGED <<active, threadVars, output, trail, answer, round, calls, auditFaults>>

(* The rest of the call, a replan included, is Workflow's.                 *)
Planned ==
    /\ stage["planner"] = "saved"
    /\ plan' = WithGuardrail(output["planner"])
    /\ next' = "planned"
    /\ End("planned")
    /\ UNCHANGED <<channels, pending, analysis, trail, round, bounds>>

(* A plausible slip: the superstep ends when all its branches have.        *)
NodeFailsAtTheEnd ==
    /\ \E a \in Agents : stage[a] = "failed"
    /\ \A a \in Agents : stage[a] \in {"off", "failed"}
    /\ End("error")
    /\ UNCHANGED <<threadVars, analysis, trail, round, bounds>>
(* Another: the branches that still run are left alone.                    *)
NodeFailsLeavingOthers ==
    /\ \E a \in Agents : stage[a] = "failed"
    /\ active' = FALSE /\ answer' = "error"
    /\ stage' = [a \in Agents |-> IF stage[a] = "failed" THEN "off" ELSE stage[a]]
    /\ UNCHANGED <<threadVars, output, analysis, trail, round, bounds>>

NodeFails ==
    /\ \E a \in Agents : stage[a] = "failed"
    /\ End("error")
    /\ UNCHANGED <<threadVars, analysis, trail, round, bounds>>

(* The orchestrator is restarted, or a checkpoint cannot be written.       *)
(* SQLite keeps the thread, but what a branch returned is written in the   *)
(* background and may be lost; MemorySaver keeps nothing.                  *)
ThreadKept ==
    /\ \E lost \in SUBSET Sources :
          pending' = [s \in Sources |-> IF s \in lost THEN None ELSE pending[s]]
    /\ UNCHANGED <<next, channels, plan>>

ThreadForgotten ==
    /\ next' = "unstarted"
    /\ channels' = Nothing /\ plan' = None /\ pending' = Nothing

Restart ==
    /\ active
    /\ Fault
    /\ End("error")
    /\ ThreadKept \/ ThreadForgotten
    /\ UNCHANGED <<analysis, trail, round, calls, auditFaults>>

Progress ==
    \/ LoadIncident \/ Triaged \/ Join \/ SaveAnalysis \/ Planned \/ NodeFails
    \/ \E s \in Sources : Query(s) \/ Deliver(s)
    \/ \E a \in Agents : RunAgent(a)

Next ==
    \/ StartRun \/ Resume
    \/ Progress
    \/ LoadIncidentFails \/ SaveAnalysisFails \/ Restart
    \/ \E s \in Sources : QueryFails(s)
    \/ \E a \in Agents : ThinkFails(a)

(* The event loop goes on with a call; people and failures are not fair.   *)
Spec == Init /\ [][Next]_vars
FairSpec == Spec /\ WF_vars(Progress)

---------------------------------------------------------------------------
(* Types; between calls no agent is at work; and only the agents of the    *)
(* node the thread is at are.                                              *)
TypeOK ==
    /\ active \in BOOLEAN
    /\ next \in Unfinished \cup {"unstarted", "planned"}
    /\ channels \in [Sources -> Evidence \cup {None}]
    /\ pending \in [Sources -> Evidence \cup {None}]
    /\ stage \in [Agents -> Stages]
    /\ answer \in {"none", "planned", "error"}
    /\ round \in 0 .. calls /\ calls \in 0 .. MaxCalls /\ brokenCall \in 0 .. calls
    /\ workFaults \in Nat /\ auditFaults \in Nat /\ workFaults + auditFaults <= MaxFaults
    /\ ~active => stage = Idle
    /\ \A a \in Agents : stage[a] # "off" =>
          IF a \in Sources THEN next = "evidence" ELSE next = a

(* "Audit must not break the incident workflow." (_record_event): a call   *)
(* fails only if something it works with failed during that call.          *)
AuditNeverFailsTheRun == answer = "error" => brokenCall = calls

(* No execution of an agent is recorded both as completed and as failed,   *)
(* although the records of the success are written inside the try.         *)
OneVerdict ==
    \A a \in Agents, c \in 1 .. calls :
        ~ {[table |-> "run", actor |-> a, what |-> w, call |-> c] : w \in {"completed", "failed"}}
             \subseteq trail

(* Evidence of the thread, also of a branch whose superstep failed, has    *)
(* its agent run and both its events, unless an audit write was lost.      *)
TraceOf(s, c) ==
    {[table |-> "event", actor |-> s, what |-> "agent_started", call |-> c],
     [table |-> "run", actor |-> s, what |-> "completed", call |-> c],
     [table |-> "event", actor |-> s, what |-> "agent_completed", call |-> c]}
EvidenceIsAudited ==
    auditFaults = 0 =>
        \A s \in Sources : \A e \in {channels[s], pending[s]} \ {None} :
            TraceOf(s, e.call) \subseteq trail

(* The planner works on evidence of the run it belongs to, all three       *)
(* kinds, and incident-api keeps the very evidence and plan the thread     *)
(* goes on with, however many calls failed on the way.                     *)
FreshAnalysis ==
    /\ next \in {"planner", "planned"} =>
          \A s \in Sources : channels[s] # None /\ channels[s].round = round
    /\ next = "planned" => analysis = [evidence |-> channels, plan |-> plan]

(* Strong evidence of a regression leads to a rollback plan whatever the   *)
(* reasoner answered (the guardrail of planner_agent).  It is part of      *)
(* ImplementsInvestigation.                                                *)
StrongEvidenceHasPlan ==
    (next = "planned" /\ Fallback.action # None) => plan.action # None

(* From outside, the fan-out is the one step Workflow takes it for: the    *)
(* thread has the evidence of all three agents, of its own run, or none of *)
(* it; what branches, failures, restarts and resumes leave in between      *)
(* never shows; and it goes on with a plan incident-api has for that very  *)
(* evidence, with a rollback if the evidence asks for one.                 *)
Promise == INSTANCE Investigation WITH running <- active, at <- next, evidence <- channels
ImplementsInvestigation == Promise!Spec

(* What an agent has before it at most, and the nodes after the thread's.  *)
AgentLeft == [query |-> 7, start |-> 6, think |-> 5, completed_run |-> 4, failed_run |-> 4,
              completed_event |-> 3, failed_event |-> 3, returned |-> 2, saved |-> 1,
              failed |-> 1, done |-> 0, off |-> 0]
NodesAfter == [load_incident |-> 34, triage |-> 27, evidence |-> 7, planner |-> 0]
StepsLeft ==
    NodesAfter[next] + AgentLeft[stage["triage"]] + AgentLeft[stage["change"]]
        + AgentLeft[stage["log"]] + AgentLeft[stage["dependency"]] + AgentLeft[stage["planner"]]

(* Whichever agents finish, fail or are cancelled and whatever audit write *)
(* is lost, every step of a call ends it or brings it nearer to its end: 34*)
(* steps at most, no agent starts again (_run_agent, the edges from triage *)
(* to the planner).                                                        *)
InvestigationsRunDown == [][active => ~active' \/ StepsLeft' < StepsLeft]_vars

(* Every call ends: the barrier does not wait for a branch that failed.    *)
EveryInvestigationEnds == active ~> ~active
=============================================================================
