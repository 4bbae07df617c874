# GraphOps: verification project

GraphOps diagnoses a production incident with a graph of agents, proposes a rollback, waits for a
person's approval, executes the rollback once, verifies the recovery and writes a report. Three
processes share the work: the Python *orchestrator* (a LangGraph graph behind two HTTP endpoints), the
Go service *incident-api* (the incident, its analysis, approval, report and audit trail) and the Go
service *ops-gateway* (evidence queries, the rollback, its receipt, the verification). Redis holds two
kinds of keys, MySQL the tables, SQLite the LangGraph checkpoints.

The interesting questions are about control, not data: what may run at the same time, what a failure
or a restart leaves behind, and whether a rollback can happen without, or against, a person's decision.

## 1. Inventory

| component | state | operations | hard behaviour | what makes it correct |
|---|---|---|---|---|
| run lock (`redis_runtime.py`) | Redis key `runlock:incident:<id>` | SET NX EX, DEL in a `finally` | fixed TTL, DEL without looking at the owner, lost replies, process death, no Redis at all | one call per incident while keys outlive their calls, one more per key that does not; the key is always freed |
| workflow graph (`graph.py`) | the LangGraph thread of the incident: channels (`GraphState`), pending node, interrupt | `run`, `resume`, twelve nodes, three conditional edges | failure between a remote effect and the checkpoint, re-execution of the pending node, stale channels of earlier runs, late answers, a second call | no rollback without or against approval; receipt, status and answer agree; every call ends |
| checkpointer (`checkpointer.py`) | SQLite file, or memory | save and load a checkpoint | a restart with the memory backend | a waiting incident has a thread to resume |
| reasoners (`llm.py`, `prompts.py`, `report_skill.py`) | none | triage, evidence, plan, critique, policy, report | an LLM answers anything its schema allows | the graph is safe whatever they answer |
| diagnosis (`logic.py`) | none | `plan_diagnosis`, `build_final_report` | thresholds and empty evidence | a rollback is planned only on release-regression evidence |
| HTTP clients (`clients.py`) | none | one POST or GET with a 10 s time-out | a request carried out after its time-out | none of its own |
| incident-api store (`store.go`, `mysql_store.go`) | incident, status, approval, analysis, report, events, agent runs | create, SaveAnalysis, SaveReport, ReviewIncident, RecordEvent, RecordAgentRun, reads | writes without any guard on the earlier status; reads in several statements | the status says what happened |
| incident-api server (`server.go`, `demo_handlers.go`) | none | handlers, proxy to the orchestrator with a 15 s time-out | the proxy gives up on a run that goes on | none of its own |
| demo console (`app.js`) | the page: `state.incidentId`, the last answer, local storage, buttons | simulation, auto-approval, approve and reject, load from the history, restore, refresh | awaits between reads of one mutable incident id; failed fetches; `finally` clauses that enable buttons | the page shows one incident, and a decision is about that one |
| ops-gateway MySQL store (`opsgateway/mysql_store.go`, `redis.go`) | table `action_receipts`, Redis key `idemp:rollback:<id>:<target>` | rollback, verify, three read-only queries | two requests of one key interleave; Redis and MySQL fail separately; a crash leaves `pending` | one receipt per key, the same one for everybody |
| ops-gateway memory store (`opsgateway/store.go`) | maps under a mutex | the same | forgets everything on a restart, shares nothing between processes, ignores what Redis answers | atomic, one receipt per key in a process's life |
| scenarios (`mockdata.go`) | constant data: evidence and verifications of each playbook | - | data and rules are in two languages | what is rolled back is what recovers by it |
| telemetry, scripts, schema | counters, tables | - | - | - |

The calls between them: the console or a script calls `run` and `resume` of the orchestrator (the console
through incident-api's proxy); `resume` first posts the review to incident-api, then continues the graph;
the nodes post the analysis and the report to incident-api and the rollback and verification to
ops-gateway. Nothing calls back: incident-api does not tell the orchestrator of a review posted to it
directly.

## 2. Modules

| module | models | source |
|---|---|---|
| `RunLock` | the run lock of one incident | `redis_runtime.py` |
| `Workflow` (EXTENDS `RunLock`) | the life of one incident: calls, graph thread, checkpoint, incident status, receipts | `graph.py`, `app.py`, `checkpointer.py`, the decisions of `llm.py` and `logic.py`, the status rules of incident-api, the atomic gateway operations |
| `IdempotentRollback` | what the rollback endpoint promises (abstract) | `opsgateway/store.go`, README |
| `MySQLGateway` | rollback and verify, one step per Redis command or SQL statement; shown to implement `IdempotentRollback` | `opsgateway/mysql_store.go` |
| `Diagnosis` | which evidence leads to which hypothesis and to a rollback plan | `logic.py` |
| `Investigation` | what a call does from `load_incident` to the planner, with the three agents as one step (abstract) | `graph.py`, `logic.py` |
| `EvidenceFanOut` (EXTENDS `Diagnosis`) | triage, the three parallel evidence agents and the planner, with the audit trail; shown to implement `Investigation` | `graph.py` (`_run_agent`, `_record_event`, nodes up to the planner), `logic.py`, `clients.py` |
| `StatusRules` | the status each write gives an incident, shared by the three modules that write one | `incidentapi/store.go` |
| `MemoryStore` (EXTENDS `StatusRules`) | one incident, every operation atomic (abstract) | `incidentapi/store.go` |
| `MySQLIncidents` (EXTENDS `StatusRules`) | the same, one step per SQL statement; shown to implement `MemoryStore` | `incidentapi/mysql_store.go`, `server.go` |
| `Scenarios` (EXTENDS `Diagnosis`) | the evidence of each playbook, what it verifies to, and what the rules plan for it | `mockdata.go`, `llm.py` |
| `MemoryGateway` (EXTENDS `Scenarios`) | several processes with the in-memory store, serving workflows of several incidents | `opsgateway/store.go`, `server.go` |
| `DemoConsole` | the console page, its asynchronous functions and the person in front of it | `app.js`, `demo_handlers.go`, read handlers of `server.go` |
| `MCWorkflow`, `MCGateway`, `MCIncidents`, `MCEvidence`, `MCMemoryGateway` | constants and symmetry for TLC | - |
| `RunLockProofs`, `WorkflowProofs`, `WorkflowStateProofs`, `MySQLGatewayProofs`, `MySQLIncidentsProofs`, `EvidenceFanOutProofs`, `MemoryGatewayProofs`, `DemoConsoleProofs` | theorems and their proofs | - |

`Workflow` contains the lock (`EXTENDS RunLock`) and uses the status rules as they are; what it does to the
incident and the receipts in one step is what `MemoryStore` and `IdempotentRollback` do, and the two detailed
modules show that the MySQL stores do the same statement by statement.

### RunLock

`runlock` is the Redis key, `held` the calls between `yield` and `finally`. The code writes the host name,
the same for all requests of the process, and never reads it; the model writes the request that created
the key instead, which no action decides by, so that ownership can be talked about.

Nothing in the code keeps a run within the key's TTL (600 s), so the key may expire at any moment, also under the call
that created it: an *overrun*. The DEL of that call then removes whatever key is there, its successor's perhaps. Two
history variables count this: `overran` the overruns so far, `overruns` those since the incident was last
without a call. `OneMorePerOverrun` says what exclusion is worth then: at most `1 + overruns` calls are inside.
`NoOverrun` is the condition under which `Workflow` claims what two calls on one thread would break.

### Workflow

One incident (incidents share no key, thread, row or receipt). A call `r` is a record of variables:
`phase[r]` (`idle`, `locked`, `reviewed`, `node`, `commit`, `respond`), `call[r]`, its copy of the channels
`vals[r]`, the node `next[r]`. `saved` is the thread's last checkpoint. `status` and `approval` are
incident-api's, `receipts` the gateway's. A node is two steps, its work with all its remote calls, then its
checkpoint, so a failure (`CallFails`) or a restart between the two leaves a remote effect whose result is
lost; the next resume re-executes the node, the next run starts over with the old channels.

LangGraph is external. What the model takes from it is what `graph.py` relies on: a checkpoint after each
superstep; a new input discards the pending node and keeps the channel values; `Command(resume=...)`
re-executes the pending node, and on a thread with nothing pending executes nothing; `interrupt()` returns
the resume value once or pauses the thread.

Abstractions: the three evidence agents are one superstep without effect on control (`EvidenceFanOut` opens it up);
their findings enter as the constants `Diagnosis` and `EvidenceEnough`. With `Rules` the planner, critic and policy answer what
the rules compute; without it they answer anything of their schemas (`LLMPlans`). Audit events and agent
runs are best effort and left to `EvidenceFanOut`, which shows that they cannot fail a call. Writes to incident-api happen before their caller gives up or not at
all; of the rollback it is modelled that it may be carried out after the client's time-out (`late`).
Ten seconds bound each remote call, so a lost answer is the same as a failure after the effect.

`StepsLeft` counts what a call has before it at most: two steps per node, twelve nodes with one replan. `CallsRunDown` says
that every step of a call lowers it, which is why no fairness is needed to see that the replan loop ends.

### EvidenceFanOut and Diagnosis

The part of the graph from `load_incident` to the saved analysis, where `Workflow` has one step per node.
`stage[a]` says where agent `a` is in `_run_agent`: before `agent_started`, at its work, before each of the two
records of its success or of its failure, or returned. `output` is what the work returned, `trail` the
incident's events and agent runs, each with the call it was written in. An audit write succeeds or is `Lost`; one
whose reply is lost is one that succeeded, as the caller ignores both. `pending` holds what finished branches of
an unfinished superstep returned, `channels` the evidence the thread has, `analysis` what incident-api was given.
Evidence carries the run (`round`) and the call it was gathered in, which no action reads: the properties do.

LangGraph is external here too. The first branch that raises ends the superstep and cancels the others
(`NodeFails`); a `CancelledError` passes `except Exception`, so a cancelled agent leaves `agent_started` without
an end. What finished branches returned stays with the thread, a resume executes only the others, and a new input
starts over. A restart with SQLite keeps the thread, but the writes of finished branches may not have reached
the file; a restart with the memory saver forgets everything.

An agent's summary is the set of signals `plan_diagnosis` finds in it. `Findings` and `PlannerAnswers` are what the
evidence agents and the planner may answer, an LLM's incomplete answers among them; a run of the rules reasoner
is one of these. Critic, replan and everything later is `Workflow`'s.

`Investigation` is what `Workflow` takes this part for: one node after another, the evidence of all three agents there at
once or not at all, always of the run the thread is in, and a plan saved for that very evidence, with the deterministic
one as the fallback. `ImplementsInvestigation` maps `active`, `next` and `channels` onto it; stages, branches' results and
audit do not show. That strong evidence ends in a rollback plan (`StrongEvidenceHasPlan`) is part of it.

### MySQLGateway and IdempotentRollback

A call is one HTTP request; `pc[c]` names the next statement. Every Redis command and every SQL statement
may fail (with or without effect where the code cannot tell), a key may expire at any moment, the gateway
may die between any two statements. `table` has at most one row per key: that is the UNIQUE KEY of
`action_receipts`. History variables `excused` and `owed` only serve the properties.

`IdempotentRollback` is the promise: the first call that gets there executes, every answered call gets that
receipt, a failed call promises nothing. `KeepsPromise` maps `table`, `reply` and the failed calls onto it.

### MySQLIncidents and MemoryStore

`db` is what is committed (the incident's row, its approval row, the evidence items), `tx[c]` the transaction
of a call: the committed state with the call's writes, from its UPDATE to its COMMIT. `pc[c]` names the next
statement. An UPDATE waits while another transaction has written the row. Any statement may fail, a
COMMIT or an autocommitted UPDATE may also take effect and lose its answer, and the process may die; the
deferred `tx.Rollback` of the code is `RolledBack`. After its write a call reads the incident back with the
two SELECTs of `GetIncident`; `seen[c]` is the status the first one returned. `HasScenarioColumn` says whether
the schema is one that once had `incidents.scenario_key`, which the first SELECT names.

`ImplementsMemoryStore` maps `db` onto `MemoryStore`'s `incident`: an analysis or a review happens at its
COMMIT, a report at its UPDATE, and a failed call either happened or did not. The one difference left out is
a report that is `null`: the memory store accepts it, MySQL refuses it; no caller sends it.

### MemoryGateway and Scenarios

`Workflow` keeps one incident and one gateway process. `MemoryGateway` has several of both: `receipts[g]` is
`receiptsByKey` of process `g`, indexed by incident and target because the orchestrator's key is
`incident:action:target`; `receiptKey[g]` is `receiptKeyByInc`, `issued[g]` the receipt counter, `life[g]` the number
of restarts, which no action reads. `rolledBackByInc` is set together with `receiptKeyByInc`, so it is not a variable of
its own. Every operation holds the mutex from its first to its last line and is one step; an answer may be
lost, and then the caller asks again, another process perhaps. A call to Redis changes nothing a caller can see: if
SETNX says that the key is taken, the code looks into the same map again, under the same lock.

A scenario is, per query, a sequence of items, and an item the set of signals `plan_diagnosis` finds in its summary
(`Scenarios`). Its operator `Investigation` runs `plan_diagnosis` on them as the rules reasoner does. The eighteen numbered playbooks
differ in revisions and references only and are represented by one; an incident may also name no playbook, which means the
first, or one that does not exist.

### DemoConsole

A browser runs JavaScript from one `await` to the next without interruption. `flow[f]` is an asynchronous function in
flight: `op` what was clicked, `at` the fetch it waits for, `asks` the incident that fetch names, which is what
`state.incidentId` was when it was sent, `parts` what its earlier fetches were of. A step is a click, or one fetch's
answer with all code up to the next fetch. `page` says of which incident the four parts of the page are, `message`
whether the status line reports a failure, `stored` the local storage. Behind the page, `thread[i]` is how far the
servers are with an incident: what a run or a decision may make of it (`Outcomes`), what it may leave when it fails
(`Leftovers`), and `late` the calls that the proxy or the page has given up on and that are carried out all the same.
How they are carried out is `Workflow`'s.

A function that comes back to `refreshIncidentBundle` after a failed restore has reset `state.incidentId` ends at once
and without an error (`Returns`); a decision for an incident whose run never started is recorded and answered
with an error (`TooEarly`).

`torn` and `hurried` are history variables. When `state.incidentId` changes while a function is in the middle of its four
fetches (an incident is loaded, created, or a restore fails), nothing in app.js keeps that function from showing parts of two
incidents: it is in `torn`, and once it has rendered, the page is. `PageIsOneIncident` says that nothing else
mixes two incidents and that the next rendering repairs it, whatever functions run into each other. `hurried`: a click was made before the one
before it was done, or a decision under a failed fetch; a click on approve is then sent for the incident being loaded and
not for the one shown, so `DecisionFitsPage` excludes it. `FairSpec` is that every fetch is answered, which
browsers, proxy (15 s) and servers guarantee by their time-outs; nothing is assumed of the person.

## 3. Runs

| run | states | bounds | properties | what it shows |
|---|---|---|---|---|
| `workflow_rules` | 1,796,628 | 3 callers, 2 reviewers, 4 calls, 1 fault or overrun | `ExecutorApproved`, `ReceiptsAgree`, `RecoveredWasRolledBack`, `PausedIsVisible`, `WaitingCanResume`, `OneMorePerOverrun`, `SuccessMeansRollback` | The deployed configuration (rules reasoner, Redis lock, SQLite checkpoints, durable receipts), three concurrent callers, two reviewers, direct reviews, one fault, which may be a key that expires under its call: a receipt names an approver, recovered and success mean a rollback, receipts, statuses and the paused thread agree; an overrun lets in one call more and its DEL no second one. |
| `workflow_llm` | 550,031 | 1 caller at a time, 1 reviewer, 3 calls, 2 faults, 4 plans | `TypeOK`, `RecoveredWasRolledBack`, `EveryCallEnds`, `LockIsFreed`, `CallsRunDown` | An LLM reasoner that answers anything its schemas allow, MemorySaver and the in-memory gateway store, so that restarts forget checkpoints and receipts, with late rollbacks: types and the replan bound, no recovery without a rollback, every step of a call brings it nearer to its end, every call ends and the lock is always freed. |
| `workflow_nofault` | 48,028 | 2 callers, 2 reviewers, 5 calls | `RejectionHolds`, `ApprovalIsCarriedOut`, `RunAnswerAgrees` | Without failures, five calls in any order: a rejection is respected, an approval of the paused thread is carried out, the answer of a run agrees with incident-api. |
| `gateway` | 211,961 | 3 calls, 2 targets, 2 executors, 2 faults | `TypeOK`, `ErrorHasCause`, `NoOrphanedKey`, `VerifySeesRollback`, `KeepsPromise` | Three rollback or verify requests of two targets, interleaved statement by statement with two failures, key expiry and restarts: the MySQL gateway implements the abstract idempotent rollback. |
| `incidents` | 122,754 | 2 callers (unbounded calls), 7 requests, 1 fault | `TypeOK`, `EvidenceMatchesAnalysis`, `ReviewedReplyHasApproval`, `FailsForAReason`, `EveryCallAnswered`, `ImplementsMemoryStore` | Two callers post analyses, reports and reviews and read the incident for ever, interleaved statement by statement, with a failed statement, a lost reply or a process death anywhere: the MySQL store implements the memory store. |
| `evidence` | 301,812 | 2 calls, 1 failure, restart or lost write, 2 findings per agent | `TypeOK`, `AuditNeverFailsTheRun`, `OneVerdict`, `EvidenceIsAudited`, `FreshAnalysis`, `EveryInvestigationEnds`, `ImplementsInvestigation` | Two calls, the second a new run or a resume, through triage, the three parallel agents and the planner, with one failure, restart or lost audit write between any two steps: seen from outside the fan-out is one step on evidence of its own run. |
| `console` | 117,164 | 3 clicks or page loads, 2 incidents, 2 functions in flight, 2 failed fetches | `TypeOK`, `PageIsOneIncident`, `DecisionFitsPage`, `RunButtonReturns` | Three clicks or page loads (simulate with or without auto-approval, approve or reject, load from the history, reload) on two incidents, two functions in flight, two failed fetches: page, decision and buttons stay together. |
| `memory_gateway` | 1,109,093 | 2 processes, 3 workflows, 2 incidents, 2 services, 4 playbook keys, 2 faults | `TypeOK`, `OneReceiptPerLife`, `RecoversAsPlanned` | Two gateway processes with the in-memory store serve three workflows of two incidents with playbooks of every kind, with two restarts or lost answers: one receipt per life, and plans that fit the scenarios. |

Every property is stated, with the code it is about, in a comment above its definition. Each one is broken
by at least one plausible slip in the mapped code (`mutants` in `PROJECT.json`; the slips are the operators
marked "A plausible slip" in the modules).

Bounds. In `workflow_rules` three callers meet: the one whose key has expired, its successor, and the third that a stray DEL
could let in; callers and reviewers are interchangeable (`PeopleSymmetry`). Elsewhere two calls at once are enough; two reviewers distinguish "somebody approved" from "this one
approved"; two targets and four LLM answers let a plan change between runs. `MaxCalls` counts accepted
calls, conflicts and direct reviews: 4 covers run, failed approval, rejection, re-run. `MaxFaults` counts failures, restarts and
overruns together: one with three callers (two would be tens of millions of states), two in `workflow_llm`, which covers
a failure during the recovery from a failure. Three gateway requests are two rivals and a verification, or
a winner, a loser and a late retry. In
`incidents` the two callers call again for ever, so there is no bound on the number of calls; a third caller
could only wait for the row lock as the second does. In `evidence` one call leaves something behind and the second, a new run
or a resume, meets it; failures, restarts and lost audit writes share one bound of 1, because each of them can
strike between any two steps of five agents and two would be millions of states; the proofs have no such bound. In `console`
three clicks are a simulation, a load from the history and a decision, or a reload among them; four clicks with one
failure have been checked too (before `torn` was added: 857,145 states). In `memory_gateway` three workflows are two rivals of one incident and one
of another, and two faults a lost answer and the restart before it is asked again. The violation runs use the smallest bounds that show the fact.

Fairness (`FairSpec`): an accepted call keeps taking its steps (the event loop runs every ready task, and
each remote call returns or fails within its time-out), and Redis expires keys. Nothing is assumed of
people, of faults, or of a call being made. The liveness properties hold with `MaxFaults` faults anywhere.
The LLM transport has no deadline of its own (`llm.py:286`), so for an Ollama model that never answers the
first assumption is one about the model server.

In `EvidenceFanOut` fairness is `WF_vars(Progress)`: some agent or the barrier takes its next step while a call runs.
It never includes a failure, so that a barrier which waited for a branch that had failed would be found.

In `MySQLIncidents` fairness is strong: a call waiting for the row's lock gets it in its turn, as InnoDB grants
locks first come first served, although other calls take it in between.

CHECK_DEADLOCK is FALSE for `Workflow`, `MySQLGateway`, `EvidenceFanOut`, `DemoConsole` and `MemoryGateway` because the bounds stop the model and the program itself
may rest for ever; `incidents` is checked for deadlock.

## 4. What the violation runs show

* `workflow_rejected` (`RejectionHolds`, `src/orchestrator/graphops_orchestrator/graph.py:114`): A thread whose approved rollback_action failed keeps that node pending. A later resume with approved=false records the rejection at incident-api and then re-executes the pending rollback_action (Command(resume) gives its value only to interrupt()), so a rollback is executed after the reviewer's rejection. src/README.md:121 draws the rejected branch as `G -->|rejected| J` (straight to the report) and src/设计方案.md:360 says "执行前必须有审批结果。" (an approval result is required before executing).
* `workflow_allow` (`RollbackNeedsApproval`, `src/orchestrator/graphops_orchestrator/graph.py:780`): route_after_policy sends an "allow" decision straight to rollback_action whatever the plan's requires_approval and risk_level, and with an Ollama reasoner the decision is the model's. src/设计方案.md:527 says "所有高风险写操作必须人工审批。" (all high-risk writes must be approved by a person) and src/设计方案.md:359 "LLM 只提议，不直接执行。"
* `incidents_fresh` (`FailsForAReason`, `src/internal/incidentapi/mysql_store.go:63`): GetIncident selects COALESCE(playbook_key, scenario_key, ''), but sql/migrations/001_init.sql creates incidents without scenario_key (lines 1-13) and only relaxes the column where an older schema has it (line 147). On a fresh database every read, and every write after its commit, is answered 500; the orchestrator cannot even load an incident. src/README.md:358 lists "规则模式 + MySQL：" (rules mode with MySQL) as a way to run the system.
* `console_decides` (`DecidesWhatWaits`, `src/internal/incidentapi/demo/app.js:178`): The finally of resumeIncident enables the approve and reject buttons after refreshIncidentBundle has just disabled them (renderApprovalBar), although src/internal/incidentapi/demo/app.js:739 says "运行主场景后，如果进入 waiting_for_approval，这里会显示回滚摘要，并提供批准 / 拒绝按键。" (the buttons are offered if the incident waits for approval). A second click posts another decision for the finished incident: incident-api overwrites its status and approval, and the graph has nothing to resume. app.js:734 has the same effect with `state.runResponse?.interrupt` of an earlier run when another incident is loaded from the history.

## 5. Proofs

TLAPS proves, for every value of the constants (any number of calls, faults, reviewers, targets, any plan):

| module | theorem | property | what it says |
|---|---|---|---|
| `RunLockProofs` | `MutualExclusion` | - | With Redis, at most one call works on the incident until a key expires under its call, for any set of callers, lost replies, failed DELs and deaths (OneRunAtATime). |
| `RunLockProofs` | `StrayDeleteCostsNoMore` | `OneMorePerOverrun` | Every key that expires under its call lets in one call more than allowed; the DEL of the overrun call, which may remove its successor's key, lets in no second one. No assumption about how long a run takes. |
| `WorkflowProofs` | `WorkflowTypeCorrect` | `TypeOK` | Type correctness of the whole workflow, the replan bound and the pairing of node and channels included. |
| `WorkflowProofs` | `NoRollbackWithoutApproval` | - | With the rules reasoner no rollback is executed before somebody has approved, in any configuration, with forgotten receipts and without the lock too (RollbackNeedsApproval). |
| `WorkflowProofs` | `ReceiptsNameAnApprover` | `ExecutorApproved` | With the rules reasoner every receipt's executor is a person who approved. |
| `WorkflowProofs` | `WorkflowUsesLock` | - | Every behaviour of the workflow is, for the lock's variables, a behaviour of RunLock: step refinement of the component specification. |
| `WorkflowProofs` | `WorkflowMutualExclusion` | - | The same of the whole workflow: at most one call at a time until a key expires under its call. |
| `WorkflowProofs` | `WorkflowOverruns` | `OneMorePerOverrun` | The bound on the calls inside carried over to the whole workflow, for any calls, faults and overruns. |
| `MySQLGatewayProofs` | `GatewayTypeCorrect` | `TypeOK` | Type correctness of the statement-level gateway. |
| `MySQLGatewayProofs` | `AnswersAlwaysAgree` | - | Every answered rollback carries the one row of its key, for any number of calls and failures (AnswersAgree). |
| `MySQLGatewayProofs` | `ErrorsHaveCause` | `ErrorHasCause` | No stale Redis key, Redis failure or earlier crash makes a rollback of a known scenario fail. |
| `MySQLGatewayProofs` | `VerifyAlwaysSees` | `VerifySeesRollback` | A verification that starts after an answered rollback sees it and marks its row. |
| `MySQLGatewayProofs` | `KeysNeverOrphaned` | `NoOrphanedKey` | Without failures no pending key is left behind without a row. |
| `MySQLGatewayProofs` | `GatewayKeepsPromise` | `KeepsPromise` | The statement-level handlers implement the abstract idempotent rollback (refinement). |
| `MySQLIncidentsProofs` | `StoreTypeCorrect` | `TypeOK` | Types, and at most one transaction has the incident's row, for any calls and failures. |
| `MySQLIncidentsProofs` | `EvidenceAlwaysMatches` | `EvidenceMatchesAnalysis` | evidence_items always lists the evidence of analysis_json. |
| `MySQLIncidentsProofs` | `ReviewedRepliesHaveApproval` | `ReviewedReplyHasApproval` | No torn read of GetIncident says approved or rejected without an approval. |
| `MySQLIncidentsProofs` | `ErrorsNeedAFault` | `FailsForAReason` | With the legacy column, a call is answered 500 only after a failure. |
| `MySQLIncidentsProofs` | `StoreImplementsMemoryStore` | `ImplementsMemoryStore` | The MySQL store, statement by statement, implements the atomic memory store (refinement). |
| `EvidenceFanOutProofs` | `EvidenceTypeCorrect` | `TypeOK` | Types; between calls no agent is at work, and only the agents of the node the thread is at are, for any number of calls and failures. |
| `EvidenceFanOutProofs` | `AuditIsHarmless` | `AuditNeverFailsTheRun` | However many audit writes are lost, a call fails only for a failure of something it works with. |
| `EvidenceFanOutProofs` | `OneVerdictOnly` | `OneVerdict` | No execution of an agent is recorded as completed and as failed, for any number of calls, failures and lost writes. |
| `EvidenceFanOutProofs` | `EvidenceHasItsTrace` | `EvidenceIsAudited` | While no audit write is lost, all evidence of a thread has its agent run and both its events, over any chain of failed and resumed calls. |
| `EvidenceFanOutProofs` | `AnalysisIsFresh` | `FreshAnalysis` | The planner only ever sees complete evidence of its own run, and incident-api keeps the plan and evidence the thread goes on with. |
| `EvidenceFanOutProofs` | `FanOutIsOneStep` | `ImplementsInvestigation` | The fan-out with its branches, failures, restarts and resumes implements the abstract investigation in which the three agents are one step (refinement), for any findings and answers. |
| `EvidenceFanOutProofs` | `InvestigationsAlwaysRunDown` | - | Each step of a call ends it or lowers a count that starts at 34: no agent starts twice in a call, whatever fails or is lost (InvestigationsRunDown). |
| `EvidenceFanOutProofs` | `GuardrailHolds` | - | Strong evidence of a regression always ends in a rollback plan, whatever the reasoner answers (StrongEvidenceHasPlan). |
| `WorkflowStateProofs` | `RecoveredIsEarned` | `RecoveredWasRolledBack` | In every configuration, an incident is recovered only if a rollback was executed for it. |
| `WorkflowStateProofs` | `ReceiptsAlwaysAgree` | `ReceiptsAgree` | With durable receipts, a receipt in a thread, an answer or a report is the gateway's, for any calls, faults and late rollbacks. |
| `WorkflowStateProofs` | `WaitingIncidentsCanResume` | `WaitingCanResume` | With SQLite and the lock, and until a key expires under its call, an incident that waits for approval always has a thread to resume. |
| `WorkflowStateProofs` | `PausedThreadsAreVisible` | `PausedIsVisible` | With the rules reasoner and the lock, and until a key expires under its call, a paused thread's incident waits for approval or was reviewed by a person. |
| `WorkflowStateProofs` | `RejectionIsRespected` | `RejectionHolds` | Without failures and direct reviews, no rollback is executed after a rejection, for any number of calls. |
| `WorkflowStateProofs` | `RunAnswersAgree` | `RunAnswerAgrees` | With the rules, the lock and no direct reviews, and until a key expires under its call, an answer that is no error names the status the incident has, for any calls and faults. |
| `WorkflowStateProofs` | `SuccessIsEarned` | `SuccessMeansRollback` | With the rules and the run lock, and until a key expires under its call, whoever is told completed or recovered, a rollback was executed: stale channels, failures and re-executed nodes never look like success. |
| `WorkflowStateProofs` | `CallsAlwaysRunDown` | `CallsRunDown` | In every configuration each step of a call lowers a count that starts at 27: the replan loop ends and no call executes more than twelve nodes, whatever the reasoner answers. |
| `DemoConsoleProofs` | `ConsoleTypeCorrect` | `TypeOK` | Types, which fetches belong to which click, and which incidents a function may name, for any number of incidents, flows, clicks and failures. |
| `DemoConsoleProofs` | `PageIsAlwaysOneIncident` | `PageIsOneIncident` | At rest the page is of the one incident its buttons decide about, also when functions ran into each other, unless state.incidentId changed during the fetches of the last page shown or a failed fetch is reported. |
| `DemoConsoleProofs` | `DecisionsFitPage` | `DecisionFitsPage` | A decision is sent for the incident the page shows: that of a person who does not hurry, and that of auto-approve also among other functions, unless state.incidentId changed while it fetched. |
| `MemoryGatewayProofs` | `MemoryGatewayTypeCorrect` | `TypeOK` | Types, and a process that knows of a rollback has its last receipt, for any workflows, processes and restarts. |
| `MemoryGatewayProofs` | `ReceiptsAreUnique` | `OneReceiptPerLife` | One receipt per target of an incident within a process's life, for any number of workflows, processes, restarts and lost answers. |
| `MemoryGatewayProofs` | `PlansFitScenarios` | `RecoversAsPlanned` | plan_diagnosis and the scenario data fit each other: exactly what recovers by a rollback is rolled back, and nothing else is reported as recovered. |

Arguments and strengthenings:

* `RunLock`: two arguments. `LockInv` - with Redis, every call inside has its own key in Redis, and one key cannot be two -
  is inductive until the first overrun, so `MutualExclusion` is `[](NoOverrun => OneRunAtATime)`. `OverrunInv` needs no such
  condition: the calls inside whose key is gone, by expiry or by another call's DEL (`Uncovered`), are no more than the
  overruns. An expiry under its call adds one to both; a call that leaves with a foreign key uncovers that key's owner and
  takes itself away, which is why the DEL without a look at the owner costs nothing beyond the overrun (`StrayDeleteCostsNoMore`).
* `Workflow`, types: `WInv` adds to `TypeOK` that a thread (every call's copy and the checkpoint) about to enter
  `approval_gate` or `rollback_action` has a plan and one before the critic has used at most one replan, and
  that only a resume has a decision to hand over.
* `Workflow`, approval (`Rules`): `ApprovalInv` - a thread at `rollback_action`, a late request and a receipt all name
  a reviewer who is in `approvers`, and a resume's review is recorded before its decision is used; the plan
  always requires approval, so the rules' policy never answers `allow`.
* `Workflow`, data: `DataInv` - every receipt in a copy of the channels, in the checkpoint, in an answer or on its way
  late is backed by one that was executed, and with durable receipts it is the one the gateway has, because the
  gateway's receipts only grow (`GatewayGrows`). A status `recovered` is set from such a receipt.
* `Workflow`, thread (`UseRedis`; `NoOverrun` in the properties): mutual exclusion makes one call the only writer of thread and status
  (`Alone`), so `ThreadInv`, `VisibleInv` and `DecisionInv` relate the incident's status to the node the thread is at, from the
  analysis to the pause and from the decision to its last node. `RejectionIsRespected` needs `MaxFaults = 0`: with one failure it
  is false (run `workflow_rejected`).
* `Workflow`, answers (`Rules`, `UseRedis`; `NoOverrun` in the properties): `AnswerInv` - with a plan a run is on its way to the gate and the incident
  waits from the planner on; without one nothing is ever decided, executed or answered late. For `RunAnswerAgrees` it needs
  `~DirectReviews` too: TLC shows that a direct review, or an LLM, makes a run's answer differ from the status. `ServedInv` - a thread
  with a plan that is at the verification or later was rejected or has had a rollback executed, and a call answers from
  a finished thread or from the gate. `SuccessMeansRollback` follows; with an LLM policy that denies it is false, and
  after an overrun too: a call then answers from the checkpoint of another whose approval is not carried out yet.
* `Workflow`, progress (no hypothesis): each node leads to one with fewer nodes before it (`NodesLeft`),
  because a replan is possible once per run and `load_incident` resets its count only where the count starts. It is the part of
  `EveryCallEnds` that is about the program; the rest is the fairness of the event loop.
* `WorkflowUsesLock`: every step of `Workflow` is a step of `RunLock` or leaves its variables alone; the lock's
  theorems carry over.
* `MySQLGateway`: `GInv` - a call past its INSERT owns the row of its target, an answer is that row, a row has
  every open rival excused. `PendingHasWorker` is for `NoOrphanedKey`. The refinement is proved step by step:
  each action is `Ask`, `Execute`, `Answer`, `Fail` or a stutter.

* `MySQLIncidents`: `IInv` - a transaction is the committed state plus the writes of its statements so far
  (`Written`), which is inductive because only one call can have the row (`TypeOK`); `ReviewHasApproval` says of
  the committed status, and of one already read, what `ReviewedReplyHasApproval` says of an answer. The refinement
  follows: what a COMMIT makes visible is `Updated(db.row, req[c])`, one operation of `MemoryStore`.

* `EvidenceFanOut`: `TInv` adds to `TypeOK` that an agent past its work has an answer and a branch that is done its
  evidence. `BInv`: an agent on its failing path is there for a failure of this call. `VInv`: an agent whose work
  is not over, or whose turn is to come, has no verdict of this call, and no later call has one. `FInv`: kept evidence
  is of the thread's run, and what was saved is what the thread will go on with. `AInv`: an agent past its start,
  its work and its records has left the one, two and three records of this call, and records are never taken back.
  The refinement needs of these that what was saved is the thread's (`FInv`), and `PendingIsOwn`: what a finished branch left is
  evidence of its own source, made from one of its findings. Each step is one step of `Investigation` or does not show.
  `InvestigationsAlwaysRunDown` adds up what the five agents have before them and what the later nodes will (34 at the start).

* `MemoryGateway`: `MInv` - ids issued in one life differ (`IdsDiffer`), a receipt that was handed out is known to its
  process while that life lasts (`HeldIsKnown`), and a workflow has a plan, and then a receipt, exactly if its playbook
  recovers by a rollback (`PlanInv`). The last rests on `ScenarioFits`, which computes `plan_diagnosis` on the evidence of
  `mockdata.go`: five signals of a release in one kind of scenario, none in the other.

* `DemoConsole`: `TInv` adds to `TypeOK` that a function in the bundle of fetches has exactly the parts it has already fetched.
  `PageInv`, while nobody has hurried: at most one function is in flight; what it asks for and the parts it has are of
  `state.incidentId`, and a decision is under way only on a page that shows that incident (`OnTrack`); with none in flight the
  page shows it unless a failed fetch is reported. A function that fails resets the incident id or reports the failure.
  `TornInv`, however many functions are in flight: a bundle that is not torn is of `state.incidentId` throughout, and at rest the
  page shows it unless the page is torn or a failure is reported. Whatever one function does to the id, the others either see no
  change or become torn (`OthersFollow`).

Assumptions: the named ASSUMEs of the modules (TLC evaluates them in every run) and, where a theorem says so,
`Rules`, `UseRedis` or `HasScenarioColumn`. How long a run takes is assumed nowhere.

`AnswersAgree` (one row answers every rollback of a key) and `StrongEvidenceHasPlan` are proved and not listed in a run, as they
follow from `KeepsPromise` and `ImplementsInvestigation`; `InvestigationsRunDown` is proved and was checked with TLC in the
configuration of `evidence`. `RollbackNeedsApproval`, which `workflow_allow` refutes for an LLM, is proved for the rules; the
passing runs check the stronger `ExecutorApproved`.

Only model-checked: the six liveness properties (`ApprovalIsCarriedOut`, `EveryCallEnds`, `LockIsFreed`, `EveryCallAnswered`,
`EveryInvestigationEnds`, `RunButtonReturns`). Liveness under fairness and ENABLED are out of the prover's reach. Every
safety and action property and every refinement that a passing run checks is also a theorem.

## 6. Not modelled

* Report wording (`report_skill.py`, `build_final_report`), prompts, the Ollama transport: nothing branches on them.
* Metrics of all three services, the metrics of a verification, the console's charts. One hazard is only there: the
  interrupt counter counts each pause twice (`graph.py:547`).
* Decoding, HTTP error codes, copies of records, filters, order and limit of the lists. The MySQL store's lists read ids and then each
  incident in a statement of its own, so an item may no longer match the filter it was selected by.
* Redis in front of the in-memory store, as it has no effect there; developer scripts.
* Incident creation is the initial state of `Workflow`, and an action of `MySQLIncidents` and `DemoConsole`.

Hazards that no property covers are listed with a note in `PROJECT.json`.

## 7. State of the plan

Done: the run lock and the workflow with all their theorems, both gateways, both incident stores, evidence and audit,
scenarios, the console.

What would come next:

* `MemoryGateway` shown to implement `IdempotentRollback` for one life of a process;
* what a decision may hit when the page is hurried (`DemoConsole`), as an invariant weaker than `DecisionFitsPage`;
* what the statuses, the paused thread and the answers still say after an overrun of the lock, beyond the approval and the receipts;
* RecordEvent and RecordAgentRun per store (a missing incident is 404 in memory, a foreign-key error and 500 in MySQL) and the
  lists statement by statement.
