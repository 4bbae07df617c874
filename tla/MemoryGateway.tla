--------------------------- MODULE MemoryGateway ---------------------------
(***************************************************************************)
(* ops-gateway with its in-memory store (store.go), serving the workflows  *)
(* of several incidents from their evidence queries to the verification.   *)
(*                                                                         *)
(* Every operation holds the store's mutex from its first to its last      *)
(* line, so it is one step.  A process forgets everything when it ends;    *)
(* its life numbers its restarts.  Redis is left out: the one branch on    *)
(* what it answers looks once more for the receipt that, under the same    *)
(* lock, was not there a moment ago.                                       *)
(***************************************************************************)
EXTENDS Scenarios

CONSTANTS
    Gateways,     \* processes that serve requests at the same time
    Workflows,    \* calls of the orchestrator
    Incidents, Targets,
    PlaybookKeys, \* what an incident may name as its playbook
    MaxFaults     \* bound: restarts and lost answers

ASSUME GatewayAssumption ==
    /\ MaxFaults \in Nat
    /\ None \notin Incidents \cup Targets \cup Playbooks

VARIABLES
    playbook,    \* playbook[i]: the key incident i was created with
    life,        \* life[g]: how often process g was restarted
    receipts,    \* receiptsByKey of process g, by incident and target
    receiptKey,  \* receiptKeyByInc of process g: the target of the last rollback
    issued,      \* receiptSeq of process g
    at,          \* at[w]: what workflow w does next
    incident,    \* incident[w]
    target,      \* target[w]: the service it would roll back, None: no plan
    held,        \* held[w]: the receipt it was answered with, and from where
    verdict,     \* verdict[w]: what it was told, and from where
    faults

storeVars == <<life, receipts, receiptKey, issued>>
vars == <<playbook, storeVars, at, incident, target, held, verdict, faults>>

Statuses == {"recovered", "not_recovered"}
Receipt == [id : Nat, executor : Workflows, verification : Statuses \cup {"pending"}]
Lives == [process : Gateways, life : Nat]
Held == [from : Lives, id : Nat, executor : Workflows]
Verdict == [from : Lives, status : Statuses]
ASSUME RecordAssumption == None \notin Receipt \cup Held \cup Verdict \cup Plans

Here(g) == [process |-> g, life |-> life[g]]
Known(i) == Resolve(playbook[i]) \in Playbooks
ScenarioOf(i) == Scenario[Resolve(playbook[i])]
NoReceipts == [i \in Incidents |-> [t \in Targets |-> None]]
-----------------------------------------------------------------------------
Init ==
    /\ playbook \in [Incidents -> PlaybookKeys]
    /\ life = [g \in Gateways |-> 0]
    /\ receipts = [g \in Gateways |-> NoReceipts]
    /\ receiptKey = [g \in Gateways |-> [i \in Incidents |-> None]]
    /\ issued = [g \in Gateways |-> 0]
    /\ at = [w \in Workflows |-> "queries"]
    /\ incident \in [Workflows -> Incidents]
    /\ target = [w \in Workflows |-> None]
    /\ held = [w \in Workflows |-> None]
    /\ verdict = [w \in Workflows |-> None]
    /\ faults = 0

(* QueryChanges, QueryLogs and QueryDependencies, and what the planner     *)
(* makes of them; the service to roll back is the reasoner's choice.       *)
Query(w) ==
    /\ at[w] = "queries" /\ Known(incident[w])
    /\ IF Investigation(Resolve(playbook[incident[w]])).action = None
       THEN UNCHANGED target /\ at' = [at EXCEPT ![w] = "verify"]
       ELSE /\ \E t \in Targets : target' = [target EXCEPT ![w] = t]
            /\ at' = [at EXCEPT ![w] = "rollback"]
    /\ UNCHANGED <<playbook, storeVars, incident, held, verdict, faults>>

(* errUnknownScenario.                                                     *)
QueryFails(w) ==
    /\ at[w] = "queries" /\ ~Known(incident[w])
    /\ at' = [at EXCEPT ![w] = "failed"]
    /\ UNCHANGED <<playbook, storeVars, incident, target, held, verdict, faults>>
-----------------------------------------------------------------------------
Answer(w, g, receipt) ==
    /\ held' = [held EXCEPT ![w] = [from |-> Here(g), id |-> receipt.id,
                                    executor |-> receipt.executor]]
    /\ at' = [at EXCEPT ![w] = "verify"]
    /\ UNCHANGED faults

(* The answer does not reach the orchestrator: its node is executed again. *)
AnswerLost ==
    /\ faults < MaxFaults /\ faults' = faults + 1
    /\ UNCHANGED <<held, at>>

(* Rollback of a key with a receipt.                                       *)
Replay(w, g) ==
    LET receipt == receipts[g][incident[w]][target[w]] IN
    /\ at[w] = "rollback" /\ receipt # None
    /\ Answer(w, g, receipt) \/ AnswerLost
    /\ UNCHANGED <<playbook, storeVars, incident, target, verdict>>

(* A plausible slip: a key that has a receipt is executed again.           *)
ExecuteAlways(w, g) ==
    LET receipt == [id |-> issued[g] + 1, executor |-> w, verification |-> "pending"] IN
    /\ at[w] = "rollback"
    /\ issued' = [issued EXCEPT ![g] = receipt.id]
    /\ receipts' = [receipts EXCEPT ![g][incident[w]][target[w]] = receipt]
    /\ receiptKey' = [receiptKey EXCEPT ![g][incident[w]] = target[w]]
    /\ Answer(w, g, receipt) \/ AnswerLost
    /\ UNCHANGED <<playbook, life, incident, target, verdict>>

(* Rollback of a new key.                                                  *)
Execute(w, g) ==
    LET receipt == [id |-> issued[g] + 1, executor |-> w, verification |-> "pending"] IN
    /\ at[w] = "rollback" /\ receipts[g][incident[w]][target[w]] = None
    /\ issued' = [issued EXCEPT ![g] = receipt.id]
    /\ receipts' = [receipts EXCEPT ![g][incident[w]][target[w]] = receipt]
    /\ receiptKey' = [receiptKey EXCEPT ![g][incident[w]] = target[w]]
    /\ Answer(w, g, receipt) \/ AnswerLost
    /\ UNCHANGED <<playbook, life, incident, target, verdict>>

(* Verify: an incident was rolled back if any of its targets was.          *)
Verify(w, g) ==
    LET i == incident[w]
        last == receiptKey[g][i]
        status == IF last = None THEN ScenarioOf(i).before ELSE ScenarioOf(i).after IN
    /\ at[w] = "verify"
    /\ receipts' = IF last = None THEN receipts
                   ELSE [receipts EXCEPT ![g][i][last].verification = status]
    /\ \/ /\ verdict' = [verdict EXCEPT ![w] = [from |-> Here(g), status |-> status]]
          /\ at' = [at EXCEPT ![w] = "done"]
          /\ UNCHANGED <<held, faults>>
       \/ AnswerLost /\ UNCHANGED verdict
    /\ UNCHANGED <<playbook, life, receiptKey, issued, incident, target>>

(* A plausible slip: the second map outlives the first.                    *)
RestartKeepsKeys(g) ==
    /\ faults < MaxFaults /\ faults' = faults + 1
    /\ life' = [life EXCEPT ![g] = @ + 1]
    /\ receipts' = [receipts EXCEPT ![g] = NoReceipts]
    /\ issued' = [issued EXCEPT ![g] = 0]
    /\ UNCHANGED <<playbook, receiptKey, at, incident, target, held, verdict>>

Restart(g) ==
    /\ faults < MaxFaults /\ faults' = faults + 1
    /\ life' = [life EXCEPT ![g] = @ + 1]
    /\ receipts' = [receipts EXCEPT ![g] = NoReceipts]
    /\ receiptKey' = [receiptKey EXCEPT ![g] = [i \in Incidents |-> None]]
    /\ issued' = [issued EXCEPT ![g] = 0]
    /\ UNCHANGED <<playbook, at, incident, target, held, verdict>>

Next ==
    \/ \E w \in Workflows :
        \/ Query(w) \/ QueryFails(w)
        \/ \E g \in Gateways : Replay(w, g) \/ Execute(w, g) \/ Verify(w, g)
    \/ \E g \in Gateways : Restart(g)

Spec == Init /\ [][Next]_vars
-----------------------------------------------------------------------------
(* Types; a process that knows of a rollback of an incident has the        *)
(* receipt of the last one.                                                *)
TypeOK ==
    /\ playbook \in [Incidents -> PlaybookKeys]
    /\ life \in [Gateways -> Nat] /\ issued \in [Gateways -> Nat]
    /\ receipts \in [Gateways -> [Incidents -> [Targets -> Receipt \cup {None}]]]
    /\ receiptKey \in [Gateways -> [Incidents -> Targets \cup {None}]]
    /\ \A g \in Gateways, i \in Incidents :
        receiptKey[g][i] # None => receipts[g][i][receiptKey[g][i]] # None
    /\ at \in [Workflows -> {"queries", "rollback", "verify", "done", "failed"}]
    /\ incident \in [Workflows -> Incidents]
    /\ target \in [Workflows -> Targets \cup {None}]
    /\ held \in [Workflows -> Held \cup {None}]
    /\ verdict \in [Workflows -> Verdict \cup {None}]
    /\ faults \in 0 .. MaxFaults

(* Until it is restarted a process executes the rollback of one target of  *)
(* an incident once, however often and by whomever it is asked, and every  *)
(* answer has that receipt, which no other rollback has (store.Rollback).  *)
(* Between two lives, or two processes, nothing is promised.               *)
OneReceiptPerLife ==
    \A v, w \in Workflows :
        held[v] # None /\ held[w] # None /\ held[v].from = held[w].from =>
            (held[v] = held[w]) =
                (incident[v] = incident[w] /\ target[v] = target[w])

(* What the rules make of a scenario's evidence fits what its verification *)
(* says: an incident is rolled back exactly if its scenario recovers by    *)
(* that, and is then reported as recovered, unless the process that        *)
(* verifies is not the one, or not in the life, that executed it.  What    *)
(* was not rolled back is never reported as recovered.                     *)
RecoversAsPlanned ==
    \A w \in Workflows :
        verdict[w] # None =>
            /\ held[w] # None <=> ScenarioOf(incident[w]).after = "recovered"
            /\ held[w] = None => verdict[w].status = "not_recovered"
            /\ held[w] # None /\ held[w].from = verdict[w].from =>
                    verdict[w].status = "recovered"
=============================================================================
