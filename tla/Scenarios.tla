----------------------------- MODULE Scenarios -----------------------------
(***************************************************************************)
(* The simulated world of ops-gateway (mockdata.go): for each playbook the *)
(* evidence its three queries return and what a verification says before   *)
(* and after a rollback.  An item is the set of the signals plan_diagnosis *)
(* finds in its summary.  The metrics, checks and anomalies of a           *)
(* verification are wording for the report: nothing branches on them.      *)
(***************************************************************************)
EXTENDS Diagnosis

(* The eighteen numbered variants differ from the first in their revisions *)
(* and references only; one stands for all of them.                        *)
ReleaseRegressions == {"release_config_regression", "release_config_regression_01"}
Playbooks == ReleaseRegressions \cup {"downstream_inventory_outage"}

ReleaseRegression ==
    [change |-> <<{"recent_release", "config_change"}, {"recent_release", "config_change"}>>,
     log |-> <<{"db_auth_errors"}, {"recent_release", "local_blast_radius"}>>,
     dependency |-> <<{"dependency_healthy"}, {"dependency_healthy", "local_blast_radius"}>>,
     before |-> "not_recovered", after |-> "recovered"]

DownstreamInventory ==
    [change |-> <<{"no_local_change"}>>,
     log |-> <<{"inventory_timeouts"}, {"inventory_timeouts"}>>,
     dependency |-> <<{"dependency_degraded", "database_pool_saturated"},
                      {"database_pool_saturated"}>>,
     before |-> "not_recovered", after |-> "not_recovered"]

(* scenarioData, by playbook key.                                          *)
Scenario == [p \in Playbooks |->
    IF p \in ReleaseRegressions THEN ReleaseRegression ELSE DownstreamInventory]

(* An empty key means the first playbook.                                  *)
Resolve(key) == IF key = None THEN "release_config_regression" ELSE key

(* What the guardrail may propose in them.                                 *)
Plans == [by : {"guardrail"},
          evidence : {FirstIds(BuildEvidence("change", Scenario[p].change), 2)
                      \cup FirstIds(BuildEvidence("log", Scenario[p].log), 2) : p \in Playbooks}]

(* The rules reasoner: its evidence agents return the gateway's items, its *)
(* planner is plan_diagnosis.                                              *)
Investigation(p) == PlanDiagnosis(BuildEvidence("change", Scenario[p].change),
                                  BuildEvidence("log", Scenario[p].log),
                                  BuildEvidence("dependency", Scenario[p].dependency))
=============================================================================
