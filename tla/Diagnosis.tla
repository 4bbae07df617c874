----------------------------- MODULE Diagnosis -----------------------------
(***************************************************************************)
(* plan_diagnosis (logic.py): from the evidence to hypotheses and a        *)
(* rollback.  The planner of the rules reasoner is this function; with a   *)
(* language model it is the guardrail planner_agent falls back on.         *)
(*                                                                         *)
(* A summary is the set of the signals whose phrases occur in it.          *)
(***************************************************************************)
EXTENDS Integers, FiniteSets, Sequences

CONSTANT None

Sources == {"change", "log", "dependency"}

ReleaseSignals == {"recent_release", "config_change", "db_auth_errors",
                   "local_blast_radius", "dependency_healthy"}
DownstreamSignals == {"no_local_change", "inventory_timeouts",
                      "dependency_degraded", "database_pool_saturated"}

(* The findings of an agent with the ids the graph gives them.             *)
Prefix == [change |-> "chg", log |-> "log", dependency |-> "dep"]
BuildEvidence(source, findings) ==
    [i \in 1 .. Len(findings) |-> [id |-> <<Prefix[source], i>>, signals |-> findings[i]]]

SignalsOf(evidence) == UNION {evidence[i].signals : i \in 1 .. Len(evidence)}
FirstIds(evidence, n) == {evidence[i].id : i \in {j \in 1 .. Len(evidence) : j <= n}}

(* A plausible slip: the signals that speak for a rollback are counted     *)
(* with > instead of >=.                                                   *)
PlanDiagnosisStrictly(change, log, dependency) ==
    LET text == SignalsOf(change) \cup SignalsOf(log) \cup SignalsOf(dependency)
        release == Cardinality(text \cap ReleaseSignals)
        downstream == Cardinality(text \cap DownstreamSignals)
        isDownstream == downstream > 3 /\ downstream > release
    IN [cause |-> IF isDownstream THEN "downstream" ELSE "release",
        action |-> IF isDownstream \/ release <= 5 THEN None
                   ELSE [by |-> "guardrail",
                         evidence |-> FirstIds(change, 2) \cup FirstIds(log, 2)]]

PlanDiagnosis(change, log, dependency) ==
    LET text == SignalsOf(change) \cup SignalsOf(log) \cup SignalsOf(dependency)
        release == Cardinality(text \cap ReleaseSignals)
        downstream == Cardinality(text \cap DownstreamSignals)
        isDownstream == downstream >= 3 /\ downstream > release
    IN [cause |-> IF isDownstream THEN "downstream" ELSE "release",
        action |-> IF isDownstream \/ release < 4 THEN None
                   ELSE [by |-> "guardrail",
                         evidence |-> FirstIds(change, 2) \cup FirstIds(log, 2)]]
=============================================================================
