---------------------------- MODULE MCWorkflow ----------------------------
(***************************************************************************)
(* Constants for the TLC runs of Workflow.                                 *)
(***************************************************************************)
EXTENDS Workflow, TLC

(* What plan_diagnosis returns for a release regression.                   *)
ReleasePlan == [target |-> "order-api", revision |-> "v1", risk |-> "high",
                needsApproval |-> TRUE]

(* What an LLM may propose besides: the schema's default approval flag, a  *)
(* milder risk, another service, nothing.                                  *)
LLMAnswers == {None, ReleasePlan,
               [ReleasePlan EXCEPT !.needsApproval = FALSE, !.risk = "medium"],
               [ReleasePlan EXCEPT !.target = "inventory-service", !.revision = "v0"]}

ReleasePlanOnly == {ReleasePlan}

RequestSymmetry == Permutations(Requests)
PeopleSymmetry == Permutations(Requests) \cup Permutations(Reviewers)
=============================================================================
