-------------------------- MODULE MCMemoryGateway --------------------------
(***************************************************************************)
(* Values for MemoryGateway: an incident may name a playbook of each kind, *)
(* none, or one that does not exist.                                       *)
(***************************************************************************)
EXTENDS MemoryGateway, TLC

MCPlaybookKeys == {None, "release_config_regression_01", "downstream_inventory_outage",
                   "release_config_regression_19"}

(* No step tells two workflows, processes, incidents or services apart.    *)
MCSymmetry == Permutations(Workflows) \cup Permutations(Gateways)
              \cup Permutations(Incidents) \cup Permutations(Targets)
=============================================================================
