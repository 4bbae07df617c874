---------------------------- MODULE MCIncidents ----------------------------
(***************************************************************************)
(* Requests for the TLC runs of MySQLIncidents: two analyses with          *)
(* different evidence, reports with and without a recovered rollback, both *)
(* decisions, and a read.                                                  *)
(***************************************************************************)
EXTENDS MySQLIncidents

CONSTANTS cpu, log, alice

MCItems == {cpu, log}
MCReviewers == {alice}
MCRequests ==
    {[kind |-> "analysis", analysis |-> [evidence |-> {cpu, log}, action |-> [needsApproval |-> TRUE]]],
     [kind |-> "analysis", analysis |-> [evidence |-> {log}, action |-> None]],
     [kind |-> "report", report |-> [receipt |-> None]],
     [kind |-> "report", report |-> [receipt |-> [verification |-> "recovered"]]],
     [kind |-> "review", approved |-> TRUE, reviewer |-> alice],
     [kind |-> "review", approved |-> FALSE, reviewer |-> alice],
     [kind |-> "get"]}
=============================================================================
