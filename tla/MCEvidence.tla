---------------------------- MODULE MCEvidence ----------------------------
(***************************************************************************)
(* Values for EvidenceFanOut.  The change agent's findings decide between  *)
(* strong release evidence (four signals against two) and a downstream     *)
(* fault (three against two); a reasoner may answer without hypotheses,    *)
(* without an action, with both or with neither.                           *)
(***************************************************************************)
EXTENDS EvidenceFanOut

MCFindings ==
    [change |-> {<<{"recent_release", "config_change"}>>, <<{"no_local_change"}>>},
     log |-> {<<{"db_auth_errors"}, {"local_blast_radius"}>>},
     dependency |-> {<<{"dependency_degraded", "database_pool_saturated"}>>}]

MCPlannerAnswers ==
    [hypotheses : BOOLEAN, action : {None, [by |-> "reasoner", evidence |-> {}]}]
=============================================================================
