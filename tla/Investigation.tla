--------------------------- MODULE Investigation ---------------------------
(***************************************************************************)
(* What an investigation promises to the steps after it (critic, approval, *)
(* rollback), and what Workflow takes it for: every node of the graph is   *)
(* one step, the three evidence agents together are one, and a call that   *)
(* stops leaves the thread between two of them; it may have saved its      *)
(* analysis and has changed nothing else.  See EvidenceFanOut for how.     *)
(***************************************************************************)
EXTENDS Naturals

CONSTANTS
    None,
    Sources,                   \* the three kinds of evidence
    Findings,                  \* what each evidence agent may answer
    PlannerAnswers,            \* what the reasoner's plan may be
    BuildEvidence(_, _),       \* the functions of logic.py, see Diagnosis
    PlanDiagnosis(_, _, _)

VARIABLES
    running,    \* a call is at work
    at,         \* the node the thread is at
    evidence,   \* the thread's evidence, by source
    plan,       \* its hypotheses and proposed action
    analysis,   \* what incident-api has
    round       \* which run of the thread this is
vars == <<running, at, evidence, plan, analysis, round>>

Resumable == {"load_incident", "triage", "evidence", "planner"}
NoEvidence == [s \in Sources |-> None]

Init ==
    /\ running = FALSE
    /\ at = "unstarted" /\ evidence = NoEvidence /\ plan = None
    /\ analysis = None /\ round = 0

---------------------------------------------------------------------------
Run ==
    /\ ~running /\ running'
    /\ at' = "load_incident" /\ round' > round
    /\ UNCHANGED <<evidence, plan, analysis>>

Resume ==
    /\ ~running /\ running'
    /\ at \in Resumable
    /\ UNCHANGED <<at, evidence, plan, analysis, round>>

Stop ==
    /\ running /\ ~running'
    /\ UNCHANGED <<at, evidence, plan, analysis, round>>

Forget ==
    /\ running /\ ~running'
    /\ at' = "unstarted" /\ evidence' = NoEvidence /\ plan' = None
    /\ UNCHANGED <<analysis, round>>

---------------------------------------------------------------------------
Load ==
    /\ running /\ at = "load_incident" /\ at' = "triage"
    /\ UNCHANGED <<running, evidence, plan, analysis, round>>

Triage ==
    /\ running /\ at = "triage" /\ at' = "evidence"
    /\ UNCHANGED <<running, evidence, plan, analysis, round>>

(* All three at once, and all of this run.                                 *)
OfThisRun(s) ==
    [round : {round}, call : Nat, items : {BuildEvidence(s, f) : f \in Findings[s]}]

Gather ==
    /\ running /\ at = "evidence" /\ at' = "planner"
    /\ DOMAIN evidence' = Sources
    /\ \A s \in Sources : evidence'[s] \in OfThisRun(s)
    /\ UNCHANGED <<running, plan, analysis, round>>

(* The reasoner's or, where it is silent, plan_diagnosis's; no rollback    *)
(* only if the evidence asks for none.                                     *)
Deterministic ==
    PlanDiagnosis(evidence["change"].items, evidence["log"].items, evidence["dependency"].items)
Plans ==
    {p \in [cause : {"reasoner", Deterministic.cause},
            action : {o.action : o \in PlannerAnswers} \cup {Deterministic.action}] :
        p.action = None => Deterministic.action = None}

Save ==
    /\ running /\ at = "planner"
    /\ \E p \in Plans : analysis' = [evidence |-> evidence, plan |-> p]
    /\ UNCHANGED <<running, at, evidence, plan, round>>

(* The thread goes on with what incident-api has, and with nothing else.   *)
GoOn ==
    /\ running /\ ~running'
    /\ at = "planner" /\ at' = "planned"
    /\ analysis = [evidence |-> evidence, plan |-> plan']
    /\ UNCHANGED <<evidence, analysis, round>>

Next == Run \/ Resume \/ Stop \/ Forget \/ Load \/ Triage \/ Gather \/ Save \/ GoOn

Spec == Init /\ [][Next]_vars
=============================================================================
