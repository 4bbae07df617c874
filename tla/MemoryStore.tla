---------------------------- MODULE MemoryStore ----------------------------
(***************************************************************************)
(* One incident in incident-api's MemoryStore (store.go): every operation  *)
(* is atomic under the store's mutex.  It is also what the MySQL store has *)
(* to look like from outside: see MySQLIncidents.                          *)
(***************************************************************************)
EXTENDS StatusRules

CONSTANTS
    Items,      \* evidence items
    Reviewers   \* the people who approve or reject

(* The requests' bodies, as far as the store looks at them.                *)
Action == [needsApproval : BOOLEAN]
Analysis == [evidence : SUBSET Items, action : Action \cup {None}]
Report == [receipt : [verification : {"recovered", "not_recovered"}] \cup {None}]
Approval == [status : {"approved", "rejected"}, reviewer : Reviewers]
Incident == [status : IncidentStatus, analysis : Analysis \cup {None},
             report : Report \cup {None}, approval : Approval \cup {None}]

VARIABLE incident    \* the incident, None before it is created

Init == incident = None

CreateIncident ==
    /\ incident = None
    /\ incident' = [status |-> "created", analysis |-> None, report |-> None, approval |-> None]

SaveAnalysis(a) ==
    /\ incident # None
    /\ incident' = [status |-> AnalysisStatus(a.action), analysis |-> a,
                    report |-> incident.report, approval |-> incident.approval]

SaveReport(r) ==
    /\ incident # None
    /\ incident' = [status |-> ReportStatus(r.receipt), analysis |-> incident.analysis,
                    report |-> r, approval |-> incident.approval]

ReviewIncident(approved, reviewer) ==
    /\ incident # None
    /\ incident' = [status |-> ReviewStatus(approved), analysis |-> incident.analysis,
                    report |-> incident.report,
                    approval |-> [status |-> ReviewStatus(approved), reviewer |-> reviewer]]

Next ==
    \/ CreateIncident
    \/ \E a \in Analysis : SaveAnalysis(a)
    \/ \E r \in Report : SaveReport(r)
    \/ \E approved \in BOOLEAN, reviewer \in Reviewers : ReviewIncident(approved, reviewer)

Spec == Init /\ [][Next]_incident
=============================================================================
