-------------------------- MODULE MySQLIncidents --------------------------
(***************************************************************************)
(* One incident in incident-api's MySQLStore (mysql_store.go): every step  *)
(* is one SQL statement of one HTTP call, so calls interleave between      *)
(* statements, statements fail, and the process dies in between.           *)
(*                                                                         *)
(* MySQL is external.  Taken from InnoDB: an UPDATE locks the incident's   *)
(* row until the transaction ends, nobody else sees uncommitted writes,    *)
(* and a transaction whose connection is lost is rolled back.  A deadlock  *)
(* victim and a lock wait that times out are statements that fail.         *)
(***************************************************************************)
EXTENDS StatusRules, Naturals, FiniteSets

CONSTANTS
    Items,              \* evidence items
    Reviewers,          \* the people who approve or reject
    Calls,              \* HTTP calls at once
    Requests,           \* what a call may ask for
    HasScenarioColumn,  \* an older schema's incidents.scenario_key is there
    MaxFaults           \* bound: failed statements and process deaths

VARIABLES
    db,       \* what is committed
    tx,       \* a call's transaction: db with its writes; None without one
    pc,       \* the statement a call executes next
    req,      \* a call's request, until it is written
    seen,     \* the status GetIncident has read
    reply,    \* status and approval of the answer; None: not yet
    faults    \* failed statements and process deaths so far

vars == <<db, tx, pc, req, seen, reply, faults>>

(* The committed state as an incident of the memory store.                 *)
Committed == IF db.row = None THEN None
             ELSE [status |-> db.row.status, analysis |-> db.row.analysis,
                   report |-> db.row.report, approval |-> db.approval]
Promise == INSTANCE MemoryStore WITH incident <- Committed

Row == [status : IncidentStatus, analysis : Promise!Analysis \cup {None},
        report : Promise!Report \cup {None}]
DB == [row : Row \cup {None}, approval : Promise!Approval \cup {None},
       evidence : SUBSET Items]
Request ==
    [kind : {"analysis"}, analysis : Promise!Analysis]
    \cup [kind : {"report"}, report : Promise!Report]
    \cup [kind : {"review"}, approved : BOOLEAN, reviewer : Reviewers]
    \cup [kind : {"get"}]
Answer == [status : IncidentStatus \cup {"not_found", "error"},
           approval : Promise!Approval \cup {None}]
NotFound == [status |-> "not_found", approval |-> None]
Error == [status |-> "error", approval |-> None]

ASSUME StoreAssumption ==
    /\ Requests \subseteq Request /\ HasScenarioColumn \in BOOLEAN /\ MaxFaults \in Nat
    /\ None \notin Promise!Analysis \cup Promise!Report \cup Promise!Approval \cup Row \cup DB
    /\ None \notin Promise!Incident \cup Request \cup Answer \cup IncidentStatus

Statements == {"update", "delete", "insert", "upsert", "commit", "get", "get_approval"}
-----------------------------------------------------------------------------
Init ==
    /\ db = [row |-> None, approval |-> None, evidence |-> {}]
    /\ tx = [c \in Calls |-> None]
    /\ pc = [c \in Calls |-> "idle"]
    /\ req = [c \in Calls |-> None]
    /\ seen = [c \in Calls |-> None]
    /\ reply = [c \in Calls |-> None]
    /\ faults = 0

(* A single INSERT under a fresh id.                                       *)
CreateIncident ==
    /\ db.row = None
    /\ db' = [db EXCEPT !.row = [status |-> "created", analysis |-> None, report |-> None]]
    /\ UNCHANGED <<tx, pc, req, seen, reply, faults>>

Accept(c, q) ==
    /\ pc[c] = "idle"
    /\ IF q.kind = "get"
       THEN pc' = [pc EXCEPT ![c] = "get"] /\ UNCHANGED req
       ELSE pc' = [pc EXCEPT ![c] = "update"] /\ req' = [req EXCEPT ![c] = q]
    /\ UNCHANGED <<db, tx, seen, reply, faults>>

(* The deferred tx.Rollback of every return before the Commit.             *)
NoRollback(c) == UNCHANGED tx
RolledBack(c) == tx' = [tx EXCEPT ![c] = None]

Finish(c, r) ==
    /\ RolledBack(c)
    /\ reply' = [reply EXCEPT ![c] = r]
    /\ pc' = [pc EXCEPT ![c] = "answered"]
    /\ seen' = [seen EXCEPT ![c] = None]
    /\ req' = [req EXCEPT ![c] = None]

(* The client has its answer.                                              *)
Done(c) ==
    /\ pc[c] = "answered"
    /\ pc' = [pc EXCEPT ![c] = "idle"]
    /\ reply' = [reply EXCEPT ![c] = None]
    /\ UNCHANGED <<db, tx, req, seen, faults>>
-----------------------------------------------------------------------------
RowIsFree(c) == \A d \in Calls \ {c} : tx[d] = None

(* The row after the UPDATE of request q.                                  *)
Updated(row, q) ==
    CASE q.kind = "analysis" -> [row EXCEPT !.analysis = q.analysis,
                                            !.status = AnalysisStatus(q.analysis.action)]
      [] q.kind = "report"   -> [row EXCEPT !.report = q.report,
                                            !.status = ReportStatus(q.report.receipt)]
      [] q.kind = "review"   -> [row EXCEPT !.status = ReviewStatus(q.approved)]

(* A plausible slip: db.Exec instead of tx.Exec, the UPDATE commits alone. *)
UpdateOutsideTransaction(c) ==
    /\ pc[c] = "update" /\ RowIsFree(c) /\ db.row # None
    /\ db' = [db EXCEPT !.row = Updated(db.row, req[c])]
    /\ tx' = IF req[c].kind = "report" THEN tx ELSE [tx EXCEPT ![c] = db']
    /\ pc' = [pc EXCEPT ![c] = CASE req[c].kind = "analysis" -> "delete"
                                 [] req[c].kind = "review"   -> "upsert"
                                 [] req[c].kind = "report"   -> "get"]
    /\ UNCHANGED <<req, seen, reply, faults>>

(* The UPDATE: of SaveReport on its own, of the other two the first        *)
(* statement of a transaction.                                             *)
Update(c) ==
    /\ pc[c] = "update" /\ RowIsFree(c) /\ db.row # None
    /\ LET new == [db EXCEPT !.row = Updated(db.row, req[c])] IN
       IF req[c].kind = "report"
       THEN /\ db' = new /\ UNCHANGED tx
            /\ pc' = [pc EXCEPT ![c] = "get"]
            /\ req' = [req EXCEPT ![c] = None]
       ELSE /\ tx' = [tx EXCEPT ![c] = new] /\ UNCHANGED <<db, req>>
            /\ pc' = [pc EXCEPT ![c] = IF req[c].kind = "analysis" THEN "delete" ELSE "upsert"]
    /\ UNCHANGED <<seen, reply, faults>>

(* RowsAffected is 0.                                                      *)
UpdateFindsNothing(c) ==
    /\ pc[c] = "update" /\ db.row = None
    /\ Finish(c, NotFound)
    /\ UNCHANGED <<db, faults>>

(* A plausible slip: the evidence of the analysis before stays.            *)
DeleteNothing(c) ==
    /\ pc[c] = "delete"
    /\ pc' = [pc EXCEPT ![c] = "insert"]
    /\ UNCHANGED <<db, tx, req, seen, reply, faults>>

DeleteEvidence(c) ==
    /\ pc[c] = "delete"
    /\ tx' = [tx EXCEPT ![c].evidence = {}]
    /\ pc' = [pc EXCEPT ![c] = "insert"]
    /\ UNCHANGED <<db, req, seen, reply, faults>>

(* One INSERT per item, or the end of the loop.                            *)
InsertEvidence(c) ==
    /\ pc[c] = "insert"
    /\ LET left == req[c].analysis.evidence \ tx[c].evidence IN
       \/ /\ left = {}
          /\ pc' = [pc EXCEPT ![c] = "commit"] /\ UNCHANGED tx
       \/ \E item \in left :
          /\ tx' = [tx EXCEPT ![c].evidence = @ \cup {item}] /\ UNCHANGED pc
    /\ UNCHANGED <<db, req, seen, reply, faults>>

Decision(q) == [status |-> ReviewStatus(q.approved), reviewer |-> q.reviewer]

(* A plausible slip: no ON DUPLICATE KEY, a second review fails.           *)
InsertApproval(c) ==
    /\ pc[c] = "upsert"
    /\ IF tx[c].approval = None
       THEN /\ tx' = [tx EXCEPT ![c].approval = Decision(req[c])]
            /\ pc' = [pc EXCEPT ![c] = "commit"]
            /\ UNCHANGED <<req, seen, reply>>
       ELSE Finish(c, Error)
    /\ UNCHANGED <<db, faults>>

UpsertApproval(c) ==
    /\ pc[c] = "upsert"
    /\ tx' = [tx EXCEPT ![c].approval = Decision(req[c])]
    /\ pc' = [pc EXCEPT ![c] = "commit"]
    /\ UNCHANGED <<db, req, seen, reply, faults>>

Commit(c) ==
    /\ pc[c] = "commit"
    /\ db' = tx[c]
    /\ tx' = [tx EXCEPT ![c] = None]
    /\ pc' = [pc EXCEPT ![c] = "get"]
    /\ req' = [req EXCEPT ![c] = None]
    /\ UNCHANGED <<seen, reply, faults>>
-----------------------------------------------------------------------------
(* GetIncident: the row, then in a statement of its own the approval.      *)
GetRow(c) ==
    /\ pc[c] = "get" /\ HasScenarioColumn /\ db.row # None
    /\ seen' = [seen EXCEPT ![c] = db.row.status]
    /\ pc' = [pc EXCEPT ![c] = "get_approval"]
    /\ UNCHANGED <<db, tx, req, reply, faults>>

(* Nothing found; or no answer at all, as the SELECT names scenario_key,   *)
(* which 001_init.sql does not create.                                     *)
GetFindsNothing(c) ==
    /\ pc[c] = "get" /\ (HasScenarioColumn => db.row = None)
    /\ Finish(c, IF HasScenarioColumn THEN NotFound ELSE Error)
    /\ UNCHANGED <<db, faults>>

GetApproval(c) ==
    /\ pc[c] = "get_approval"
    /\ Finish(c, [status |-> seen[c], approval |-> db.approval])
    /\ UNCHANGED <<db, faults>>
-----------------------------------------------------------------------------
(* A plausible slip: what was written before the failure is kept.          *)
StatementFailsKeepingWrites(c) ==
    /\ pc[c] \in Statements /\ faults < MaxFaults
    /\ faults' = faults + 1
    /\ Finish(c, Error)
    /\ db' = IF tx[c] = None THEN db ELSE tx[c]

(* The statement fails and did nothing.                                    *)
StatementFails(c) ==
    /\ pc[c] \in Statements /\ faults < MaxFaults
    /\ faults' = faults + 1
    /\ Finish(c, Error)
    /\ UNCHANGED db

(* The connection is lost after a COMMIT or the UPDATE of SaveReport did   *)
(* its work.                                                               *)
WriteReplyLost(c) ==
    /\ faults < MaxFaults
    /\ faults' = faults + 1
    /\ \/ pc[c] = "commit" /\ db' = tx[c]
       \/ /\ pc[c] = "update" /\ RowIsFree(c) /\ db.row # None /\ req[c].kind = "report"
          /\ db' = [db EXCEPT !.row = Updated(db.row, req[c])]
    /\ Finish(c, Error)

ProcessDies ==
    /\ faults < MaxFaults
    /\ faults' = faults + 1
    /\ tx' = [c \in Calls |-> None]
    /\ pc' = [c \in Calls |-> "idle"]
    /\ req' = [c \in Calls |-> None]
    /\ seen' = [c \in Calls |-> None]
    /\ reply' = [c \in Calls |-> None]
    /\ UNCHANGED db

(* What the code does next for an accepted call.                           *)
Step(c) ==
    \/ Update(c) \/ UpdateFindsNothing(c)
    \/ DeleteEvidence(c) \/ InsertEvidence(c) \/ UpsertApproval(c) \/ Commit(c)
    \/ GetRow(c) \/ GetFindsNothing(c) \/ GetApproval(c)

Next ==
    \/ CreateIncident \/ ProcessDies
    \/ \E c \in Calls :
       \/ \E q \in Requests : Accept(c, q)
       \/ Step(c) \/ Done(c) \/ StatementFails(c) \/ WriteReplyLost(c)

Spec == Init /\ [][Next]_vars

(* A statement returns, and InnoDB serves row locks first come first       *)
(* served.                                                                 *)
FairSpec == Spec /\ \A c \in Calls : SF_vars(Step(c))
-----------------------------------------------------------------------------
(* Types, and who has a transaction: the calls between UPDATE and COMMIT,  *)
(* at most one of them at a time.                                          *)
TypeOK ==
    /\ db \in DB /\ faults \in 0..MaxFaults
    /\ db.row = None => db.approval = None /\ db.evidence = {}
    /\ tx \in [Calls -> DB \cup {None}]
    /\ pc \in [Calls -> Statements \cup {"idle", "answered"}]
    /\ req \in [Calls -> Requests \cup {None}]
    /\ seen \in [Calls -> IncidentStatus \cup {None}]
    /\ reply \in [Calls -> Answer \cup {None}]
    /\ \A c \in Calls : tx[c] # None <=> pc[c] \in {"delete", "insert", "upsert", "commit"}
    /\ \A c, d \in Calls : tx[c] # None /\ tx[d] # None => c = d

(* The evidence_items table lists exactly the evidence of the analysis in  *)
(* the incident's row, whatever analyses were saved, failed or were cut    *)
(* off on the way (SaveAnalysis writes both in one transaction).           *)
EvidenceMatchesAnalysis ==
    db.row # None =>
        db.evidence = IF db.row.analysis = None THEN {} ELSE db.row.analysis.evidence

(* An answer that says approved or rejected comes with the approval row,   *)
(* although GetIncident reads the two in separate statements: the review   *)
(* wrote both in one transaction and the status is read first.             *)
ReviewedReplyHasApproval ==
    \A c \in Calls :
        reply[c] # None /\ reply[c].status \in {"approved", "rejected"} =>
            reply[c].approval # None

(* Without a failure of MySQL or the process no call is answered 500: no   *)
(* legal order of creates, saves, reviews and reads makes a statement fail.*)
FailsForAReason == \A c \in Calls : reply[c] = Error => faults > 0

(* Every accepted call is answered or dies with its process: no failure    *)
(* leaves the incident's row locked for the others.                        *)
EveryCallAnswered == \A c \in Calls : pc[c] # "idle" ~> pc[c] \in {"answered", "idle"}

(* Seen from outside the committed state is the memory store's: each       *)
(* operation happens at once or not at all.                                *)
ImplementsMemoryStore == Promise!Spec
=============================================================================
