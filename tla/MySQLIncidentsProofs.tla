----------------------- MODULE MySQLIncidentsProofs -----------------------
(***************************************************************************)
(* Proofs about MySQLIncidents, for any calls, requests, evidence items    *)
(* and reviewers and any number of failures.                               *)
(***************************************************************************)
EXTENDS MySQLIncidents, TLAPS

InTransaction == {"delete", "insert", "upsert", "commit"}

(* What a call holds while it is on its way: a call in a transaction, and  *)
(* one whose UPDATE comes next, has a request of the right kind.           *)
HasRequest ==
    \A c \in Calls :
        /\ pc[c] \in InTransaction \cup {"update"} => req[c] \in Requests
        /\ pc[c] = "update" => req[c].kind \in {"analysis", "report", "review"}
        /\ pc[c] \in {"delete", "insert"} => req[c].kind = "analysis"
        /\ pc[c] = "upsert" => req[c].kind = "review"
        /\ pc[c] = "commit" => req[c].kind \in {"analysis", "review"}

(* A transaction is what was committed when it began, which the row lock   *)
(* keeps as it is, with the writes of its statements so far.               *)
Written ==
    \A c \in Calls : tx[c] # None =>
        /\ db.row # None
        /\ tx[c].row = Updated(db.row, req[c])
        /\ pc[c] # "commit" \/ req[c].kind = "analysis" => tx[c].approval = db.approval
        /\ pc[c] = "insert" => tx[c].evidence \subseteq req[c].analysis.evidence
        /\ pc[c] = "commit" /\ req[c].kind = "analysis" =>
              tx[c].evidence = req[c].analysis.evidence
        /\ pc[c] = "commit" /\ req[c].kind = "review" => tx[c].approval = Decision(req[c])
        /\ req[c].kind = "review" => tx[c].evidence = db.evidence

(* A status that tells of a review has its approval row: the committed one *)
(* and one that a GetIncident has read.                                    *)
ReviewHasApproval ==
    /\ db.row # None /\ db.row.status \in {"approved", "rejected"} => db.approval # None
    /\ \A c \in Calls :
          /\ seen[c] \in {"approved", "rejected"} => db.approval # None
          /\ pc[c] = "get_approval" => seen[c] \in IncidentStatus

IInv ==
    /\ TypeOK /\ HasRequest /\ Written
    /\ EvidenceMatchesAnalysis /\ ReviewHasApproval /\ ReviewedReplyHasApproval

-----------------------------------------------------------------------------
(* What a request of each kind holds, and the row its UPDATE makes.        *)
LEMMA AnalysisUpdate ==
    ASSUME NEW row \in Row, NEW q \in Requests, q.kind = "analysis"
    PROVE  /\ q.analysis \in Promise!Analysis
           /\ Updated(row, q).analysis = q.analysis
           /\ Updated(row, q).status = AnalysisStatus(q.analysis.action)
           /\ Updated(row, q).report = row.report
           /\ Updated(row, q) \in Row
<1>1. q \in [kind : {"analysis"}, analysis : Promise!Analysis]
  BY StoreAssumption DEF Request
<1>2. AnalysisStatus(q.analysis.action) \in IncidentStatus
  BY DEF AnalysisStatus, IncidentStatus
<1>3. Updated(row, q) = [row EXCEPT !.analysis = q.analysis,
                                    !.status = AnalysisStatus(q.analysis.action)]
  BY DEF Updated
<1> QED
  BY <1>1, <1>2, <1>3 DEF Row

LEMMA AnalysisEvidence ==
    ASSUME NEW q \in Requests, q.kind = "analysis"
    PROVE  q.analysis.evidence \subseteq Items
<1>1. q \in [kind : {"analysis"}, analysis : Promise!Analysis]
  BY StoreAssumption DEF Request
<1> QED
  BY <1>1 DEF Promise!Analysis

LEMMA ReportUpdate ==
    ASSUME NEW row \in Row, NEW q \in Requests, q.kind = "report"
    PROVE  /\ q.report \in Promise!Report
           /\ Updated(row, q).report = q.report
           /\ Updated(row, q).status = ReportStatus(q.report.receipt)
           /\ Updated(row, q).analysis = row.analysis
           /\ Updated(row, q) \in Row
<1>1. q \in [kind : {"report"}, report : Promise!Report]
  BY StoreAssumption DEF Request
<1>2. ReportStatus(q.report.receipt) \in IncidentStatus
  BY DEF ReportStatus, IncidentStatus
<1>3. Updated(row, q) = [row EXCEPT !.report = q.report,
                                    !.status = ReportStatus(q.report.receipt)]
  BY DEF Updated
<1> QED
  BY <1>1, <1>2, <1>3 DEF Row

LEMMA ReviewUpdate ==
    ASSUME NEW row \in Row, NEW q \in Requests, q.kind = "review"
    PROVE  /\ q.approved \in BOOLEAN /\ q.reviewer \in Reviewers
           /\ Decision(q) \in Promise!Approval
           /\ Updated(row, q).status = ReviewStatus(q.approved)
           /\ Updated(row, q).analysis = row.analysis
           /\ Updated(row, q).report = row.report
           /\ Updated(row, q) \in Row
<1>1. q \in [kind : {"review"}, approved : BOOLEAN, reviewer : Reviewers]
  BY StoreAssumption DEF Request
<1>2. q.approved \in BOOLEAN /\ q.reviewer \in Reviewers
  BY <1>1
<1>3. ReviewStatus(q.approved) \in IncidentStatus
  BY DEF ReviewStatus, IncidentStatus
<1>4. Decision(q) \in Promise!Approval
  BY <1>2 DEF ReviewStatus, Decision, Promise!Approval
<1>5. Updated(row, q) = [row EXCEPT !.status = ReviewStatus(q.approved)]
  BY DEF Updated
<1> QED
  BY <1>2, <1>3, <1>4, <1>5 DEF Row

(* Only a review makes a status that tells of a review.                    *)
LEMMA NoReviewStatus ==
    /\ \A a : AnalysisStatus(a) \notin {"approved", "rejected"}
    /\ \A r : ReportStatus(r) \notin {"approved", "rejected"}
  BY DEF AnalysisStatus, ReportStatus

(* None is nothing else, and a failed answer is an answer.                 *)
LEMMA NoneApart ==
    /\ None \notin Row /\ None \notin DB /\ None \notin Requests /\ None \notin Answer
    /\ None \notin IncidentStatus /\ None \notin {"approved", "rejected"}
    /\ None \notin Promise!Analysis /\ None \notin Promise!Report /\ None \notin Promise!Approval
    /\ NotFound \in Answer /\ Error \in Answer
  BY StoreAssumption DEF NotFound, Error, Answer, IncidentStatus

-----------------------------------------------------------------------------
(* The invariant holds initially.                                          *)
LEMMA InitIInv == Init => IInv
<1> SUFFICES ASSUME Init PROVE IInv
  OBVIOUS
<1> USE NoneApart DEF Init
<1>1. TypeOK
  BY StoreAssumption DEF TypeOK, DB, Statements
<1>2. HasRequest /\ Written
  BY DEF HasRequest, Written, InTransaction
<1>3. EvidenceMatchesAnalysis /\ ReviewHasApproval /\ ReviewedReplyHasApproval
  BY DEF EvidenceMatchesAnalysis, ReviewHasApproval, ReviewedReplyHasApproval
<1> QED
  BY <1>1, <1>2, <1>3 DEF IInv

(* A call that ends without a write of its own leaves the invariant alone. *)
LEMMA FinishKeepsIInv ==
    ASSUME IInv, NEW c \in Calls, NEW r \in Answer, Finish(c, r), UNCHANGED db,
           faults' \in 0..MaxFaults,
           r.status \in {"approved", "rejected"} => r.approval # None
    PROVE  IInv'
<1> USE NoneApart DEF IInv, Finish, RolledBack
<1>1. TypeOK'
  BY DEF TypeOK, Statements
<1>2. HasRequest'
  BY DEF HasRequest, InTransaction, TypeOK
<1>3. Written'
  BY DEF Written, TypeOK
<1>4. EvidenceMatchesAnalysis' /\ ReviewHasApproval' /\ ReviewedReplyHasApproval'
  BY DEF EvidenceMatchesAnalysis, ReviewHasApproval, ReviewedReplyHasApproval, TypeOK
<1> QED
  BY <1>1, <1>2, <1>3, <1>4

(* What a COMMIT makes visible.                                            *)
LEMMA CommitIsGood ==
    ASSUME IInv, NEW c \in Calls, pc[c] = "commit"
    PROVE  /\ tx[c] \in DB /\ tx[c].row # None
           /\ tx[c].evidence = IF tx[c].row.analysis = None THEN {} ELSE tx[c].row.analysis.evidence
           /\ tx[c].row.status \in {"approved", "rejected"} => tx[c].approval # None
           /\ db.approval # None => tx[c].approval # None
           /\ \A d \in Calls \ {c} : tx[d] = None
<1> USE NoneApart DEF IInv
<1>1. /\ tx[c] \in DB /\ db.row \in Row /\ tx[c].row = Updated(db.row, req[c])
      /\ req[c] \in Requests /\ req[c].kind \in {"analysis", "review"}
      /\ \A d \in Calls \ {c} : tx[d] = None
  BY DEF TypeOK, Written, HasRequest, InTransaction, DB
<1>2. CASE req[c].kind = "analysis"
  <2>1. /\ tx[c].evidence = req[c].analysis.evidence /\ tx[c].approval = db.approval
    BY <1>1, <1>2 DEF Written, TypeOK
  <2>2. /\ tx[c].row.analysis = req[c].analysis
        /\ tx[c].row.status = AnalysisStatus(req[c].analysis.action)
        /\ req[c].analysis # None /\ tx[c].row # None
    BY <1>1, <1>2, AnalysisUpdate
  <2> QED
    BY <1>1, <2>1, <2>2, NoReviewStatus
<1>3. CASE req[c].kind = "review"
  <2>1. /\ tx[c].evidence = db.evidence /\ tx[c].approval = Decision(req[c])
    BY <1>1, <1>3 DEF Written, TypeOK
  <2>2. /\ tx[c].row.analysis = db.row.analysis /\ Decision(req[c]) # None
        /\ tx[c].row # None
    BY <1>1, <1>3, ReviewUpdate
  <2> QED
    BY <1>1, <2>1, <2>2 DEF EvidenceMatchesAnalysis
<1> QED
  BY <1>1, <1>2, <1>3

(* What a COMMIT, or an UPDATE outside a transaction, does to the calls    *)
(* that are not in a transaction.                                          *)
LEMMA NewDbKeepsIInv ==
    ASSUME IInv, NEW c \in Calls, pc[c] \in {"commit", "update"}, pc'[c] \in {"get", "answered"},
           db' \in DB, db'.row # None,
           db'.evidence = IF db'.row.analysis = None THEN {} ELSE db'.row.analysis.evidence,
           db'.row.status \in {"approved", "rejected"} => db'.approval # None,
           db.approval # None => db'.approval # None,
           \A d \in Calls \ {c} : tx[d] = None, tx' = [tx EXCEPT ![c] = None],
           pc' = [pc EXCEPT ![c] = pc'[c]], req' = [req EXCEPT ![c] = None],
           seen' \in {seen, [seen EXCEPT ![c] = None]},
           reply' \in {reply, [reply EXCEPT ![c] = Error]},
           faults' \in 0..MaxFaults
    PROVE  IInv'
<1> USE NoneApart DEF IInv
<1>1. TypeOK'
  BY DEF TypeOK, Statements
<1>2. HasRequest'
  BY DEF HasRequest, InTransaction, TypeOK
<1>3. Written'
  BY DEF Written, TypeOK
<1>4. EvidenceMatchesAnalysis' /\ ReviewHasApproval' /\ ReviewedReplyHasApproval'
  BY DEF EvidenceMatchesAnalysis, ReviewHasApproval, ReviewedReplyHasApproval, TypeOK, Error
<1> QED
  BY <1>1, <1>2, <1>3, <1>4

-----------------------------------------------------------------------------
(* One lemma per action that does more than finish a call.                 *)
LEMMA CreateKeepsIInv == IInv /\ CreateIncident => IInv'
<1> SUFFICES ASSUME IInv, CreateIncident PROVE IInv'
  OBVIOUS
<1> USE NoneApart DEF IInv, CreateIncident
<1>1. db'.row \in Row /\ db'.row.status = "created" /\ db'.row.analysis = None
      /\ db'.approval = db.approval /\ db'.evidence = db.evidence /\ db' \in DB
  BY DEF TypeOK, DB, Row, IncidentStatus
<1>2. TypeOK'
  BY <1>1 DEF TypeOK
<1>3. HasRequest' /\ Written'
  BY DEF HasRequest, Written
<1>4. EvidenceMatchesAnalysis' /\ ReviewHasApproval' /\ ReviewedReplyHasApproval'
  BY <1>1 DEF EvidenceMatchesAnalysis, ReviewHasApproval, ReviewedReplyHasApproval, TypeOK
<1> QED
  BY <1>2, <1>3, <1>4

LEMMA AcceptKeepsIInv ==
    ASSUME IInv, NEW c \in Calls, NEW q \in Requests, Accept(c, q)
    PROVE  IInv'
<1> USE NoneApart DEF IInv, Accept
<1>1. q.kind # "get" => q.kind \in {"analysis", "report", "review"}
  BY StoreAssumption DEF Request
<1>2. TypeOK'
  BY DEF TypeOK, Statements
<1>3. HasRequest'
  BY <1>1 DEF HasRequest, InTransaction, TypeOK
<1>4. Written'
  BY DEF Written, TypeOK
<1>5. EvidenceMatchesAnalysis' /\ ReviewHasApproval' /\ ReviewedReplyHasApproval'
  BY DEF EvidenceMatchesAnalysis, ReviewHasApproval, ReviewedReplyHasApproval, TypeOK
<1> QED
  BY <1>2, <1>3, <1>4, <1>5

LEMMA DoneKeepsIInv ==
    ASSUME IInv, NEW c \in Calls, Done(c)
    PROVE  IInv'
<1> USE NoneApart DEF IInv, Done
<1>1. TypeOK'
  BY DEF TypeOK, Statements
<1>2. HasRequest'
  BY DEF HasRequest, InTransaction, TypeOK
<1>3. Written'
  BY DEF Written, TypeOK
<1>4. EvidenceMatchesAnalysis' /\ ReviewHasApproval' /\ ReviewedReplyHasApproval'
  BY DEF EvidenceMatchesAnalysis, ReviewHasApproval, ReviewedReplyHasApproval, TypeOK
<1> QED
  BY <1>1, <1>2, <1>3, <1>4

LEMMA UpdateKeepsIInv ==
    ASSUME IInv, NEW c \in Calls, Update(c)
    PROVE  IInv'
<1> USE NoneApart DEF IInv
<1> DEFINE new == [db EXCEPT !.row = Updated(db.row, req[c])]
<1>1. /\ pc[c] = "update" /\ db.row # None /\ tx[c] = None
      /\ req[c] \in Requests /\ req[c].kind \in {"analysis", "report", "review"}
      /\ \A d \in Calls \ {c} : tx[d] = None
      /\ db \in DB /\ db.row \in Row
  BY DEF TypeOK, HasRequest, Update, RowIsFree, DB
<1>2. Updated(db.row, req[c]) \in Row
  BY <1>1, AnalysisUpdate, ReportUpdate, ReviewUpdate
<1>3. /\ new \in DB /\ new.row = Updated(db.row, req[c])
      /\ new.approval = db.approval /\ new.evidence = db.evidence
  BY <1>1, <1>2 DEF DB
<1>4. CASE req[c].kind = "report"
  <2>1. /\ db' = new /\ tx' = [tx EXCEPT ![c] = None]
        /\ pc' = [pc EXCEPT ![c] = pc'[c]] /\ pc'[c] = "get"
        /\ req' = [req EXCEPT ![c] = None] /\ UNCHANGED <<seen, reply, faults>>
    BY <1>1, <1>4 DEF Update, TypeOK
  <2>2. /\ db'.row.analysis = db.row.analysis
        /\ db'.row.status \notin {"approved", "rejected"}
    BY <1>1, <1>3, <1>4, <2>1, ReportUpdate, NoReviewStatus
  <2>3. db'.row # None /\ db' \in DB /\ db'.approval = db.approval
    BY <1>2, <1>3, <2>1
  <2>4. db'.evidence = IF db'.row.analysis = None THEN {} ELSE db'.row.analysis.evidence
    BY <1>1, <1>3, <2>1, <2>2 DEF EvidenceMatchesAnalysis
  <2>5. faults' \in 0..MaxFaults
    BY <2>1 DEF TypeOK
  <2>6. IInv
    OBVIOUS
  <2> HIDE DEF IInv, new
  <2> QED
    BY <1>1, <2>1, <2>2, <2>3, <2>4, <2>5, <2>6, NewDbKeepsIInv
<1>5. CASE req[c].kind # "report"
  <2> HIDE DEF new
  <2>1. /\ tx' = [tx EXCEPT ![c] = new]
        /\ pc' = [pc EXCEPT ![c] = IF req[c].kind = "analysis" THEN "delete" ELSE "upsert"]
        /\ UNCHANGED <<db, req, seen, reply, faults>>
    BY <1>5 DEF Update, new
  <2>2. TypeOK'
    BY <1>1, <1>3, <2>1 DEF TypeOK, Statements
  <2>3. HasRequest'
    BY <1>1, <1>5, <2>1 DEF HasRequest, InTransaction, TypeOK
  <2>4. Written'
    BY <1>1, <1>3, <1>5, <2>1 DEF Written, TypeOK
  <2>5. EvidenceMatchesAnalysis' /\ ReviewHasApproval' /\ ReviewedReplyHasApproval'
    BY <2>1 DEF EvidenceMatchesAnalysis, ReviewHasApproval, ReviewedReplyHasApproval, TypeOK
  <2> QED
    BY <2>2, <2>3, <2>4, <2>5
<1> QED
  BY <1>4, <1>5

LEMMA DeleteKeepsIInv ==
    ASSUME IInv, NEW c \in Calls, DeleteEvidence(c)
    PROVE  IInv'
<1> USE NoneApart DEF IInv, DeleteEvidence
<1>1. tx[c] \in DB /\ tx[c] # None /\ req[c].kind = "analysis"
  BY DEF TypeOK, HasRequest
<1>2. /\ tx'[c] \in DB /\ tx'[c].evidence = {}
      /\ tx'[c].row = tx[c].row /\ tx'[c].approval = tx[c].approval
  BY <1>1 DEF TypeOK, DB
<1>3. TypeOK'
  BY <1>1, <1>2 DEF TypeOK, Statements
<1>4. HasRequest'
  BY DEF HasRequest, InTransaction, TypeOK
<1>5. Written'
  BY <1>1, <1>2 DEF Written, TypeOK
<1>6. EvidenceMatchesAnalysis' /\ ReviewHasApproval' /\ ReviewedReplyHasApproval'
  BY DEF EvidenceMatchesAnalysis, ReviewHasApproval, ReviewedReplyHasApproval, TypeOK
<1> QED
  BY <1>3, <1>4, <1>5, <1>6

LEMMA InsertKeepsIInv ==
    ASSUME IInv, NEW c \in Calls, InsertEvidence(c)
    PROVE  IInv'
<1> USE NoneApart DEF IInv
<1> DEFINE left == req[c].analysis.evidence \ tx[c].evidence
<1>1. /\ tx[c] \in DB /\ tx[c] # None /\ pc[c] = "insert" /\ req[c] \in Requests
      /\ req[c].kind = "analysis" /\ tx[c].evidence \subseteq req[c].analysis.evidence
      /\ UNCHANGED <<db, req, seen, reply, faults>>
  BY DEF TypeOK, HasRequest, Written, InsertEvidence, InTransaction
<1>2. req[c].analysis.evidence \subseteq Items
  BY <1>1, AnalysisEvidence
<1>3. CASE left = {} /\ pc' = [pc EXCEPT ![c] = "commit"] /\ UNCHANGED tx
  <2>1. TypeOK'
    BY <1>1, <1>3 DEF TypeOK, Statements
  <2>2. HasRequest'
    BY <1>1, <1>3 DEF HasRequest, InTransaction, TypeOK
  <2>0. tx[c].evidence = req[c].analysis.evidence
    BY <1>1, <1>3
  <2>3. Written'
    BY <1>1, <1>3, <2>0 DEF Written, TypeOK
  <2>4. EvidenceMatchesAnalysis' /\ ReviewHasApproval' /\ ReviewedReplyHasApproval'
    BY <1>1, <1>3 DEF EvidenceMatchesAnalysis, ReviewHasApproval, ReviewedReplyHasApproval, TypeOK
  <2> QED
    BY <2>1, <2>2, <2>3, <2>4
<1>4. ASSUME NEW item \in left, tx' = [tx EXCEPT ![c].evidence = @ \cup {item}], UNCHANGED pc
      PROVE  IInv'
  <2> DEFINE new == [tx[c] EXCEPT !.evidence = tx[c].evidence \cup {item}]
  <2>0. /\ new \in DB /\ new.evidence \subseteq req[c].analysis.evidence
        /\ new.row = tx[c].row /\ new.approval = tx[c].approval
    BY <1>1, <1>2, <1>4 DEF DB
  <2>6. tx' = [tx EXCEPT ![c] = new]
    BY <1>4
  <2> HIDE DEF new
  <2>1. /\ tx'[c] \in DB /\ tx'[c].evidence \subseteq req[c].analysis.evidence
        /\ tx'[c].row = tx[c].row /\ tx'[c].approval = tx[c].approval
        /\ \A d \in Calls \ {c} : tx'[d] = tx[d]
        /\ tx' \in [Calls -> DB \cup {None}]
    BY <1>1, <2>0, <2>6 DEF TypeOK
  <2>2. TypeOK'
    BY <1>1, <1>4, <2>1 DEF TypeOK
  <2>3. HasRequest'
    BY <1>1, <1>4 DEF HasRequest
  <2>4. Written'
    BY <1>1, <1>4, <2>1 DEF Written, TypeOK
  <2>5. EvidenceMatchesAnalysis' /\ ReviewHasApproval' /\ ReviewedReplyHasApproval'
    BY <1>1, <1>4 DEF EvidenceMatchesAnalysis, ReviewHasApproval, ReviewedReplyHasApproval
  <2> QED
    BY <2>2, <2>3, <2>4, <2>5
<1> QED
  BY <1>3, <1>4 DEF InsertEvidence

LEMMA UpsertKeepsIInv ==
    ASSUME IInv, NEW c \in Calls, UpsertApproval(c)
    PROVE  IInv'
<1> USE NoneApart DEF IInv
<1>1. /\ tx[c] \in DB /\ tx[c] # None /\ pc[c] = "upsert" /\ req[c] \in Requests
      /\ req[c].kind = "review" /\ db.row \in Row
      /\ UNCHANGED <<db, req, seen, reply, faults>>
  BY DEF TypeOK, HasRequest, Written, UpsertApproval, InTransaction, DB
<1>2. Decision(req[c]) \in Promise!Approval
  BY <1>1, ReviewUpdate
<1>3. /\ tx'[c] \in DB /\ tx'[c].evidence = tx[c].evidence
      /\ tx'[c].row = tx[c].row /\ tx'[c].approval = Decision(req[c])
      /\ \A d \in Calls \ {c} : tx'[d] = tx[d]
      /\ tx' \in [Calls -> DB \cup {None}]
      /\ pc' = [pc EXCEPT ![c] = "commit"]
  BY <1>1, <1>2 DEF UpsertApproval, TypeOK, DB
<1>4. TypeOK'
  BY <1>1, <1>3 DEF TypeOK, Statements
<1>5. HasRequest'
  BY <1>1, <1>3 DEF HasRequest, InTransaction, TypeOK
<1>6. Written'
  BY <1>1, <1>3 DEF Written, TypeOK
<1>7. EvidenceMatchesAnalysis' /\ ReviewHasApproval' /\ ReviewedReplyHasApproval'
  BY <1>1, <1>3 DEF EvidenceMatchesAnalysis, ReviewHasApproval, ReviewedReplyHasApproval, TypeOK
<1> QED
  BY <1>4, <1>5, <1>6, <1>7

LEMMA CommitKeepsIInv ==
    ASSUME IInv, NEW c \in Calls, Commit(c)
    PROVE  IInv'
<1>1. /\ pc[c] = "commit" /\ db' = tx[c] /\ tx' = [tx EXCEPT ![c] = None]
      /\ pc' = [pc EXCEPT ![c] = pc'[c]] /\ pc'[c] = "get"
      /\ req' = [req EXCEPT ![c] = None] /\ UNCHANGED <<seen, reply, faults>>
      /\ faults' \in 0..MaxFaults
  BY DEF Commit, IInv, TypeOK
<1> QED
  BY <1>1, CommitIsGood, NewDbKeepsIInv

LEMMA GetRowKeepsIInv ==
    ASSUME IInv, NEW c \in Calls, GetRow(c)
    PROVE  IInv'
<1> USE NoneApart DEF IInv, GetRow
<1>1. db.row \in Row /\ db.row.status \in IncidentStatus
  BY DEF TypeOK, DB, Row
<1>2. TypeOK'
  BY <1>1 DEF TypeOK, Statements
<1>3. HasRequest'
  BY DEF HasRequest, InTransaction, TypeOK
<1>4. Written'
  BY DEF Written, TypeOK
<1>5. EvidenceMatchesAnalysis' /\ ReviewHasApproval' /\ ReviewedReplyHasApproval'
  BY <1>1 DEF EvidenceMatchesAnalysis, ReviewHasApproval, ReviewedReplyHasApproval, TypeOK
<1> QED
  BY <1>2, <1>3, <1>4, <1>5

LEMMA DeathKeepsIInv == IInv /\ ProcessDies => IInv'
<1> SUFFICES ASSUME IInv, ProcessDies PROVE IInv'
  OBVIOUS
<1> USE NoneApart DEF IInv, ProcessDies
<1>1. TypeOK'
  BY StoreAssumption DEF TypeOK
<1>2. HasRequest' /\ Written'
  BY DEF HasRequest, Written, InTransaction
<1>3. EvidenceMatchesAnalysis' /\ ReviewHasApproval' /\ ReviewedReplyHasApproval'
  BY DEF EvidenceMatchesAnalysis, ReviewHasApproval, ReviewedReplyHasApproval
<1> QED
  BY <1>1, <1>2, <1>3

LEMMA FailureKeepsIInv ==
    ASSUME IInv, NEW c \in Calls, StatementFails(c)
    PROVE  IInv'
<1>1. Finish(c, Error) /\ UNCHANGED db /\ faults' \in 0..MaxFaults
  BY StoreAssumption DEF StatementFails, IInv, TypeOK
<1>2. Error \in Answer /\ Error.status \notin {"approved", "rejected"}
  BY NoneApart DEF Error
<1> QED
  BY <1>1, <1>2, FinishKeepsIInv

LEMMA LostReplyKeepsIInv ==
    ASSUME IInv, NEW c \in Calls, WriteReplyLost(c)
    PROVE  IInv'
<1>1. /\ tx' = [tx EXCEPT ![c] = None]
      /\ pc' = [pc EXCEPT ![c] = pc'[c]] /\ pc'[c] = "answered"
      /\ req' = [req EXCEPT ![c] = None] /\ seen' = [seen EXCEPT ![c] = None]
      /\ reply' = [reply EXCEPT ![c] = Error] /\ faults' \in 0..MaxFaults
  BY StoreAssumption DEF WriteReplyLost, Finish, RolledBack, IInv, TypeOK
<1>2. CASE pc[c] = "commit" /\ db' = tx[c]
  BY <1>1, <1>2, CommitIsGood, NewDbKeepsIInv
<1>3. CASE /\ pc[c] = "update" /\ RowIsFree(c) /\ db.row # None /\ req[c].kind = "report"
           /\ db' = [db EXCEPT !.row = Updated(db.row, req[c])]
  <2>1. /\ db \in DB /\ db.row \in Row /\ req[c] \in Requests
        /\ \A d \in Calls \ {c} : tx[d] = None
    BY <1>3, NoneApart DEF IInv, TypeOK, HasRequest, RowIsFree, DB
  <2>2. /\ Updated(db.row, req[c]) \in Row /\ Updated(db.row, req[c]).analysis = db.row.analysis
        /\ Updated(db.row, req[c]).status \notin {"approved", "rejected"}
    BY <1>3, <2>1, ReportUpdate, NoReviewStatus
  <2>3. /\ db' \in DB /\ db'.row = Updated(db.row, req[c]) /\ db'.row # None
        /\ db'.approval = db.approval /\ db'.evidence = db.evidence
    BY <1>3, <2>1, <2>2, NoneApart DEF DB
  <2>4. db'.evidence = IF db'.row.analysis = None THEN {} ELSE db'.row.analysis.evidence
    BY <1>3, <2>2, <2>3 DEF IInv, EvidenceMatchesAnalysis
  <2>5. db'.row.status \notin {"approved", "rejected"}
    BY <2>2, <2>3
  <2> QED
    BY <1>1, <1>3, <2>1, <2>3, <2>4, <2>5, NewDbKeepsIInv
<1> QED
  BY <1>2, <1>3 DEF WriteReplyLost

(* The statements that only read, or find nothing to write.                *)
LEMMA ReadsKeepIInv ==
    ASSUME IInv, NEW c \in Calls,
           UpdateFindsNothing(c) \/ GetFindsNothing(c) \/ GetApproval(c)
    PROVE  IInv'
<1> DEFINE r == IF pc[c] = "get_approval" THEN [status |-> seen[c], approval |-> db.approval]
                ELSE IF pc[c] = "update" \/ HasScenarioColumn THEN NotFound ELSE Error
<1>1. Finish(c, r) /\ UNCHANGED db /\ faults' \in 0..MaxFaults
  BY DEF UpdateFindsNothing, GetFindsNothing, GetApproval, IInv, TypeOK
<1>2. CASE pc[c] = "get_approval"
  <2>1. seen[c] \in IncidentStatus /\ db.approval \in Promise!Approval \cup {None}
    BY <1>2 DEF IInv, ReviewHasApproval, TypeOK, DB
  <2>2. r \in Answer /\ r.status = seen[c] /\ r.approval = db.approval
    BY <1>2, <2>1 DEF Answer
  <2>3. seen[c] \in {"approved", "rejected"} => db.approval # None
    BY DEF IInv, ReviewHasApproval
  <2> HIDE DEF r
  <2> QED
    BY <1>1, <2>2, <2>3, FinishKeepsIInv
<1>3. CASE pc[c] # "get_approval"
  <2>1. r \in Answer /\ r.status \notin {"approved", "rejected"}
    BY <1>3, NoneApart DEF NotFound, Error
  <2> HIDE DEF r
  <2> QED
    BY <1>1, <2>1, FinishKeepsIInv
<1> QED
  BY <1>2, <1>3

LEMMA NextIInv == IInv /\ [Next]_vars => IInv'
<1> SUFFICES ASSUME IInv, [Next]_vars PROVE IInv'
  OBVIOUS
<1>1. CASE CreateIncident
  BY <1>1, CreateKeepsIInv
<1>2. CASE ProcessDies
  BY <1>2, DeathKeepsIInv
<1>3. ASSUME NEW c \in Calls, NEW q \in Requests, Accept(c, q) PROVE IInv'
  BY <1>3, AcceptKeepsIInv
<1>4. ASSUME NEW c \in Calls, Step(c) PROVE IInv'
  BY <1>4, UpdateKeepsIInv, DeleteKeepsIInv, InsertKeepsIInv, UpsertKeepsIInv, CommitKeepsIInv,
     GetRowKeepsIInv, ReadsKeepIInv DEF Step
<1>5. ASSUME NEW c \in Calls, Done(c) \/ StatementFails(c) \/ WriteReplyLost(c) PROVE IInv'
  BY <1>5, DoneKeepsIInv, FailureKeepsIInv, LostReplyKeepsIInv
<1>6. CASE UNCHANGED vars
  BY <1>6 DEF vars, IInv, TypeOK, HasRequest, Written, EvidenceMatchesAnalysis,
     ReviewHasApproval, ReviewedReplyHasApproval
<1> QED
  BY <1>1, <1>2, <1>3, <1>4, <1>5, <1>6 DEF Next

LEMMA Invariance == Spec => []IInv
  BY InitIInv, NextIInv, PTL DEF Spec

-----------------------------------------------------------------------------
(* Type correctness: at most one transaction at a time has the row, and it *)
(* belongs to a call between its UPDATE and its COMMIT.                    *)
THEOREM StoreTypeCorrect == Spec => []TypeOK
  BY Invariance, PTL DEF IInv

(* SaveAnalysis keeps incidents.analysis_json and evidence_items together, *)
(* whatever fails or interleaves.                                          *)
THEOREM EvidenceAlwaysMatches == Spec => []EvidenceMatchesAnalysis
  BY Invariance, PTL DEF IInv

(* No answer of GetIncident, torn as its two reads may be, says approved   *)
(* or rejected without the approval of ReviewIncident.                     *)
THEOREM ReviewedRepliesHaveApproval == Spec => []ReviewedReplyHasApproval
  BY Invariance, PTL DEF IInv

(* With the legacy column only failures make a call fail.                  *)
THEOREM ErrorsNeedAFault == HasScenarioColumn => (Spec => []FailsForAReason)
<1> SUFFICES ASSUME HasScenarioColumn PROVE Spec => []FailsForAReason
  OBVIOUS
<1>1. Init => FailsForAReason
  BY NoneApart DEF Init, FailsForAReason
<1>2. IInv /\ FailsForAReason /\ [Next]_vars => FailsForAReason'
  <2> SUFFICES ASSUME IInv, FailsForAReason, [Next]_vars PROVE FailsForAReason'
    OBVIOUS
  <2>1. faults \in Nat /\ reply \in [Calls -> Answer \cup {None}]
    BY StoreAssumption DEF IInv, TypeOK
  <2>2. faults' = faults + 1 \/ UNCHANGED faults
    BY DEF Next, Step, CreateIncident, ProcessDies, Accept, Done, StatementFails,
       WriteReplyLost, Update, UpdateFindsNothing, DeleteEvidence, InsertEvidence,
       UpsertApproval, Commit, GetRow, GetFindsNothing, GetApproval, vars
  <2>3. ASSUME NEW c \in Calls, reply'[c] = Error, UNCHANGED faults PROVE reply[c] = Error
    <3>1. NotFound # Error /\ Error # None
      BY NoneApart DEF NotFound, Error
    <3>2. CASE UNCHANGED reply
      BY <2>3, <3>2
    <3>3. ASSUME NEW d \in Calls, Done(d) PROVE reply[c] = Error
      BY <2>1, <2>3, <3>1, <3>3 DEF Done
    <3>4. ASSUME NEW d \in Calls, UpdateFindsNothing(d) \/ GetFindsNothing(d)
          PROVE  reply[c] = Error
      BY <2>1, <2>3, <3>1, <3>4 DEF UpdateFindsNothing, GetFindsNothing, Finish
    <3>5. ASSUME NEW d \in Calls, GetApproval(d) PROVE reply[c] = Error
      <4>1. seen[d] \in IncidentStatus
        BY <3>5 DEF GetApproval, IInv, ReviewHasApproval
      <4>2. [status |-> seen[d], approval |-> db.approval] # Error
        BY <4>1 DEF IncidentStatus, Error
      <4> QED
        BY <2>1, <2>3, <3>5, <4>2 DEF GetApproval, Finish
    <3> QED
      BY <2>1, <2>3, <3>2, <3>3, <3>4, <3>5 DEF Next, Step, CreateIncident, ProcessDies, Accept,
         StatementFails, WriteReplyLost, Update, DeleteEvidence, InsertEvidence, UpsertApproval,
         Commit, GetRow, vars
  <2> QED
    <3>1. CASE faults' = faults + 1
      BY <2>1, <3>1 DEF FailsForAReason
    <3>2. CASE UNCHANGED faults
      BY <2>3, <3>2 DEF FailsForAReason
    <3> QED
      BY <2>2, <3>1, <3>2
<1> QED
  BY <1>1, <1>2, Invariance, PTL DEF Spec

-----------------------------------------------------------------------------
(* Refinement: the steps that write are the memory store's operations.     *)
LEMMA SameRules ==
    /\ \A a : Promise!AnalysisStatus(a) = AnalysisStatus(a)
    /\ \A r : Promise!ReportStatus(r) = ReportStatus(r)
    /\ \A b : Promise!ReviewStatus(b) = ReviewStatus(b)
  BY DEF Promise!AnalysisStatus, AnalysisStatus, Promise!ReportStatus, ReportStatus,
     Promise!ReviewStatus, ReviewStatus

LEMMA CommittedIncident ==
    ASSUME TypeOK, db.row # None
    PROVE  /\ Committed # None
           /\ Committed = [status |-> db.row.status, analysis |-> db.row.analysis,
                           report |-> db.row.report, approval |-> db.approval]
<1>1. db.row \in Row /\ db.approval \in Promise!Approval \cup {None}
  BY DEF TypeOK, DB
<1>2. Committed = [status |-> db.row.status, analysis |-> db.row.analysis,
                   report |-> db.row.report, approval |-> db.approval]
  BY DEF Committed
<1>3. Committed \in Promise!Incident
  BY <1>1, <1>2 DEF Row, Promise!Incident, Promise!IncidentStatus, IncidentStatus
<1> QED
  BY <1>2, <1>3, StoreAssumption

(* Making the row of an analysis visible is SaveAnalysis, of a report      *)
(* SaveReport, of a review with its approval ReviewIncident.               *)
LEMMA WriteIsOperation ==
    ASSUME TypeOK, db.row # None, NEW q \in Requests,
           db'.row = Updated(db.row, q),
           \/ q.kind \in {"analysis", "report"} /\ db'.approval = db.approval
           \/ q.kind = "review" /\ db'.approval = Decision(q)
    PROVE  Promise!Next
<1>1. db.row \in Row
  BY DEF TypeOK, DB
<1>2. db'.row # None
  BY <1>1, AnalysisUpdate, ReportUpdate, ReviewUpdate, NoneApart
<1>3. Committed' = [status |-> db'.row.status, analysis |-> db'.row.analysis,
                    report |-> db'.row.report, approval |-> db'.approval]
  BY <1>2 DEF Committed
<1>4. /\ Committed # None
      /\ Committed = [status |-> db.row.status, analysis |-> db.row.analysis,
                      report |-> db.row.report, approval |-> db.approval]
  BY CommittedIncident
<1>5. CASE q.kind = "analysis"
  <2>1. /\ q.analysis \in Promise!Analysis
        /\ Committed' = [status |-> AnalysisStatus(q.analysis.action), analysis |-> q.analysis,
                         report |-> db.row.report, approval |-> db.approval]
    BY <1>1, <1>3, <1>5, AnalysisUpdate
  <2>2. Promise!SaveAnalysis(q.analysis)
    BY <1>4, <2>1, SameRules DEF Promise!SaveAnalysis
  <2> QED
    BY <2>1, <2>2 DEF Promise!Next
<1>6. CASE q.kind = "report"
  <2>1. /\ q.report \in Promise!Report
        /\ Committed' = [status |-> ReportStatus(q.report.receipt), analysis |-> db.row.analysis,
                         report |-> q.report, approval |-> db.approval]
    BY <1>1, <1>3, <1>6, ReportUpdate
  <2>2. Promise!SaveReport(q.report)
    BY <1>4, <2>1, SameRules DEF Promise!SaveReport
  <2> QED
    BY <2>1, <2>2 DEF Promise!Next
<1>7. CASE q.kind = "review"
  <2>1. /\ q.approved \in BOOLEAN /\ q.reviewer \in Reviewers
        /\ Committed' = [status |-> ReviewStatus(q.approved), analysis |-> db.row.analysis,
                         report |-> db.row.report, approval |-> Decision(q)]
    BY <1>1, <1>3, <1>7, ReviewUpdate
  <2>2. Promise!ReviewIncident(q.approved, q.reviewer)
    BY <1>4, <2>1, SameRules DEF Promise!ReviewIncident, Decision
  <2> QED
    BY <2>1, <2>2 DEF Promise!Next
<1> QED
  BY <1>5, <1>6, <1>7

LEMMA CommitIsOperation ==
    ASSUME IInv, NEW c \in Calls, pc[c] = "commit", db' = tx[c]
    PROVE  Promise!Next
<1>1. /\ tx[c] # None /\ req[c] \in Requests /\ req[c].kind \in {"analysis", "review"}
      /\ TypeOK
  BY DEF IInv, TypeOK, HasRequest, InTransaction
<1>2. /\ db.row # None /\ db'.row = Updated(db.row, req[c])
      /\ req[c].kind = "analysis" => db'.approval = db.approval
      /\ req[c].kind = "review" => db'.approval = Decision(req[c])
  BY <1>1 DEF IInv, Written
<1> QED
  BY <1>1, <1>2, WriteIsOperation

LEMMA ReportIsOperation ==
    ASSUME IInv, NEW c \in Calls, pc[c] = "update", req[c].kind = "report", db.row # None,
           db' = [db EXCEPT !.row = Updated(db.row, req[c])]
    PROVE  Promise!Next
<1>1. req[c] \in Requests /\ TypeOK /\ db \in DB
  BY DEF IInv, TypeOK, HasRequest
<1>2. db'.row = Updated(db.row, req[c]) /\ db'.approval = db.approval
  BY <1>1 DEF DB
<1> QED
  BY <1>1, <1>2, WriteIsOperation

(* The MySQL store, statement by statement and with its failures, does to  *)
(* the incident what the memory store does under its mutex.                *)
THEOREM StoreImplementsMemoryStore == Spec => ImplementsMemoryStore
<1>1. Init => Promise!Init
  BY DEF Init, Promise!Init, Committed
<1>2. IInv /\ [Next]_vars => [Promise!Next]_Committed
  <2> SUFFICES ASSUME IInv, [Next]_vars PROVE Promise!Next \/ UNCHANGED Committed
    OBVIOUS
  <2>1. CASE UNCHANGED db
    BY <2>1 DEF Committed
  <2>2. CASE CreateIncident
    <3>1. db \in DB /\ db.approval = None /\ Committed = None
      BY <2>2 DEF CreateIncident, IInv, TypeOK, Committed
    <3>2. db'.row = [status |-> "created", analysis |-> None, report |-> None]
          /\ db'.approval = None
      BY <2>2, <3>1 DEF CreateIncident, DB
    <3>3. db'.row \in Row
      BY <3>2 DEF Row, IncidentStatus
    <3>4. Committed' = [status |-> "created", analysis |-> None, report |-> None,
                        approval |-> None]
      BY <3>2, <3>3, NoneApart DEF Committed
    <3> QED
      BY <3>1, <3>4 DEF Promise!CreateIncident, Promise!Next
  <2>3. ASSUME NEW c \in Calls, Update(c) PROVE Promise!Next \/ UNCHANGED db
    BY <2>3, ReportIsOperation DEF Update
  <2>4. ASSUME NEW c \in Calls, Commit(c) PROVE Promise!Next
    BY <2>4, CommitIsOperation DEF Commit
  <2>5. ASSUME NEW c \in Calls, WriteReplyLost(c) PROVE Promise!Next
    BY <2>5, CommitIsOperation, ReportIsOperation DEF WriteReplyLost
  <2> QED
    BY <2>1, <2>2, <2>3, <2>4, <2>5 DEF Next, Step, ProcessDies, Accept, Done, StatementFails,
       UpdateFindsNothing, DeleteEvidence, InsertEvidence, UpsertApproval, GetRow,
       GetFindsNothing, GetApproval, vars
<1> QED
  BY <1>1, <1>2, Invariance, PTL DEF Spec, ImplementsMemoryStore, Promise!Spec
=============================================================================
