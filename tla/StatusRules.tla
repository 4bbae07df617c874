---------------------------- MODULE StatusRules ----------------------------
(***************************************************************************)
(* The status incident-api gives an incident on each write, the same in    *)
(* both of its stores.  None of the rules looks at the status before.      *)
(***************************************************************************)
CONSTANT None    \* Python's None, Go's nil, an absent row

IncidentStatus == {"created", "diagnosed", "waiting_for_approval", "approved",
                   "rejected", "recovered", "report_ready"}

(* A plausible slip: the plan's approval flag is not looked at.            *)
AnalysisStatusIgnoringApproval(a) == "diagnosed"

(* SaveAnalysis, for the proposed action a (None: no action).              *)
AnalysisStatus(a) ==
    IF a # None /\ a.needsApproval THEN "waiting_for_approval" ELSE "diagnosed"

(* A plausible slip: any report closes the incident.                       *)
ReportStatusIgnoringReceipt(receipt) == "recovered"

(* A plausible slip: a report without a receipt counts as not yet approved.*)
ReportStatusStillWaiting(receipt) ==
    IF receipt = None THEN "waiting_for_approval"
    ELSE IF receipt.verification = "recovered" THEN "recovered" ELSE "report_ready"

(* SaveReport: only the report's receipt counts, not the review.           *)
ReportStatus(receipt) ==
    IF receipt = None THEN "diagnosed"
    ELSE IF receipt.verification = "recovered" THEN "recovered" ELSE "report_ready"

(* ReviewIncident.                                                         *)
ReviewStatus(approved) == IF approved THEN "approved" ELSE "rejected"
=============================================================================
