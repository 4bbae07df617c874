---------------------------- MODULE DemoConsole ----------------------------
(***************************************************************************)
(* The demo console (demo/app.js): one browser page whose asynchronous     *)
(* functions share state.incidentId, the fetches they wait for, and the    *)
(* person in front of it.                                                  *)
(*                                                                         *)
(* JavaScript runs from one await to the next without interruption, so a   *)
(* step is one click, or the answer of one fetch with all the code up to   *)
(* the next fetch.  A fetch names the incident that state.incidentId is    *)
(* when it is sent, which need not be the one its function began with.     *)
(*                                                                         *)
(* The servers behind the page are what a caller sees of them: a run or a  *)
(* decision happens as a whole, fails part way, or goes on after the proxy *)
(* (15 s) or the page has given up.  How it happens is Workflow's.         *)
(***************************************************************************)
EXTENDS Integers, FiniteSets, Sequences

CONSTANTS
    None,        \* JavaScript's null
    Incidents,   \* incident ids
    Flows,       \* places for asynchronous functions in flight
    MaxActions,  \* bound: clicks and page loads
    MaxFaults    \* bound: fetches that fail

ASSUME ConsoleAssumption ==
    /\ None \notin Incidents /\ Flows # {} /\ "page" \notin Flows
    /\ MaxActions \in Nat /\ MaxFaults \in Nat

VARIABLES
    incidentId,   \* state.incidentId
    runResponse,  \* is there an interrupt in state.runResponse?
    stored,       \* the last incident's id in the browser's local storage
    page,         \* what is shown: whose incident, events, agent runs, report
    buttons,      \* the buttons that are enabled
    message,      \* what the status line says went wrong, if anything
    flow,         \* flow[f]: an asynchronous function in flight, or None
    thread,       \* thread[i]: how far the servers are with incident i
    late,         \* calls that go on although nobody waits for them
    hurried,      \* history: since the page was last at rest, was a click made
                  \* before it was done, or a decision despite a failed fetch?
    torn,         \* history: the functions whose bundle state.incidentId changed
                  \* under, and "page" once such a bundle is what is shown
    actions, faults

pageVars == <<incidentId, runResponse, stored, page, buttons, message, flow>>
vars == <<pageVars, thread, late, hurried, torn, actions, faults>>

Id == Incidents \cup {None}
Bundle == <<"incident", "events", "agent-runs", "report">>
Blank == <<None, None, None, None>>
Calls == {"create", "run", "resume"}
Buttons == {"run", "decide"}
Operations == {"simulate", "resume", "load", "restore"}
Parts == UNION {[1 .. n -> Id] : n \in 0 .. 3}
Flow == [op : Operations, auto : BOOLEAN, deciding : BOOLEAN,
         at : Calls \cup {Bundle[k] : k \in 1 .. 4}, asks : Id,
         parts : Parts, waits : BOOLEAN]

(* failed: a run or a decision that ended half way; overruled: a decision  *)
(* was recorded for an incident no thread waited with.                     *)
Threads == {"absent", "unstarted", "gate", "failed", "closed", "overruled"}
ASSUME SentinelAssumption == None \notin Flow

(* Where the next function goes; any free place is as good as another.    *)
Free(f) == flow[f] = None /\ f = CHOOSE g \in Flows : flow[g] = None

(* In refreshIncidentBundle; and the bundles that become torn when the     *)
(* page's id becomes i.                                                    *)
Fetching(fl) == fl # None /\ \E k \in 1 .. 4 : fl.at = Bundle[k]
TornBy(i) == torn \cup IF i = incidentId THEN {} ELSE {f \in Flows : Fetching(flow[f])}

Quiet == \A f \in Flows : flow[f] = None
Shows(i) == page = [k \in 1 .. 4 |-> i]
-----------------------------------------------------------------------------
NewFlow(op, at, i) == [op |-> op, auto |-> FALSE, deciding |-> FALSE, at |-> at,
                       asks |-> i, parts |-> <<>>, waits |-> FALSE]

(* DOMContentLoaded: nothing of the page before is left but the storage.   *)
Load(f) ==
    /\ incidentId' = stored
    /\ runResponse' = FALSE
    /\ page' = Blank
    /\ buttons' = {"run"}
    /\ message' = "none"
    /\ flow' = [g \in Flows |-> IF g = f /\ stored # None
                                THEN NewFlow("restore", "incident", stored) ELSE None]
    /\ UNCHANGED stored

Init ==
    /\ incidentId = None /\ runResponse = FALSE /\ stored = None
    /\ page = Blank /\ buttons = {"run"} /\ message = "none"
    /\ flow = [f \in Flows |-> None]
    /\ thread = [i \in Incidents |-> "absent"]
    /\ late = {} /\ hurried = FALSE /\ torn = {} /\ actions = 0 /\ faults = 0

(* A POST its page has given up on.                                        *)
Abandoned(fl) == IF fl.at \in Calls THEN {[at |-> fl.at, asks |-> fl.asks]} ELSE {}

Reload ==
    /\ actions < MaxActions
    /\ actions' = actions + 1
    /\ hurried' = FALSE /\ torn' = {}
    /\ Load(CHOOSE f \in Flows : TRUE)
    /\ \E lost \in SUBSET UNION {Abandoned(flow[f]) : f \in {g \in Flows : flow[g] # None}} :
        late' = late \cup lost
    /\ UNCHANGED <<thread, faults>>
-----------------------------------------------------------------------------
(* runSimulation up to its first fetch.  The guard on ids is a bound.      *)
Simulate(f, auto) ==
    /\ actions < MaxActions /\ Free(f) /\ "run" \in buttons
    /\ Cardinality({i \in Incidents : thread[i] = "absent"}) >
           Cardinality({c \in late : c.at = "create"})
    /\ actions' = actions + 1 /\ hurried' = ~Quiet
    /\ buttons' = buttons \ {"run"}
    /\ message' = "none"
    /\ flow' = [flow EXCEPT ![f] = [NewFlow("simulate", "create", None) EXCEPT !.auto = auto]]
    /\ UNCHANGED <<incidentId, runResponse, stored, page, thread, late, torn, faults>>

(* resumeIncident up to its fetch.                                         *)
Resume(f) ==
    /\ actions < MaxActions /\ Free(f) /\ "decide" \in buttons
    /\ incidentId # None
    /\ actions' = actions + 1 /\ hurried' = (hurried \/ ~Quiet \/ message = "fetch")
    /\ buttons' = buttons \ {"decide"}
    /\ message' = "none"
    /\ flow' = [flow EXCEPT ![f] = [NewFlow("resume", "resume", incidentId)
                                    EXCEPT !.deciding = TRUE]]
    /\ UNCHANGED <<incidentId, runResponse, stored, page, thread, late, torn, faults>>

(* What the history lists: the incidents that were created.  Its filters   *)
(* and its limit only make it shorter.                                     *)
Listed == {i \in Incidents : thread[i] # "absent"}

(* A history-load-button.                                                  *)
LoadHistory(f, i) ==
    /\ actions < MaxActions /\ Free(f) /\ i \in Listed
    /\ actions' = actions + 1 /\ hurried' = ~Quiet
    /\ incidentId' = i /\ stored' = i /\ torn' = TornBy(i)
    /\ flow' = [flow EXCEPT ![f] = NewFlow("load", "incident", i)]
    /\ UNCHANGED <<runResponse, page, buttons, message, thread, late, faults>>
-----------------------------------------------------------------------------
(* What a run or a decision makes of the thread, and what it may leave     *)
(* when it fails.                                                          *)
Outcomes(at, t) ==
    CASE at = "run"    -> {"gate", "closed"}
      [] at = "resume" -> CASE t = "gate"   -> {"closed"}
                            [] t = "failed" -> {"gate", "closed"}
                            [] OTHER        -> {"overruled"}
Leftovers(at, t) ==
    IF t \in {"unstarted", "gate", "failed"} THEN {t, "failed"}
    ELSE IF at = "resume" THEN {t, "overruled"} ELSE {t}

(* The incident's status is waiting_for_approval.                          *)
StatusWaits(i) == CASE thread[i] = "gate"   -> {TRUE}
                    [] thread[i] = "failed" -> BOOLEAN
                    [] OTHER                -> {FALSE}

(* A plausible slip: what an earlier bundle fetched is kept.               *)
RefreshingKeepsParts(fl) == [fl EXCEPT !.at = "incident", !.asks = incidentId]

(* refreshIncidentBundle up to its first fetch.                            *)
Refreshing(fl) == [fl EXCEPT !.at = "incident", !.asks = incidentId, !.parts = <<>>]

Created(f) ==
    /\ flow[f] # None /\ flow[f].at = "create"
    /\ \E i \in Incidents :
        /\ thread[i] = "absent"
        /\ thread' = [thread EXCEPT ![i] = "unstarted"]
        /\ incidentId' = i /\ stored' = i /\ torn' = TornBy(i)
        /\ flow' = [flow EXCEPT ![f].at = "run", ![f].asks = i]
    /\ UNCHANGED <<runResponse, page, buttons, message, late, hurried, actions, faults>>

(* A plausible slip: the run button is left to the next rendering.         *)
FinallyOnlyDecisions(fl) == IF fl.deciding THEN {"decide"} ELSE {}

(* The buttons the finally clauses of a function's end enable.             *)
Finally(fl) == (IF fl.op = "simulate" THEN {"run"} ELSE {})
               \cup (IF fl.deciding THEN {"decide"} ELSE {})

(* runSimulation goes on to decide by itself.                              *)
AutoApproves(fl, interrupt) ==
    fl.op = "simulate" /\ fl.auto /\ ~fl.deciding /\ interrupt

(* The function goes on after refreshIncidentBundle, and ends.  When       *)
(* auto-approve finds no id, it leaves before it says anything.            *)
Returns(f, interrupt, enabled) ==
    /\ flow' = [flow EXCEPT ![f] = None]
    /\ buttons' = enabled \cup Finally(flow[f])
    /\ message' = IF flow[f].op = "restore" \/ AutoApproves(flow[f], interrupt)
                  THEN message ELSE "none"

(* A decision about a thread that never started: the review is recorded,   *)
(* then the orchestrator fails.                                            *)
TooEarly(fl) == fl.at = "resume" /\ thread[fl.asks] = "unstarted"

(* The answer of a run or of a decision, and refreshIncidentBundle, which  *)
(* returns at once if the id has been reset meanwhile.                     *)
Answered(f) ==
    /\ flow[f] # None /\ flow[f].at \in {"run", "resume"} /\ ~ TooEarly(flow[f])
    /\ \E t \in Outcomes(flow[f].at, thread[flow[f].asks]) :
        /\ thread' = [thread EXCEPT ![flow[f].asks] = t]
        /\ runResponse' = (t = "gate")
        /\ IF incidentId # None
           THEN flow' = [flow EXCEPT ![f] = Refreshing(@)] /\ UNCHANGED <<buttons, message>>
           ELSE Returns(f, t = "gate", buttons)
    /\ UNCHANGED <<incidentId, stored, page, late, hurried, torn, actions, faults>>

(* The k-th part has arrived; the next fetch names what state.incidentId   *)
(* is by now.                                                              *)
NextFetch(fl, k, waits) ==
    [fl EXCEPT !.at = Bundle[k + 1], !.asks = incidentId, !.parts = Append(@, fl.asks),
               !.waits = waits]

(* One of the bundle's fetches but the last.                               *)
Fetched(f) ==
    /\ flow[f] # None /\ flow[f].asks # None
    /\ \E k \in 1 .. 3 :
        /\ flow[f].at = Bundle[k]
        /\ \E waits \in IF k = 1 THEN StatusWaits(flow[f].asks) ELSE {flow[f].waits} :
            flow' = [flow EXCEPT ![f] = NextFetch(@, k, waits)]
    /\ UNCHANGED <<incidentId, runResponse, stored, page, buttons, message, thread, late,
                   hurried, torn, actions, faults>>
-----------------------------------------------------------------------------
(* renderApprovalBar.                                                      *)
ApprovalButton(waiting) ==
    IF waiting THEN buttons \cup {"decide"} ELSE buttons \ {"decide"}

(* The report arrives (or there is none, which is no failure): everything  *)
(* is rendered at once, and the function goes on after its await.          *)
Rendered(f) ==
    /\ flow[f] # None /\ flow[f].at = "report"
    /\ page' = Append(flow[f].parts, flow[f].asks)
    /\ torn' = IF f \in torn THEN (torn \ {f}) \cup {"page"} ELSE torn \ {"page"}
    /\ LET shown == ApprovalButton(runResponse \/ flow[f].waits) IN
       IF AutoApproves(flow[f], runResponse) /\ incidentId # None
       THEN /\ flow' = [flow EXCEPT ![f] = [@ EXCEPT !.at = "resume", !.asks = incidentId,
                                                     !.deciding = TRUE]]
            /\ buttons' = shown \ {"decide"} /\ UNCHANGED message
       ELSE Returns(f, runResponse, shown)
    /\ UNCHANGED <<incidentId, runResponse, stored, thread, late, hurried, actions, faults>>

(* A plausible slip: a failed restore leaves the incident's id.            *)
FailWithKeepingId(f) ==
    /\ flow' = [flow EXCEPT ![f] = None]
    /\ buttons' = buttons \cup Finally(flow[f])
    /\ IF flow[f].op = "restore" THEN UNCHANGED message
       ELSE message' = IF flow[f].deciding THEN "resume" ELSE "fetch"
    /\ UNCHANGED <<incidentId, stored, runResponse, page>>

(* A plausible slip: a failure is not shown to the person.                 *)
FailSilently(f) ==
    /\ flow' = [flow EXCEPT ![f] = None]
    /\ buttons' = buttons \cup Finally(flow[f])
    /\ IF flow[f].op = "restore" THEN incidentId' = None /\ stored' = None
       ELSE UNCHANGED <<incidentId, stored>>
    /\ UNCHANGED <<runResponse, page, message>>

(* The catch and finally clauses.  Nothing of a bundle is rendered.        *)
FailWith(f) ==
    /\ flow' = [flow EXCEPT ![f] = None]
    /\ buttons' = buttons \cup Finally(flow[f])
    /\ IF flow[f].op = "restore"
       THEN incidentId' = None /\ stored' = None /\ UNCHANGED message
       ELSE /\ message' = IF flow[f].deciding THEN "resume" ELSE "fetch"
            /\ UNCHANGED <<incidentId, stored>>
    /\ UNCHANGED <<runResponse, page>>

(* A fetch is answered 500, 502 or not at all.  A POST may have had part   *)
(* of its effect, or may still have all of it.                             *)
Fails(f) ==
    /\ faults < MaxFaults /\ flow[f] # None
    /\ faults' = faults + 1
    /\ FailWith(f) /\ torn' = TornBy(incidentId') \ {f}
    /\ \/ flow[f].at \in {"run", "resume"} /\ UNCHANGED late
          /\ \E t \in Leftovers(flow[f].at, thread[flow[f].asks]) :
                thread' = [thread EXCEPT ![flow[f].asks] = t]
       \/ late' = late \cup Abandoned(flow[f]) /\ UNCHANGED thread
    /\ UNCHANGED <<hurried, actions>>

(* The error a decision that came too early is answered with.              *)
AnsweredTooEarly(f) ==
    /\ flow[f] # None /\ TooEarly(flow[f])
    /\ thread' = [thread EXCEPT ![flow[f].asks] = "overruled"]
    /\ FailWith(f) /\ torn' = TornBy(incidentId') \ {f}
    /\ UNCHANGED <<late, hurried, actions, faults>>

(* GET /incidents/null: state.incidentId was reset while the page fetched. *)
FetchesNothing(f) ==
    /\ flow[f] # None /\ flow[f].asks = None
    /\ flow[f].at \in {"incident", "events", "agent-runs"}
    /\ FailWith(f) /\ torn' = TornBy(incidentId') \ {f}
    /\ UNCHANGED <<thread, late, hurried, actions, faults>>

(* A call nobody waits for any more is carried out.                        *)
LateCall(c) ==
    /\ late' = late \ {c}
    /\ \/ /\ c.at = "create"
          /\ \E i \in Incidents : thread[i] = "absent"
                                  /\ thread' = [thread EXCEPT ![i] = "unstarted"]
       \/ /\ c.at # "create"
          /\ \E t \in Outcomes(c.at, thread[c.asks]) : thread' = [thread EXCEPT ![c.asks] = t]
    /\ UNCHANGED <<pageVars, hurried, torn, actions, faults>>
-----------------------------------------------------------------------------
Step(f) == Created(f) \/ Answered(f) \/ AnsweredTooEarly(f) \/ Fetched(f) \/ Rendered(f)
           \/ FetchesNothing(f)

Next ==
    \/ Reload
    \/ \E f \in Flows :
        \/ \E auto \in BOOLEAN : Simulate(f, auto)
        \/ Resume(f)
        \/ \E i \in Incidents : LoadHistory(f, i)
        \/ Step(f) \/ Fails(f)
    \/ \E c \in late : LateCall(c)

Spec == Init /\ [][Next]_vars

(* Every fetch is answered sooner or later.                                *)
FairSpec == Spec /\ \A f \in Flows : WF_vars(Step(f))
-----------------------------------------------------------------------------
Simulates(f) == flow[f] # None /\ flow[f].op = "simulate"

(* Types; at most one simulation is in flight, and the run button is       *)
(* disabled exactly while there is one.                                    *)
TypeOK ==
    /\ incidentId \in Id /\ stored \in Id /\ runResponse \in BOOLEAN
    /\ page \in [1 .. 4 -> Id]
    /\ buttons \subseteq Buttons /\ message \in {"none", "fetch", "resume"}
    /\ flow \in [Flows -> Flow \cup {None}]
    /\ thread \in [Incidents -> Threads]
    /\ late \subseteq [at : Calls, asks : Id]
    /\ hurried \in BOOLEAN /\ torn \subseteq Flows \cup {"page"}
    /\ actions \in 0 .. MaxActions /\ faults \in 0 .. MaxFaults
    /\ \A f, g \in Flows : Simulates(f) /\ Simulates(g) => f = g
    /\ "run" \notin buttons <=> \E f \in Flows : Simulates(f)

(* Once everything has been fetched and nothing is reported to have gone   *)
(* wrong, all four parts of the page are of the incident that a click on   *)
(* approve or reject is about, however many functions ran into each other, *)
(* were loaded, simulated, reloaded or failed on the way, unless the id    *)
(* changed while the last to be shown was fetching (refreshIncidentBundle).*)
(* After a failed decision the same holds if nothing was hurried.          *)
PageIsOneIncident ==
    /\ Quiet /\ incidentId # None /\ "page" \notin torn
    /\ message = "none" \/ (message = "resume" /\ ~hurried)
    => Shows(incidentId)

(* The page sends a decision, of the person's or of auto-approve.          *)
Decides(f) == flow'[f] # None /\ flow'[f].at = "resume"
              /\ (flow[f] = None \/ flow[f].at # "resume")

(* A decision is sent for the incident the page shows: one of the person   *)
(* who does not hurry, and one of auto-approve also when other functions   *)
(* run, unless the id changed while it was fetching.                       *)
DecisionFitsPage ==
    [][\A f \in Flows :
            Decides(f) /\ (~hurried' \/ (flow[f] # None /\ "page" \notin torn')) =>
                page' = [k \in 1 .. 4 |-> flow'[f].asks]]_vars

(* The run button always comes back, however the simulation ended.         *)
RunButtonReturns == "run" \notin buttons ~> "run" \in buttons

(* The approve and reject buttons ask for a decision that is waited for:   *)
(* "if it enters waiting_for_approval" (app.js).                           *)
DecidesWhatWaits ==
    [][\A f \in Flows : Decides(f) => thread[flow'[f].asks] \in {"gate", "failed"}]_vars
=============================================================================
