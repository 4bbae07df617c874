------------------------- MODULE DemoConsoleProofs -------------------------
(***************************************************************************)
(* Proofs about DemoConsole, for any incidents, any number of functions in *)
(* flight, any number of clicks and of failed fetches.                     *)
(***************************************************************************)
EXTENDS DemoConsole, SequenceTheorems, TLAPS

(* What a function in flight has fetched so far is one part per fetch of   *)
(* the bundle that is over.                                                *)
Collected(fl) == \A k \in 1 .. 4 : fl.at = Bundle[k] => fl.parts \in [1 .. k - 1 -> Id]

(* An approve or reject, or the simulation of auto-approve, decides.       *)
TInv ==
    /\ TypeOK
    /\ \A f \in Flows : flow[f] # None => Collected(flow[f])

(* While nobody hurries at most one function is in flight, and everything  *)
(* it did and will do is about state.incidentId; a decision is only sent   *)
(* from a page that shows that incident.                                   *)
OnTrack(fl) ==
    /\ fl.at = "create" => ~ fl.deciding
    /\ fl.at # "create" => fl.asks = incidentId /\ incidentId # None
    /\ \A k \in 1 .. 4 : fl.at = Bundle[k] => \A j \in 1 .. k - 1 : fl.parts[j] = incidentId
    /\ fl.at = "resume" => fl.deciding
    /\ fl.deciding => Shows(incidentId)

PageInv ==
    ~hurried =>
        /\ \A f, g \in Flows : flow[f] # None /\ flow[g] # None => f = g
        /\ \A f \in Flows : flow[f] # None => OnTrack(flow[f])
        /\ Quiet /\ incidentId # None /\ message # "fetch" => Shows(incidentId)
---------------------------------------------------------------------------
(* The bundle's fetches.                                                   *)
LEMMA BundleIs ==
    /\ Bundle[1] = "incident" /\ Bundle[2] = "events" /\ Bundle[3] = "agent-runs" /\ Bundle[4] = "report"
    /\ {Bundle[k] : k \in 1 .. 4} = {"incident", "events", "agent-runs", "report"}
  BY DEF Bundle

LEMMA NoParts == <<>> \in [1 .. 0 -> Id] /\ <<>> \in Parts
  <1>1. <<>> \in [1 .. 0 -> Id]
    OBVIOUS
  <1> QED BY <1>1 DEF Parts

LEMMA SomeParts == ASSUME NEW n \in 0 .. 3 PROVE [1 .. n -> Id] \subseteq Parts
  BY DEF Parts

(* One more part.                                                          *)
LEMMA OneMore ==
    ASSUME NEW n \in 0 .. 3, NEW p \in [1 .. n -> Id], NEW i \in Id
    PROVE  /\ Append(p, i) \in [1 .. n + 1 -> Id]
           /\ Append(p, i)[n + 1] = i
           /\ \A j \in 1 .. n : Append(p, i)[j] = p[j]
  <1>1. p \in Seq(Id) /\ Len(p) = n
    OBVIOUS
  <1>2. Append(p, i) \in Seq(Id) /\ Len(Append(p, i)) = n + 1
    BY <1>1
  <1>3. Append(p, i) \in [1 .. n + 1 -> Id]
    BY <1>2, LenProperties
  <1>4. Append(p, i)[n + 1] = i /\ \A j \in 1 .. n : Append(p, i)[j] = p[j]
    BY <1>1
  <1> QED BY <1>3, <1>4

LEMMA FlowFields ==
    ASSUME NEW fl \in Flow
    PROVE  /\ fl.op \in Operations /\ fl.auto \in BOOLEAN /\ fl.deciding \in BOOLEAN
           /\ fl.at \in Calls \cup {"incident", "events", "agent-runs", "report"}
           /\ fl.asks \in Id /\ fl.parts \in Parts /\ fl.waits \in BOOLEAN /\ fl # None
  BY BundleIs, SentinelAssumption DEF Flow

(* A function that goes on to another fetch is the same function: after    *)
(* its incident is created, in the bundle, to auto-approve.                *)
ToRun(fl, i) == [fl EXCEPT !.at = "run", !.asks = i]
ToFetch(fl, x, p, b) == [fl EXCEPT !.at = x, !.asks = incidentId, !.parts = p, !.waits = b]
ToDecide(fl) == [fl EXCEPT !.at = "resume", !.asks = incidentId, !.deciding = TRUE]

LEMMA ToRunType ==
    ASSUME NEW fl \in Flow, NEW i \in Id, NEW new, new = ToRun(fl, i)
    PROVE  /\ new \in Flow /\ new # None
           /\ new.op = fl.op /\ new.auto = fl.auto /\ new.deciding = fl.deciding
           /\ new.at = "run" /\ new.asks = i /\ Collected(new)
  <1>1. new = [op |-> fl.op, auto |-> fl.auto, deciding |-> fl.deciding, at |-> "run", asks |-> i,
               parts |-> fl.parts, waits |-> fl.waits]
    BY DEF Flow, ToRun
  <1>2. new \in Flow
    BY <1>1, FlowFields, BundleIs DEF Flow, Calls
  <1>3. Collected(new)
    BY <1>1, BundleIs DEF Collected
  <1>4. /\ new.op = fl.op /\ new.auto = fl.auto /\ new.deciding = fl.deciding
        /\ new.at = "run" /\ new.asks = i
    BY <1>1
  <1>5. new # None
    BY <1>2, SentinelAssumption
  <1> QED BY <1>2, <1>3, <1>4, <1>5, Zenon

LEMMA ToFetchType ==
    ASSUME NEW fl \in Flow, NEW x \in {"incident", "events", "agent-runs", "report"},
           incidentId \in Id, NEW p \in Parts, NEW b \in BOOLEAN, NEW new,
           new = ToFetch(fl, x, p, b)
    PROVE  /\ new \in Flow /\ new # None
           /\ new.op = fl.op /\ new.auto = fl.auto /\ new.deciding = fl.deciding
           /\ new.at = x /\ new.asks = incidentId /\ new.parts = p /\ new.waits = b
  <1>1. new = [op |-> fl.op, auto |-> fl.auto, deciding |-> fl.deciding, at |-> x,
               asks |-> incidentId, parts |-> p, waits |-> b]
    BY DEF Flow, ToFetch
  <1>2. new \in Flow
    BY <1>1, FlowFields, BundleIs DEF Flow
  <1> QED BY <1>1, <1>2, FlowFields

LEMMA ToDecideType ==
    ASSUME NEW fl \in Flow, incidentId \in Id, NEW new, new = ToDecide(fl)
    PROVE  /\ new \in Flow /\ new # None
           /\ new.op = fl.op /\ new.auto = fl.auto /\ new.deciding
           /\ new.at = "resume" /\ new.asks = incidentId /\ Collected(new)
  <1>1. new = [op |-> fl.op, auto |-> fl.auto, deciding |-> TRUE, at |-> "resume",
               asks |-> incidentId, parts |-> fl.parts, waits |-> fl.waits]
    BY DEF Flow, ToDecide
  <1>2. new \in Flow
    BY <1>1, FlowFields, BundleIs DEF Flow, Calls
  <1>3. Collected(new)
    BY <1>1, BundleIs DEF Collected
  <1>4. /\ new.op = fl.op /\ new.auto = fl.auto /\ new.deciding
        /\ new.at = "resume" /\ new.asks = incidentId
    BY <1>1
  <1>5. new # None
    BY <1>2, SentinelAssumption
  <1> QED BY <1>2, <1>3, <1>4, <1>5, Zenon

LEMMA RefreshingType ==
    ASSUME NEW fl \in Flow, incidentId \in Id, NEW new, new = Refreshing(fl)
    PROVE  /\ new \in Flow /\ new # None
           /\ new.op = fl.op /\ new.auto = fl.auto /\ new.deciding = fl.deciding
           /\ new.at = "incident" /\ new.asks = incidentId /\ new.parts = <<>>
           /\ Collected(new)
  <1>1. new = [op |-> fl.op, auto |-> fl.auto, deciding |-> fl.deciding, at |-> "incident",
               asks |-> incidentId, parts |-> <<>>, waits |-> fl.waits]
    BY DEF Flow, Refreshing
  <1>2. new \in Flow
    BY <1>1, FlowFields, BundleIs, NoParts DEF Flow
  <1>3. Collected(new)
    BY <1>1, NoParts, BundleIs DEF Collected
  <1> QED BY <1>1, <1>2, <1>3, FlowFields

(* A function's first fetch.                                               *)
LEMMA FlowBegins ==
    ASSUME NEW o \in Operations, NEW x \in {"create", "resume", "incident"}, NEW i \in Id,
           NEW new, new = NewFlow(o, x, i)
    PROVE  /\ new \in Flow /\ new # None /\ Collected(new)
           /\ new.op = o /\ new.at = x /\ new.asks = i /\ new.parts = <<>> /\ ~ new.deciding
  <1>1. new \in Flow
    BY NoParts, BundleIs DEF Flow, Calls, NewFlow
  <1>2. Collected(new)
    BY NoParts, BundleIs DEF Collected, NewFlow
  <1>3. new.op = o /\ new.at = x /\ new.asks = i /\ new.parts = <<>> /\ ~ new.deciding
    BY DEF NewFlow
  <1> QED BY <1>1, <1>2, <1>3, FlowFields

Simulation(auto) == [NewFlow("simulate", "create", None) EXCEPT !.auto = auto]
Decision == [NewFlow("resume", "resume", incidentId) EXCEPT !.deciding = TRUE]

LEMMA SimulationBegins ==
    ASSUME NEW a \in BOOLEAN, NEW new, new = Simulation(a)
    PROVE  /\ new \in Flow /\ new # None /\ Collected(new)
           /\ new.op = "simulate" /\ new.at = "create" /\ ~ new.deciding
  <1>1. new = [op |-> "simulate", auto |-> a, deciding |-> FALSE, at |-> "create", asks |-> None,
               parts |-> <<>>, waits |-> FALSE]
    BY DEF NewFlow, Simulation
  <1>2. new \in Flow
    BY <1>1, NoParts, BundleIs DEF Flow, Calls, Operations, Id
  <1>3. Collected(new)
    BY <1>1, BundleIs DEF Collected
  <1>4. new.op = "simulate" /\ new.at = "create" /\ ~ new.deciding
    BY <1>1
  <1> QED BY <1>2, <1>3, <1>4, SentinelAssumption

LEMMA DecisionBegins ==
    ASSUME incidentId \in Id, NEW new, new = Decision
    PROVE  /\ new \in Flow /\ new # None /\ Collected(new)
           /\ new.op = "resume" /\ new.at = "resume" /\ new.asks = incidentId /\ new.deciding
  <1>1. new = [op |-> "resume", auto |-> FALSE, deciding |-> TRUE, at |-> "resume",
               asks |-> incidentId, parts |-> <<>>, waits |-> FALSE]
    BY DEF NewFlow, Decision
  <1>2. new \in Flow
    BY <1>1, NoParts, BundleIs DEF Flow, Calls, Operations
  <1>3. Collected(new)
    BY <1>1, BundleIs DEF Collected
  <1>4. new.op = "resume" /\ new.at = "resume" /\ new.asks = incidentId /\ new.deciding
    BY <1>1
  <1> QED BY <1>2, <1>3, <1>4, SentinelAssumption
---------------------------------------------------------------------------
(* Types.  The functions in flight and the run button, and all the rest.   *)
FlowsOK ==
    /\ flow \in [Flows -> Flow \cup {None}]
    /\ \A f \in Flows : flow[f] # None => Collected(flow[f])
    /\ \A f, g \in Flows : Simulates(f) /\ Simulates(g) => f = g
    /\ "run" \notin buttons <=> \E f \in Flows : Simulates(f)

RestOK ==
    /\ incidentId \in Id /\ stored \in Id /\ runResponse \in BOOLEAN
    /\ page \in [1 .. 4 -> Id]
    /\ buttons \subseteq Buttons /\ message \in {"none", "fetch", "resume"}
    /\ thread \in [Incidents -> Threads]
    /\ late \subseteq [at : Calls, asks : Id]
    /\ hurried \in BOOLEAN /\ torn \subseteq Flows \cup {"page"}
    /\ actions \in 0 .. MaxActions /\ faults \in 0 .. MaxFaults

LEMMA TInvSplits == TInv <=> FlowsOK /\ RestOK
  BY DEF TInv, TypeOK, FlowsOK, RestOK

LEMMA TInvSplitsNext == FlowsOK' /\ RestOK' => TInv'
  BY DEF TInv, TypeOK, FlowsOK, RestOK

LEMMA FlowStays == ASSUME FlowsOK, UNCHANGED <<flow, buttons>> PROVE FlowsOK'
  BY DEF FlowsOK, Simulates

(* A function goes on.                                                     *)
LEMMA FlowMoves ==
    ASSUME FlowsOK, NEW f \in Flows, flow[f] # None, NEW new \in Flow, new # None, Collected(new),
           new.op = flow[f].op, flow' = [flow EXCEPT ![f] = new],
           "run" \in buttons' <=> "run" \in buttons
    PROVE  FlowsOK'
  <1>1. flow' \in [Flows -> Flow \cup {None}]
    BY DEF FlowsOK
  <1>2. \A g \in Flows : flow'[g] = IF g = f THEN new ELSE flow[g]
    BY DEF FlowsOK
  <1>3. \A g \in Flows : flow'[g] # None => Collected(flow'[g])
    BY <1>2 DEF FlowsOK
  <1>4. \A g \in Flows : Simulates(g)' <=> Simulates(g)
    BY <1>2 DEF Simulates
  <1> QED BY <1>1, <1>3, <1>4 DEF FlowsOK

(* A function begins; a simulation takes the run button.                   *)
LEMMA FlowStarts ==
    ASSUME FlowsOK, NEW f \in Flows, flow[f] = None, NEW new \in Flow, new # None, Collected(new),
           flow' = [flow EXCEPT ![f] = new],
           IF new.op = "simulate" THEN "run" \in buttons /\ "run" \notin buttons'
           ELSE "run" \in buttons' <=> "run" \in buttons
    PROVE  FlowsOK'
  <1>1. flow' \in [Flows -> Flow \cup {None}]
    BY DEF FlowsOK
  <1>2. \A g \in Flows : flow'[g] = IF g = f THEN new ELSE flow[g]
    BY DEF FlowsOK
  <1>3. \A g \in Flows : flow'[g] # None => Collected(flow'[g])
    BY <1>2 DEF FlowsOK
  <1>4. \A g \in Flows : Simulates(g)' <=> Simulates(g) \/ (g = f /\ new.op = "simulate")
    BY <1>2 DEF Simulates
  <1> QED BY <1>1, <1>3, <1>4 DEF FlowsOK

(* A function ends; a simulation gives the run button back.                *)
LEMMA FlowEnds ==
    ASSUME FlowsOK, NEW f \in Flows, flow[f] # None, flow' = [flow EXCEPT ![f] = None],
           "run" \in buttons' <=> "run" \in buttons \/ flow[f].op = "simulate"
    PROVE  FlowsOK'
  <1>1. flow' \in [Flows -> Flow \cup {None}]
    BY DEF FlowsOK
  <1>2. \A g \in Flows : flow'[g] = IF g = f THEN None ELSE flow[g]
    BY DEF FlowsOK
  <1>3. \A g \in Flows : flow'[g] # None => Collected(flow'[g])
    BY <1>2 DEF FlowsOK
  <1>4. \A g \in Flows : Simulates(g)' <=> Simulates(g) /\ g # f
    BY <1>2 DEF Simulates
  <1> QED BY <1>1, <1>3, <1>4 DEF FlowsOK, Simulates

LEMMA InitTInv == Init => TInv
  <1> SUFFICES ASSUME Init PROVE TInv
    OBVIOUS
  <1>1. FlowsOK
    BY DEF Init, FlowsOK, Simulates
  <1>2. page \in [1 .. 4 -> Id]
    BY DEF Init, Blank, Id
  <1>3. thread \in [Incidents -> Threads]
    BY DEF Init, Threads
  <1>4. late \subseteq [at : Calls, asks : Id] /\ buttons \subseteq Buttons
    BY DEF Init, Buttons
  <1>5. actions \in 0 .. MaxActions /\ faults \in 0 .. MaxFaults
    BY ConsoleAssumption DEF Init
  <1>6. RestOK
    BY <1>2, <1>3, <1>4, <1>5 DEF Init, RestOK, Id
  <1> QED BY <1>1, <1>6, TInvSplits

(* The outcomes of the servers' calls are states of a thread.              *)
LEMMA OutcomesAreThreads ==
    ASSUME NEW at, NEW t \in Threads
    PROVE  /\ at \in {"run", "resume"} => Outcomes(at, t) \subseteq Threads
           /\ Leftovers(at, t) \subseteq Threads
  BY DEF Outcomes, Leftovers, Threads

(* Setting a thread, also that of a call that names no incident.           *)
LEMMA ThreadSet ==
    ASSUME thread \in [Incidents -> Threads], NEW i \in Id, NEW t \in Threads
    PROVE  [thread EXCEPT ![i] = t] \in [Incidents -> Threads]
  OBVIOUS

LEMMA AbandonedCalls ==
    ASSUME NEW fl \in Flow
    PROVE  Abandoned(fl) \subseteq [at : Calls, asks : Id]
  BY FlowFields DEF Abandoned
---------------------------------------------------------------------------
LEMMA TInvReload == ASSUME TInv, Reload PROVE TInv'
  <1> USE DEF Reload, Load
  <1>0. FlowsOK /\ RestOK
    BY TInvSplits
  <1> DEFINE f == CHOOSE f \in Flows : TRUE
             new == NewFlow("restore", "incident", stored)
  <1>1. new \in Flow /\ new # None /\ Collected(new) /\ new.op = "restore"
    BY <1>0, FlowBegins DEF RestOK, Operations
  <1>2. \A g \in Flows : flow'[g] \in {None, new}
    OBVIOUS
  <1>3. flow' \in [Flows -> Flow \cup {None}]
    BY <1>1
  <1>4. \A g \in Flows : flow'[g] # None => Collected(flow'[g]) /\ ~ Simulates(g)'
    BY <1>1, <1>2 DEF Simulates
  <1>5. FlowsOK'
    BY <1>3, <1>4 DEF FlowsOK, Simulates
  <1>6. late' \subseteq [at : Calls, asks : Id]
    <2>1. \A g \in Flows : flow[g] # None => Abandoned(flow[g]) \subseteq [at : Calls, asks : Id]
      BY <1>0, AbandonedCalls DEF FlowsOK
    <2> QED BY <1>0, <2>1 DEF RestOK
  <1>7. RestOK'
    <2>1. page' \in [1 .. 4 -> Id]
      BY DEF Blank, Id
    <2>2. buttons' \subseteq Buttons /\ incidentId' \in Id /\ stored' \in Id
      BY <1>0 DEF RestOK, Buttons
    <2>3. actions' \in 0 .. MaxActions
      BY <1>0, ConsoleAssumption DEF RestOK
    <2> QED BY <1>0, <1>6, <2>1, <2>2, <2>3 DEF RestOK
  <1> QED BY <1>5, <1>7, TInvSplitsNext

(* The clicks.                                                             *)
LEMMA TInvClicks ==
    ASSUME TInv, NEW f \in Flows,
           \/ \E auto \in BOOLEAN : Simulate(f, auto)
           \/ Resume(f) \/ \E i \in Incidents : LoadHistory(f, i)
    PROVE  TInv'
  <1>0. FlowsOK /\ RestOK
    BY TInvSplits
  <1>a. actions < MaxActions /\ actions' = actions + 1
    BY DEF Simulate, Resume, LoadHistory
  <1>b. actions' \in 0 .. MaxActions
    BY <1>0, <1>a, ConsoleAssumption DEF RestOK
  <1>1. ASSUME NEW auto \in BOOLEAN, Simulate(f, auto) PROVE TInv'
    <2>1. PICK new \in Flow : flow' = [flow EXCEPT ![f] = new] /\ new = Simulation(auto)
      <3>1. flow' = [flow EXCEPT ![f] = Simulation(auto)]
        BY <1>1 DEF Simulate, Simulation
      <3> QED BY <3>1, SimulationBegins
    <2>2. new # None /\ Collected(new) /\ new.op = "simulate"
      BY <2>1, SimulationBegins
    <2>3. flow[f] = None /\ "run" \in buttons /\ "run" \notin buttons'
      BY <1>1 DEF Simulate, Free
    <2>4. FlowsOK'
      BY <1>0, <2>1, <2>2, <2>3, FlowStarts
    <2>5. RestOK'
      BY <1>0, <1>1, <1>b DEF Simulate, RestOK
    <2> QED BY <2>4, <2>5, TInvSplitsNext
  <1>2. CASE Resume(f)
    <2>1. PICK new \in Flow : flow' = [flow EXCEPT ![f] = new] /\ new = Decision
      <3>1. flow' = [flow EXCEPT ![f] = Decision]
        BY <1>2 DEF Resume, Decision
      <3> QED BY <1>0, <3>1, DecisionBegins DEF RestOK
    <2>2. new # None /\ Collected(new) /\ new.op = "resume"
      BY <1>0, <2>1, DecisionBegins DEF RestOK
    <2>3. flow[f] = None /\ ("run" \in buttons' <=> "run" \in buttons)
      BY <1>2 DEF Resume, Free
    <2>4. FlowsOK'
      BY <1>0, <2>1, <2>2, <2>3, FlowStarts
    <2>5. RestOK'
      BY <1>0, <1>2, <1>b DEF Resume, RestOK
    <2> QED BY <2>4, <2>5, TInvSplitsNext
  <1>3. ASSUME NEW i \in Incidents, LoadHistory(f, i) PROVE TInv'
    <2>1. PICK new \in Flow :
              flow' = [flow EXCEPT ![f] = new] /\ new = NewFlow("load", "incident", i)
      <3>1. flow' = [flow EXCEPT ![f] = NewFlow("load", "incident", i)]
        BY <1>3 DEF LoadHistory
      <3>2. "load" \in Operations /\ i \in Id
        BY DEF Operations, Id
      <3> QED BY <3>1, <3>2, FlowBegins
    <2>2. new # None /\ Collected(new) /\ new.op = "load"
      <3>1. "load" \in Operations /\ i \in Id
        BY DEF Operations, Id
      <3> QED BY <2>1, <3>1, FlowBegins
    <2>3. flow[f] = None /\ buttons' = buttons
      BY <1>3 DEF LoadHistory, Free
    <2>4. FlowsOK'
      BY <1>0, <2>1, <2>2, <2>3, FlowStarts
    <2>5. RestOK'
      BY <1>0, <1>3, <1>b DEF LoadHistory, RestOK, Id, TornBy
    <2> QED BY <2>4, <2>5, TInvSplitsNext
  <1> QED BY <1>1, <1>2, <1>3

LEMMA TInvCreated == ASSUME TInv, NEW f \in Flows, Created(f) PROVE TInv'
  <1>0. FlowsOK /\ RestOK /\ flow[f] \in Flow /\ flow[f] # None
    BY TInvSplits DEF Created, FlowsOK
  <1>1. PICK i \in Incidents :
            /\ thread' = [thread EXCEPT ![i] = "unstarted"]
            /\ incidentId' = i /\ stored' = i
            /\ flow' = [flow EXCEPT ![f].at = "run", ![f].asks = i]
    BY DEF Created
  <1>2. PICK new : new = ToRun(flow[f], i)
    OBVIOUS
  <1>3. new \in Flow /\ new # None /\ new.op = flow[f].op /\ Collected(new)
    BY <1>0, <1>2, ToRunType DEF Id
  <1>4. flow' = [flow EXCEPT ![f] = new] /\ buttons' = buttons
    BY <1>0, <1>1, <1>2 DEF FlowsOK, ToRun, Created
  <1>5. FlowsOK'
    BY <1>0, <1>3, <1>4, FlowMoves
  <1>6. thread' \in [Incidents -> Threads]
    BY <1>0, <1>1, ThreadSet DEF RestOK, Threads, Id
  <1>7. RestOK'
    BY <1>0, <1>1, <1>6 DEF Created, RestOK, Id, TornBy
  <1> QED BY <1>5, <1>7, TInvSplitsNext

(* The buttons a rendering and a finally clause enable.                     *)
LEMMA ButtonsOnly ==
    ASSUME buttons \subseteq Buttons, NEW fl \in Flow, NEW w \in BOOLEAN
    PROVE  /\ ApprovalButton(w) \subseteq Buttons /\ Finally(fl) \subseteq Buttons
           /\ "run" \in ApprovalButton(w) <=> "run" \in buttons
           /\ "run" \in Finally(fl) <=> fl.op = "simulate"
  BY DEF ApprovalButton, Finally, Buttons

LEMMA TInvAnswered == ASSUME TInv, NEW f \in Flows, Answered(f) PROVE TInv'
  <1>0. FlowsOK /\ RestOK /\ flow[f] \in Flow /\ flow[f] # None /\ incidentId \in Id
    BY TInvSplits DEF Answered, FlowsOK, RestOK
  <1>1. PICK t \in Outcomes(flow[f].at, thread[flow[f].asks]) :
            thread' = [thread EXCEPT ![flow[f].asks] = t] /\ runResponse' = (t = "gate")
    BY DEF Answered
  <1>a. PICK new : new = Refreshing(flow[f])
    OBVIOUS
  <1>2. new \in Flow /\ new # None /\ new.op = flow[f].op /\ Collected(new)
    BY <1>0, <1>a, RefreshingType
  <1>3. /\ Finally(flow[f]) \subseteq Buttons
        /\ "run" \in Finally(flow[f]) <=> flow[f].op = "simulate"
    BY <1>0, ButtonsOnly DEF RestOK
  <1>4. /\ FlowsOK' /\ buttons' \subseteq Buttons
        /\ message' \in {"none", "fetch", "resume"}
    <2>1. CASE incidentId # None
      <3>1. flow' = [flow EXCEPT ![f] = new] /\ UNCHANGED <<buttons, message>>
        BY <1>a, <2>1 DEF Answered
      <3>2. FlowsOK'
        BY <1>0, <1>2, <3>1, FlowMoves
      <3> QED BY <1>0, <3>1, <3>2 DEF RestOK
    <2>2. CASE incidentId = None
      <3>1. /\ flow' = [flow EXCEPT ![f] = None]
            /\ buttons' = buttons \cup Finally(flow[f])
            /\ message' \in {message, "none"}
        BY <2>2 DEF Answered, Returns
      <3>2. "run" \in buttons' <=> "run" \in buttons \/ flow[f].op = "simulate"
        BY <1>3, <3>1
      <3>3. FlowsOK'
        BY <1>0, <3>1, <3>2, FlowEnds
      <3> QED BY <1>0, <1>3, <3>1, <3>3 DEF RestOK
    <2> QED BY <2>1, <2>2
  <1>5. thread' \in [Incidents -> Threads]
    <2>1. CASE flow[f].asks \in Incidents
      <3>1. t \in Threads
        BY <1>0, <2>1, OutcomesAreThreads DEF Answered, RestOK
      <3> QED BY <1>0, <1>1, <3>1 DEF RestOK
    <2>2. CASE flow[f].asks \notin Incidents
      BY <1>0, <1>1, <2>2 DEF RestOK
    <2> QED BY <2>1, <2>2
  <1>6. RestOK'
    BY <1>0, <1>1, <1>4, <1>5 DEF Answered, RestOK
  <1> QED BY <1>4, <1>6, TInvSplitsNext

LEMMA NextFetchType ==
    ASSUME TInv, NEW f \in Flows, flow[f] # None, NEW k \in 1 .. 3, flow[f].at = Bundle[k],
           NEW b \in BOOLEAN, NEW new, new = NextFetch(flow[f], k, b)
    PROVE  /\ new \in Flow /\ new # None /\ Collected(new)
           /\ new.op = flow[f].op /\ new.auto = flow[f].auto /\ new.deciding = flow[f].deciding
           /\ new.at = Bundle[k + 1] /\ new.asks = incidentId
           /\ new.parts = Append(flow[f].parts, flow[f].asks)
           /\ flow[f].parts \in [1 .. k - 1 -> Id]
  <1> DEFINE p == Append(flow[f].parts, flow[f].asks)
  <1>1. flow[f] \in Flow /\ Collected(flow[f]) /\ incidentId \in Id
    BY TInvSplits DEF FlowsOK, RestOK
  <1>2. flow[f].asks \in Id /\ k - 1 \in 0 .. 3 /\ k \in 1 .. 4 /\ k \in 0 .. 3
    BY <1>1, FlowFields
  <1>3. flow[f].parts \in [1 .. k - 1 -> Id]
    BY <1>1, <1>2 DEF Collected
  <1>4. p \in [1 .. (k - 1) + 1 -> Id]
    BY <1>2, <1>3, OneMore
  <1>5. p \in [1 .. k -> Id]
    BY <1>4
  <1>6. p \in Parts
    BY <1>2, <1>5, SomeParts
  <1>7. /\ Bundle[k + 1] \in {"incident", "events", "agent-runs", "report"}
        /\ \A j \in 1 .. 4 : Bundle[j] = Bundle[k + 1] => j = k + 1
    BY BundleIs
  <1>8. new = ToFetch(flow[f], Bundle[k + 1], p, b)
    BY DEF NextFetch, ToFetch
  <1>9. /\ new \in Flow /\ new # None
        /\ new.op = flow[f].op /\ new.auto = flow[f].auto /\ new.deciding = flow[f].deciding
        /\ new.at = Bundle[k + 1] /\ new.asks = incidentId /\ new.parts = p
    <2> HIDE DEF p
    <2> QED BY <1>1, <1>6, <1>7, <1>8, ToFetchType
  <1>10. Collected(new)
    BY <1>5, <1>7, <1>9 DEF Collected
  <1> QED BY <1>3, <1>9, <1>10

LEMMA TInvFetched == ASSUME TInv, NEW f \in Flows, Fetched(f) PROVE TInv'
  <1>0. FlowsOK /\ RestOK /\ flow[f] # None
    BY TInvSplits DEF Fetched
  <1>1. PICK k \in 1 .. 3, waits \in BOOLEAN :
            flow[f].at = Bundle[k] /\ flow' = [flow EXCEPT ![f] = NextFetch(@, k, waits)]
    <2>1. \A i : StatusWaits(i) \subseteq BOOLEAN
      BY DEF StatusWaits
    <2>2. flow[f].waits \in BOOLEAN
      BY <1>0, FlowFields DEF FlowsOK
    <2> QED BY <2>1, <2>2 DEF Fetched
  <1>a. PICK new : new = NextFetch(flow[f], k, waits)
    OBVIOUS
  <1>2. new \in Flow /\ new # None /\ new.op = flow[f].op /\ Collected(new)
    BY <1>0, <1>1, <1>a, NextFetchType
  <1>3. FlowsOK'
    <2>1. flow' = [flow EXCEPT ![f] = new] /\ buttons' = buttons
      BY <1>1, <1>a DEF Fetched
    <2> QED BY <1>0, <1>2, <2>1, FlowMoves
  <1>4. RestOK'
    BY <1>0 DEF Fetched, RestOK
  <1> QED BY <1>3, <1>4, TInvSplitsNext

(* The bundle is complete: the page is of what its four fetches asked.     *)
LEMMA BundleComplete ==
    ASSUME NEW fl \in Flow, Collected(fl), fl.at = "report"
    PROVE  /\ fl.parts \in [1 .. 3 -> Id] /\ fl.asks \in Id
           /\ Append(fl.parts, fl.asks) \in [1 .. 4 -> Id]
           /\ Append(fl.parts, fl.asks)[4] = fl.asks
           /\ \A j \in 1 .. 3 : Append(fl.parts, fl.asks)[j] = fl.parts[j]
  <1>1. fl.parts \in [1 .. 3 -> Id] /\ fl.asks \in Id
    <2>1. fl.parts \in [1 .. 4 - 1 -> Id]
      BY BundleIs DEF Collected
    <2> QED BY <2>1, FlowFields
  <1>2. 3 \in 0 .. 3
    OBVIOUS
  <1>3. /\ Append(fl.parts, fl.asks) \in [1 .. 3 + 1 -> Id]
        /\ Append(fl.parts, fl.asks)[3 + 1] = fl.asks
        /\ \A j \in 1 .. 3 : Append(fl.parts, fl.asks)[j] = fl.parts[j]
    BY <1>1, <1>2, OneMore
  <1> QED BY <1>1, <1>3

LEMMA TInvRendered == ASSUME TInv, NEW f \in Flows, Rendered(f) PROVE TInv'
  <1>0. FlowsOK /\ RestOK /\ flow[f] \in Flow /\ flow[f] # None /\ Collected(flow[f])
    BY TInvSplits DEF Rendered, FlowsOK
  <1> DEFINE shown == ApprovalButton(runResponse \/ flow[f].waits)
  <1>1. page' \in [1 .. 4 -> Id]
    BY <1>0, BundleComplete DEF Rendered
  <1>2. /\ shown \subseteq Buttons /\ Finally(flow[f]) \subseteq Buttons
        /\ "run" \in shown <=> "run" \in buttons
        /\ "run" \in Finally(flow[f]) <=> flow[f].op = "simulate"
    BY <1>0, ButtonsOnly, FlowFields DEF RestOK
  <1>3. CASE /\ flow' = [flow EXCEPT ![f] = [@ EXCEPT !.at = "resume", !.asks = incidentId,
                                                     !.deciding = TRUE]]
             /\ buttons' = shown \ {"decide"} /\ UNCHANGED message
    <2>1. PICK new : new = ToDecide(flow[f])
      OBVIOUS
    <2>2. new \in Flow /\ new # None /\ new.op = flow[f].op /\ Collected(new)
      BY <1>0, <2>1, ToDecideType DEF RestOK
    <2>3. flow' = [flow EXCEPT ![f] = new]
      BY <1>3, <2>1 DEF ToDecide
    <2>4. "run" \in buttons' <=> "run" \in buttons
      BY <1>2, <1>3
    <2>5. FlowsOK'
      BY <1>0, <2>2, <2>3, <2>4, FlowMoves
    <2>6. RestOK'
      BY <1>0, <1>1, <1>2, <1>3 DEF Rendered, RestOK
    <2> QED BY <2>5, <2>6, TInvSplitsNext
  <1>4. CASE /\ flow' = [flow EXCEPT ![f] = None]
             /\ buttons' = shown \cup Finally(flow[f])
             /\ message' \in {message, "none"}
    <2>1. "run" \in buttons' <=> "run" \in buttons \/ flow[f].op = "simulate"
      BY <1>2, <1>4
    <2>2. FlowsOK'
      BY <1>0, <1>4, <2>1, FlowEnds
    <2>3. RestOK'
      BY <1>0, <1>1, <1>2, <1>4 DEF Rendered, RestOK
    <2> QED BY <2>2, <2>3, TInvSplitsNext
  <1> QED BY <1>3, <1>4 DEF Rendered, Returns

(* The catch and finally clauses.                                          *)
LEMMA Failing ==
    ASSUME TInv, NEW f \in Flows, flow[f] # None, FailWith(f)
    PROVE  /\ FlowsOK' /\ buttons' \subseteq Buttons /\ message' \in {"none", "fetch", "resume"}
           /\ incidentId' \in Id /\ stored' \in Id
           /\ runResponse' \in BOOLEAN /\ page' \in [1 .. 4 -> Id]
  <1>0. FlowsOK /\ RestOK /\ flow[f] \in Flow
    BY TInvSplits DEF FlowsOK
  <1>1. /\ Finally(flow[f]) \subseteq Buttons
        /\ "run" \in Finally(flow[f]) <=> flow[f].op = "simulate"
    BY <1>0, ButtonsOnly DEF RestOK
  <1>2. FlowsOK'
    <2>1. "run" \in buttons' <=> "run" \in buttons \/ flow[f].op = "simulate"
      BY <1>1 DEF FailWith
    <2>2. flow' = [flow EXCEPT ![f] = None]
      BY DEF FailWith
    <2> QED BY <1>0, <2>1, <2>2, FlowEnds
  <1> QED BY <1>0, <1>1, <1>2 DEF FailWith, RestOK, Id

LEMMA TInvFailures ==
    ASSUME TInv, NEW f \in Flows, Fails(f) \/ FetchesNothing(f) \/ AnsweredTooEarly(f)
    PROVE  TInv'
  <1>0. FlowsOK /\ RestOK /\ flow[f] \in Flow /\ flow[f] # None /\ FailWith(f)
    BY TInvSplits DEF Fails, FetchesNothing, AnsweredTooEarly, FlowsOK
  <1>1. /\ FlowsOK' /\ buttons' \subseteq Buttons /\ message' \in {"none", "fetch", "resume"}
        /\ incidentId' \in Id /\ stored' \in Id
        /\ runResponse' \in BOOLEAN /\ page' \in [1 .. 4 -> Id]
    BY <1>0, Failing
  <1>2. thread' \in [Incidents -> Threads]
    <2>1. ASSUME NEW t \in Leftovers(flow[f].at, thread[flow[f].asks]),
                 thread' = [thread EXCEPT ![flow[f].asks] = t]
          PROVE  thread' \in [Incidents -> Threads]
      <3>1. CASE flow[f].asks \in Incidents
        <4>1. t \in Threads
          BY <1>0, <2>1, <3>1, OutcomesAreThreads DEF RestOK
        <4> QED BY <1>0, <2>1, <4>1 DEF RestOK
      <3>2. CASE flow[f].asks \notin Incidents
        BY <1>0, <2>1, <3>2 DEF RestOK
      <3> QED BY <3>1, <3>2
    <2>2. ASSUME thread' = [thread EXCEPT ![flow[f].asks] = "overruled"]
          PROVE  thread' \in [Incidents -> Threads]
      BY <1>0, <2>2, FlowFields, ThreadSet DEF RestOK, Threads
    <2> QED BY <1>0, <2>1, <2>2 DEF Fails, FetchesNothing, AnsweredTooEarly, RestOK
  <1>3. late' \subseteq [at : Calls, asks : Id]
    BY <1>0, AbandonedCalls DEF Fails, FetchesNothing, AnsweredTooEarly, RestOK
  <1>4. faults' \in 0 .. MaxFaults
    BY <1>0, ConsoleAssumption DEF Fails, FetchesNothing, AnsweredTooEarly, RestOK
  <1>5. RestOK'
    BY <1>0, <1>1, <1>2, <1>3, <1>4 DEF Fails, FetchesNothing, AnsweredTooEarly, RestOK, TornBy
  <1> QED BY <1>1, <1>5, TInvSplitsNext

LEMMA TInvLateCall == ASSUME TInv, NEW c \in late, LateCall(c) PROVE TInv'
  <1>0. FlowsOK /\ RestOK /\ c.at \in Calls /\ UNCHANGED <<pageVars, hurried, torn, actions, faults>>
    BY TInvSplits DEF LateCall, RestOK
  <1>1. thread' \in [Incidents -> Threads]
    <2>1. ASSUME NEW i \in Incidents, thread' = [thread EXCEPT ![i] = "unstarted"]
          PROVE  thread' \in [Incidents -> Threads]
      BY <1>0, <2>1 DEF RestOK, Threads
    <2>2. ASSUME c.at # "create", NEW t \in Outcomes(c.at, thread[c.asks]),
                 thread' = [thread EXCEPT ![c.asks] = t]
          PROVE  thread' \in [Incidents -> Threads]
      <3>1. CASE c.asks \in Incidents
        <4>1. t \in Threads
          BY <1>0, <2>2, <3>1, OutcomesAreThreads DEF RestOK, Calls
        <4> QED BY <1>0, <2>2, <4>1 DEF RestOK
      <3>2. CASE c.asks \notin Incidents
        BY <1>0, <2>2, <3>2 DEF RestOK
      <3> QED BY <3>1, <3>2
    <2> QED BY <2>1, <2>2 DEF LateCall
  <1>2. late' \subseteq [at : Calls, asks : Id]
    BY <1>0 DEF LateCall, RestOK
  <1>3. FlowsOK'
    BY <1>0, FlowStays DEF pageVars
  <1>4. RestOK'
    BY <1>0, <1>1, <1>2 DEF RestOK, pageVars
  <1> QED BY <1>3, <1>4, TInvSplitsNext

LEMMA StepTInv == ASSUME TInv, [Next]_vars PROVE TInv'
  <1>1. CASE Reload
    BY <1>1, TInvReload
  <1>2. ASSUME NEW f \in Flows,
               \/ \E auto \in BOOLEAN : Simulate(f, auto)
               \/ Resume(f) \/ \E i \in Incidents : LoadHistory(f, i)
        PROVE  TInv'
    BY <1>2, TInvClicks
  <1>3. ASSUME NEW f \in Flows, Step(f) \/ Fails(f) PROVE TInv'
    BY <1>3, TInvCreated, TInvAnswered, TInvFetched, TInvRendered, TInvFailures DEF Step
  <1>4. ASSUME NEW c \in late, LateCall(c) PROVE TInv'
    BY <1>4, TInvLateCall
  <1>5. CASE UNCHANGED vars
    <2>1. FlowsOK /\ RestOK
      BY TInvSplits
    <2>2. FlowsOK'
      BY <1>5, <2>1, FlowStays DEF vars, pageVars
    <2>3. RestOK'
      BY <1>5, <2>1 DEF vars, pageVars, RestOK
    <2> QED BY <2>2, <2>3, TInvSplitsNext
  <1> QED BY <1>1, <1>2, <1>3, <1>4, <1>5 DEF Next

(* Types; the run button is disabled exactly while a simulation runs, of   *)
(* which there is at most one (runSimulation and its finally clause).      *)
THEOREM ConsoleTypeCorrect == Spec => []TypeOK
  <1>1. TInv => TypeOK
    BY DEF TInv
  <1> QED BY InitTInv, StepTInv, <1>1, PTL DEF Spec
---------------------------------------------------------------------------
(* The page.  While nobody hurries a step concerns the only function there *)
(* is: it goes on, as it should, or it ends.                               *)
LEMMA OnlyFlow ==
    ASSUME FlowsOK, NEW f \in Flows, NEW new, flow' = [flow EXCEPT ![f] = new],
           \A g \in Flows \ {f} : flow[g] = None,
           IF new = None THEN incidentId' # None /\ message' # "fetch" => Shows(incidentId)'
           ELSE OnTrack(new)'
    PROVE  PageInv'
  <1>1. \A g \in Flows : flow'[g] = IF g = f THEN new ELSE None
    BY DEF FlowsOK
  <1>2. \A g, h \in Flows : flow'[g] # None /\ flow'[h] # None => g = h
    BY <1>1
  <1>3. \A g \in Flows : flow'[g] # None => OnTrack(flow[g])'
    BY <1>1 DEF OnTrack
  <1>4. Quiet' /\ incidentId' # None /\ message' # "fetch" => Shows(incidentId)'
    BY <1>1 DEF Quiet
  <1> QED BY <1>2, <1>3, <1>4 DEF PageInv, OnTrack

(* The function that takes a step is the only one.                         *)
LEMMA Alone ==
    ASSUME PageInv, ~ hurried, NEW f \in Flows, flow[f] # None
    PROVE  OnTrack(flow[f]) /\ \A g \in Flows \ {f} : flow[g] = None
  BY DEF PageInv

LEMMA PageReload == ASSUME TInv, Reload PROVE PageInv'
  <1> DEFINE f == CHOOSE f \in Flows : TRUE
  <1>0. FlowsOK /\ RestOK /\ f \in Flows
    BY TInvSplits, ConsoleAssumption
  <1>1. PICK new : new = NewFlow("restore", "incident", stored)
    OBVIOUS
  <1>2. /\ new # None /\ new.at = "incident" /\ new.asks = stored /\ ~ new.deciding
    <2>1. "restore" \in Operations /\ stored \in Id
      BY <1>0 DEF Operations, RestOK
    <2> QED BY <1>1, <2>1, FlowBegins
  <1>3. \A g \in Flows : flow'[g] = IF g = f /\ stored # None THEN new ELSE None
    BY <1>1 DEF Reload, Load
  <1>4. incidentId' = stored
    BY DEF Reload, Load
  <1>5. stored # None => OnTrack(new)'
    BY <1>2, <1>4, BundleIs DEF OnTrack
  <1>6. Quiet' => stored = None
    BY <1>0, <1>2, <1>3 DEF Quiet
  <1> HIDE DEF f
  <1> QED BY <1>3, <1>4, <1>5, <1>6 DEF PageInv

LEMMA PageClicks ==
    ASSUME TInv, PageInv, NEW f \in Flows,
           \/ \E auto \in BOOLEAN : Simulate(f, auto)
           \/ Resume(f) \/ \E i \in Incidents : LoadHistory(f, i)
    PROVE  PageInv'
  <1>0. FlowsOK /\ RestOK
    BY TInvSplits
  <1> SUFFICES ASSUME ~ hurried' PROVE PageInv'
    BY DEF PageInv
  <1>1. \A g \in Flows \ {f} : flow[g] = None
    BY DEF Simulate, Resume, LoadHistory, Quiet
  <1>2. ASSUME NEW auto \in BOOLEAN, Simulate(f, auto) PROVE PageInv'
    <2>1. PICK new : new = Simulation(auto)
      OBVIOUS
    <2>2. new # None /\ new.at = "create" /\ ~ new.deciding
      BY <2>1, SimulationBegins
    <2>3. flow' = [flow EXCEPT ![f] = new]
      BY <1>2, <2>1 DEF Simulate, Simulation
    <2>4. OnTrack(new)'
      BY <2>2, BundleIs DEF OnTrack
    <2> QED BY <1>0, <1>1, <2>2, <2>3, <2>4, OnlyFlow
  <1>3. CASE Resume(f)
    <2>1. PICK new : new = Decision
      OBVIOUS
    <2>2. new # None /\ new.at = "resume" /\ new.asks = incidentId /\ new.deciding
      BY <1>0, <2>1, DecisionBegins DEF RestOK
    <2>3. flow' = [flow EXCEPT ![f] = new]
      BY <1>3, <2>1 DEF Resume, Decision
    <2>4. Shows(incidentId) /\ incidentId # None /\ UNCHANGED <<incidentId, page>>
      BY <1>3 DEF Resume, PageInv
    <2>5. OnTrack(new)'
      BY <2>2, <2>4, BundleIs DEF OnTrack, Shows
    <2> QED BY <1>0, <1>1, <2>2, <2>3, <2>5, OnlyFlow
  <1>4. ASSUME NEW i \in Incidents, LoadHistory(f, i) PROVE PageInv'
    <2>1. PICK new : new = NewFlow("load", "incident", i)
      OBVIOUS
    <2>2. new # None /\ new.at = "incident" /\ new.asks = i /\ ~ new.deciding
      <3>1. "load" \in Operations /\ i \in Id
        BY DEF Operations, Id
      <3> QED BY <2>1, <3>1, FlowBegins
    <2>3. flow' = [flow EXCEPT ![f] = new] /\ incidentId' = i
      BY <1>4, <2>1 DEF LoadHistory
    <2>4. OnTrack(new)'
      BY <2>2, <2>3, BundleIs, ConsoleAssumption DEF OnTrack
    <2> QED BY <1>0, <1>1, <2>2, <2>3, <2>4, OnlyFlow
  <1> QED BY <1>2, <1>3, <1>4

LEMMA PageCreated == ASSUME TInv, PageInv, ~ hurried, NEW f \in Flows, Created(f) PROVE PageInv'
  <1>0. FlowsOK /\ RestOK /\ flow[f] \in Flow /\ flow[f] # None
    BY TInvSplits DEF Created, FlowsOK
  <1>1. ~ flow[f].deciding /\ \A g \in Flows \ {f} : flow[g] = None
    BY <1>0, Alone DEF Created, OnTrack
  <1>2. PICK i \in Incidents :
            incidentId' = i /\ flow' = [flow EXCEPT ![f].at = "run", ![f].asks = i]
    BY DEF Created
  <1>3. PICK new : new = ToRun(flow[f], i)
    OBVIOUS
  <1>4. /\ new # None /\ new.deciding = flow[f].deciding
        /\ new.at = "run" /\ new.asks = i
    <2>1. i \in Id
      BY DEF Id
    <2> QED BY <1>0, <1>3, <2>1, ToRunType
  <1>5. flow' = [flow EXCEPT ![f] = new]
    BY <1>0, <1>2, <1>3 DEF FlowsOK, ToRun
  <1>6. OnTrack(new)'
    BY <1>1, <1>2, <1>4, BundleIs, ConsoleAssumption DEF OnTrack
  <1> QED BY <1>0, <1>1, <1>4, <1>5, <1>6, OnlyFlow

LEMMA PageAnswered == ASSUME TInv, PageInv, ~ hurried, NEW f \in Flows, Answered(f) PROVE PageInv'
  <1>0. FlowsOK /\ RestOK /\ flow[f] \in Flow /\ flow[f] # None
    BY TInvSplits DEF Answered, FlowsOK
  <1>1. OnTrack(flow[f]) /\ \A g \in Flows \ {f} : flow[g] = None
    BY <1>0, Alone
  <1>2. PICK new : new = Refreshing(flow[f])
    OBVIOUS
  <1>3. /\ new # None /\ new.deciding = flow[f].deciding
        /\ new.at = "incident" /\ new.asks = incidentId
    BY <1>0, <1>2, RefreshingType DEF RestOK
  <1>4. incidentId # None
    BY <1>1 DEF Answered, OnTrack
  <1>5. flow' = [flow EXCEPT ![f] = new] /\ UNCHANGED <<incidentId, page>>
    BY <1>2, <1>4 DEF Answered
  <1>6. OnTrack(new)'
    BY <1>1, <1>3, <1>4, <1>5, BundleIs DEF OnTrack, Shows, Answered
  <1> QED BY <1>0, <1>1, <1>3, <1>5, <1>6, OnlyFlow

LEMMA PageFetched == ASSUME TInv, PageInv, ~ hurried, NEW f \in Flows, Fetched(f) PROVE PageInv'
  <1>0. FlowsOK /\ RestOK /\ flow[f] \in Flow /\ flow[f] # None
    BY TInvSplits DEF Fetched, FlowsOK
  <1>1. OnTrack(flow[f]) /\ \A g \in Flows \ {f} : flow[g] = None
    BY <1>0, Alone
  <1>2. PICK k \in 1 .. 3, waits \in BOOLEAN :
            flow[f].at = Bundle[k] /\ flow' = [flow EXCEPT ![f] = NextFetch(@, k, waits)]
    <2>1. \A i : StatusWaits(i) \subseteq BOOLEAN
      BY DEF StatusWaits
    <2> QED BY <1>0, <2>1, FlowFields DEF Fetched
  <1>3. PICK new : new = NextFetch(flow[f], k, waits)
    OBVIOUS
  <1>4. /\ new # None /\ new.deciding = flow[f].deciding
        /\ new.at = Bundle[k + 1] /\ new.asks = incidentId
        /\ new.parts = Append(flow[f].parts, flow[f].asks)
        /\ flow[f].parts \in [1 .. k - 1 -> Id]
    <2>1. flow[f].at = Bundle[k]
      BY <1>2
    <2>2. new # None /\ new.deciding = flow[f].deciding
      BY <1>0, <1>3, <2>1, NextFetchType
    <2>3. new.at = Bundle[k + 1] /\ new.asks = incidentId
      BY <1>0, <1>3, <2>1, NextFetchType
    <2>4. flow[f].parts \in [1 .. k - 1 -> Id]
      BY <1>0, <1>3, <2>1, NextFetchType
    <2>5. new.parts = Append(flow[f].parts, flow[f].asks)
      BY <1>0, <1>3, <2>1, NextFetchType
    <2> QED BY <2>2, <2>3, <2>4, <2>5
  <1>5. flow' = [flow EXCEPT ![f] = new] /\ UNCHANGED <<incidentId, page>>
    BY <1>2, <1>3 DEF Fetched
  <1>6. flow[f].asks = incidentId /\ incidentId # None /\ flow[f].asks \in Id
    BY <1>0, <1>1, <1>2, BundleIs, FlowFields DEF OnTrack
  <1>7. \A j \in 1 .. k : new.parts[j] = incidentId
    <2>1. k - 1 \in 0 .. 3
      OBVIOUS
    <2>2. /\ new.parts[(k - 1) + 1] = flow[f].asks
          /\ \A j \in 1 .. k - 1 : new.parts[j] = flow[f].parts[j]
      BY <1>4, <1>6, <2>1, OneMore
    <2>3. \A j \in 1 .. k - 1 : flow[f].parts[j] = incidentId
      BY <1>1, <1>2 DEF OnTrack
    <2> QED BY <1>6, <2>2, <2>3
  <1>8. new.at \in {"events", "agent-runs", "report"} /\ \A j \in 1 .. 4 : new.at = Bundle[j] => j = k + 1
    BY <1>4, BundleIs
  <1>9. OnTrack(new)'
    <2>1. \A j \in 1 .. 4 : new.at = Bundle[j] => \A l \in 1 .. j - 1 : new.parts[l] = incidentId'
      BY <1>5, <1>7, <1>8
    <2>2. new.deciding => Shows(incidentId)'
      BY <1>1, <1>4, <1>5 DEF OnTrack, Shows
    <2> QED BY <1>4, <1>5, <1>6, <1>8, <2>1, <2>2 DEF OnTrack
  <1> QED BY <1>0, <1>1, <1>4, <1>5, <1>9, OnlyFlow

LEMMA PageRendered == ASSUME TInv, PageInv, ~ hurried, NEW f \in Flows, Rendered(f) PROVE PageInv'
  <1>0. FlowsOK /\ RestOK /\ flow[f] \in Flow /\ flow[f] # None /\ Collected(flow[f])
    BY TInvSplits DEF Rendered, FlowsOK
  <1>1. OnTrack(flow[f]) /\ \A g \in Flows \ {f} : flow[g] = None
    BY <1>0, Alone
  <1>2. /\ flow[f].asks = incidentId /\ incidentId # None
        /\ \A j \in 1 .. 3 : flow[f].parts[j] = incidentId
    BY <1>1, BundleIs DEF OnTrack, Rendered
  <1>3. Shows(incidentId)' /\ incidentId' = incidentId
    <2>1. /\ page' \in [1 .. 4 -> Id] /\ page'[4] = incidentId
          /\ \A j \in 1 .. 3 : page'[j] = incidentId
      BY <1>0, <1>2, BundleComplete DEF Rendered
    <2>2. \A j \in 1 .. 4 : page'[j] = incidentId
      BY <2>1
    <2> QED BY <2>1, <2>2 DEF Shows, Rendered
  <1>4. CASE flow' = [flow EXCEPT ![f] = [@ EXCEPT !.at = "resume", !.asks = incidentId,
                                                   !.deciding = TRUE]]
    <2>1. PICK new : new = ToDecide(flow[f])
      OBVIOUS
    <2>2. new # None /\ new.at = "resume" /\ new.asks = incidentId /\ new.deciding
      BY <1>0, <2>1, ToDecideType DEF RestOK
    <2>3. flow' = [flow EXCEPT ![f] = new]
      BY <1>4, <2>1 DEF ToDecide
    <2>4. OnTrack(new)'
      BY <1>2, <1>3, <2>2, BundleIs DEF OnTrack
    <2> QED BY <1>0, <1>1, <2>2, <2>3, <2>4, OnlyFlow
  <1>5. CASE flow' = [flow EXCEPT ![f] = None]
    BY <1>0, <1>1, <1>3, <1>5, OnlyFlow
  <1> QED BY <1>4, <1>5 DEF Rendered, Returns

LEMMA PageFails ==
    ASSUME TInv, PageInv, ~ hurried, NEW f \in Flows,
           Fails(f) \/ FetchesNothing(f) \/ AnsweredTooEarly(f)
    PROVE  PageInv'
  <1>0. FlowsOK /\ flow[f] # None /\ FailWith(f)
    BY TInvSplits DEF Fails, FetchesNothing, AnsweredTooEarly
  <1>1. OnTrack(flow[f]) /\ \A g \in Flows \ {f} : flow[g] = None
    BY <1>0, Alone
  <1>2. incidentId' # None /\ message' # "fetch" => Shows(incidentId)'
    BY <1>0, <1>1 DEF FailWith, OnTrack, Shows
  <1>3. flow' = [flow EXCEPT ![f] = None]
    BY <1>0 DEF FailWith
  <1> QED BY <1>0, <1>1, <1>2, <1>3, OnlyFlow

LEMMA StepPage == ASSUME TInv, PageInv, [Next]_vars PROVE PageInv'
  <1>1. CASE Reload
    BY <1>1, PageReload
  <1>2. ASSUME NEW f \in Flows,
               \/ \E auto \in BOOLEAN : Simulate(f, auto)
               \/ Resume(f) \/ \E i \in Incidents : LoadHistory(f, i)
        PROVE  PageInv'
    BY <1>2, PageClicks
  <1>3. ASSUME NEW f \in Flows, Step(f) \/ Fails(f) PROVE PageInv'
    <2>1. hurried' = hurried
      BY <1>3 DEF Step, Fails, Created, Answered, AnsweredTooEarly, Fetched, Rendered,
                   FetchesNothing
    <2>2. CASE hurried
      BY <2>1, <2>2 DEF PageInv
    <2>3. CASE ~ hurried
      BY <1>3, <2>3, PageCreated, PageAnswered, PageFetched, PageRendered, PageFails DEF Step
    <2> QED BY <2>2, <2>3
  <1>4. ASSUME UNCHANGED <<pageVars, hurried>> PROVE PageInv'
    BY <1>4 DEF pageVars, PageInv, OnTrack, Quiet, Shows
  <1>5. ASSUME NEW c \in late, LateCall(c) PROVE PageInv'
    BY <1>4, <1>5 DEF LateCall
  <1>6. CASE UNCHANGED vars
    BY <1>4, <1>6 DEF vars
  <1> QED BY <1>1, <1>2, <1>3, <1>5, <1>6 DEF Next

LEMMA InitPage == Init => PageInv
  BY DEF Init, PageInv, Quiet
---------------------------------------------------------------------------
(* Functions that run into each other.  A bundle that is not torn is of    *)
(* state.incidentId throughout, and so is the page it becomes.             *)
Follows(fl) ==
    \A k \in 1 .. 4 : fl.at = Bundle[k] =>
        fl.asks = incidentId /\ \A j \in 1 .. k - 1 : fl.parts[j] = incidentId

PageShows == incidentId # None /\ message = "none" /\ "page" \notin torn => Shows(incidentId)

TornInv ==
    /\ \A f \in Flows : flow[f] # None /\ f \notin torn => Follows(flow[f])
    /\ Quiet => PageShows

(* Whatever one function does, the others are torn or have seen no change. *)
LEMMA OthersFollow ==
    ASSUME FlowsOK, TornInv, NEW f \in Flows, NEW new, flow' = [flow EXCEPT ![f] = new],
           \A g \in Flows \ {f} : g \in TornBy(incidentId') => g \in torn',
           new # None /\ f \notin torn' => Follows(new)',
           new = None => PageShows'
    PROVE  TornInv'
  <1>1. \A g \in Flows : flow'[g] = IF g = f THEN new ELSE flow[g]
    BY DEF FlowsOK
  <1>2. ASSUME NEW g \in Flows \ {f}, flow[g] # None, g \notin torn'
        PROVE  Follows(flow[g])'
    <2>1. flow'[g] = flow[g] /\ g \notin torn
      BY <1>1, <1>2 DEF TornBy
    <2>2. CASE incidentId' = incidentId
      BY <1>2, <2>1, <2>2 DEF TornInv, Follows
    <2>3. CASE incidentId' # incidentId
      BY <1>2, <2>1, <2>3 DEF TornBy, Fetching, Follows
    <2> QED BY <2>2, <2>3
  <1>3. \A g \in Flows : flow'[g] # None /\ g \notin torn' => Follows(flow[g])'
    BY <1>1, <1>2 DEF Follows
  <1>4. Quiet' => new = None
    BY <1>1 DEF Quiet
  <1> QED BY <1>3, <1>4 DEF TornInv, Follows, PageShows

LEMMA SameId == TornBy(incidentId) = torn
  BY DEF TornBy

LEMMA TornReload == ASSUME TInv, Reload PROVE TornInv'
  <1> DEFINE f == CHOOSE f \in Flows : TRUE
  <1>0. FlowsOK /\ RestOK /\ f \in Flows
    BY TInvSplits, ConsoleAssumption
  <1>1. PICK new : new = NewFlow("restore", "incident", stored)
    OBVIOUS
  <1>2. new # None /\ new.at = "incident" /\ new.asks = stored
    <2>1. "restore" \in Operations /\ stored \in Id
      BY <1>0 DEF Operations, RestOK
    <2> QED BY <1>1, <2>1, FlowBegins
  <1>3. \A g \in Flows : flow'[g] = IF g = f /\ stored # None THEN new ELSE None
    BY <1>1 DEF Reload, Load
  <1>4. incidentId' = stored
    BY DEF Reload, Load
  <1>5. Follows(new)'
    BY <1>2, <1>4, BundleIs DEF Follows
  <1>6. Quiet' => stored = None
    BY <1>0, <1>2, <1>3 DEF Quiet
  <1> HIDE DEF f
  <1> QED BY <1>3, <1>4, <1>5, <1>6 DEF TornInv, Follows, PageShows

LEMMA TornClicks ==
    ASSUME TInv, TornInv, NEW f \in Flows,
           \/ \E auto \in BOOLEAN : Simulate(f, auto)
           \/ Resume(f) \/ \E i \in Incidents : LoadHistory(f, i)
    PROVE  TornInv'
  <1>0. FlowsOK /\ RestOK
    BY TInvSplits
  <1>1. ASSUME NEW auto \in BOOLEAN, Simulate(f, auto) PROVE TornInv'
    <2>1. PICK new : new = Simulation(auto)
      OBVIOUS
    <2>2. new # None /\ new.at = "create"
      BY <2>1, SimulationBegins
    <2>3. flow' = [flow EXCEPT ![f] = new] /\ UNCHANGED <<incidentId, torn>>
      BY <1>1, <2>1 DEF Simulate, Simulation
    <2>4. Follows(new)'
      BY <2>2, BundleIs DEF Follows
    <2> QED BY <1>0, <2>2, <2>3, <2>4, SameId, OthersFollow
  <1>2. CASE Resume(f)
    <2>1. PICK new : new = Decision
      OBVIOUS
    <2>2. new # None /\ new.at = "resume"
      BY <1>0, <2>1, DecisionBegins DEF RestOK
    <2>3. flow' = [flow EXCEPT ![f] = new] /\ UNCHANGED <<incidentId, torn>>
      BY <1>2, <2>1 DEF Resume, Decision
    <2>4. Follows(new)'
      BY <2>2, BundleIs DEF Follows
    <2> QED BY <1>0, <2>2, <2>3, <2>4, SameId, OthersFollow
  <1>3. ASSUME NEW i \in Incidents, LoadHistory(f, i) PROVE TornInv'
    <2>1. PICK new : new = NewFlow("load", "incident", i)
      OBVIOUS
    <2>2. new # None /\ new.at = "incident" /\ new.asks = i
      <3>1. "load" \in Operations /\ i \in Id
        BY DEF Operations, Id
      <3> QED BY <2>1, <3>1, FlowBegins
    <2>3. flow' = [flow EXCEPT ![f] = new] /\ incidentId' = i /\ torn' = TornBy(incidentId')
      BY <1>3, <2>1 DEF LoadHistory
    <2>4. Follows(new)'
      BY <2>2, <2>3, BundleIs DEF Follows
    <2> QED BY <1>0, <2>2, <2>3, <2>4, OthersFollow
  <1> QED BY <1>1, <1>2, <1>3

LEMMA TornCreated == ASSUME TInv, TornInv, NEW f \in Flows, Created(f) PROVE TornInv'
  <1>0. FlowsOK /\ flow[f] \in Flow /\ flow[f] # None
    BY TInvSplits DEF Created, FlowsOK
  <1>1. PICK i \in Incidents :
            /\ incidentId' = i /\ torn' = TornBy(incidentId')
            /\ flow' = [flow EXCEPT ![f].at = "run", ![f].asks = i]
    BY DEF Created
  <1>2. PICK new : new = ToRun(flow[f], i)
    OBVIOUS
  <1>3. new # None /\ new.at = "run"
    <2>1. i \in Id
      BY DEF Id
    <2> QED BY <1>0, <1>2, <2>1, ToRunType
  <1>4. flow' = [flow EXCEPT ![f] = new]
    BY <1>0, <1>1, <1>2 DEF FlowsOK, ToRun
  <1>5. Follows(new)'
    BY <1>3, BundleIs DEF Follows
  <1> QED BY <1>0, <1>1, <1>3, <1>4, <1>5, OthersFollow

LEMMA TornAnswered == ASSUME TInv, TornInv, NEW f \in Flows, Answered(f) PROVE TornInv'
  <1>0. FlowsOK /\ RestOK /\ flow[f] \in Flow
    BY TInvSplits DEF Answered, FlowsOK
  <1>1. UNCHANGED <<incidentId, torn>>
    BY DEF Answered
  <1>2. CASE incidentId # None
    <2>1. PICK new : new = Refreshing(flow[f])
      OBVIOUS
    <2>2. new # None /\ new.at = "incident" /\ new.asks = incidentId
      BY <1>0, <2>1, RefreshingType DEF RestOK
    <2>3. flow' = [flow EXCEPT ![f] = new]
      BY <1>2, <2>1 DEF Answered
    <2>4. Follows(new)'
      BY <1>1, <2>2, BundleIs DEF Follows
    <2> QED BY <1>0, <1>1, <2>2, <2>3, <2>4, SameId, OthersFollow
  <1>3. CASE incidentId = None
    <2>1. flow' = [flow EXCEPT ![f] = None]
      BY <1>3 DEF Answered, Returns
    <2>2. PageShows'
      BY <1>1, <1>3 DEF PageShows
    <2> QED BY <1>0, <1>1, <2>1, <2>2, SameId, OthersFollow
  <1> QED BY <1>2, <1>3

LEMMA TornFetched == ASSUME TInv, TornInv, NEW f \in Flows, Fetched(f) PROVE TornInv'
  <1>0. FlowsOK /\ RestOK /\ flow[f] \in Flow /\ flow[f] # None
    BY TInvSplits DEF Fetched, FlowsOK
  <1>1. PICK k \in 1 .. 3, waits \in BOOLEAN :
            flow[f].at = Bundle[k] /\ flow' = [flow EXCEPT ![f] = NextFetch(@, k, waits)]
    <2>1. \A i : StatusWaits(i) \subseteq BOOLEAN
      BY DEF StatusWaits
    <2> QED BY <1>0, <2>1, FlowFields DEF Fetched
  <1>2. PICK new : new = NextFetch(flow[f], k, waits)
    OBVIOUS
  <1>3. /\ new # None /\ new.at = Bundle[k + 1] /\ new.asks = incidentId
        /\ new.parts = Append(flow[f].parts, flow[f].asks)
        /\ flow[f].parts \in [1 .. k - 1 -> Id]
    <2>1. flow[f].at = Bundle[k]
      BY <1>1
    <2>2. new # None /\ new.at = Bundle[k + 1]
      BY <1>0, <1>2, <2>1, NextFetchType
    <2>3. new.asks = incidentId
      BY <1>0, <1>2, <2>1, NextFetchType
    <2>4. new.parts = Append(flow[f].parts, flow[f].asks)
      BY <1>0, <1>2, <2>1, NextFetchType
    <2>5. flow[f].parts \in [1 .. k - 1 -> Id]
      BY <1>0, <1>2, <2>1, NextFetchType
    <2> QED BY <2>2, <2>3, <2>4, <2>5
  <1>4. flow' = [flow EXCEPT ![f] = new] /\ UNCHANGED <<incidentId, torn>>
    BY <1>1, <1>2 DEF Fetched
  <1>5. ASSUME f \notin torn PROVE Follows(new)'
    <2>1. flow[f].asks = incidentId /\ \A j \in 1 .. k - 1 : flow[f].parts[j] = incidentId
      BY <1>0, <1>1, <1>5 DEF TornInv, Follows
    <2>2. k - 1 \in 0 .. 3 /\ flow[f].asks \in Id
      BY <1>0, FlowFields
    <2>3. /\ new.parts[(k - 1) + 1] = flow[f].asks
          /\ \A j \in 1 .. k - 1 : new.parts[j] = flow[f].parts[j]
      BY <1>3, <2>2, OneMore
    <2>4. \A j \in 1 .. k : new.parts[j] = incidentId
      BY <2>1, <2>3
    <2>5. \A j \in 1 .. 4 : new.at = Bundle[j] => j = k + 1
      <3>1. \A j \in 1 .. 4 : Bundle[j] = Bundle[k + 1] => j = k + 1
        BY BundleIs
      <3> QED BY <1>3, <3>1
    <2>6. \A j \in 1 .. 4 : new.at = Bundle[j] => \A l \in 1 .. j - 1 : new.parts[l] = incidentId'
      BY <1>4, <2>4, <2>5
    <2> QED BY <1>3, <1>4, <2>6 DEF Follows
  <1> QED BY <1>0, <1>3, <1>4, <1>5, SameId, OthersFollow

(* A bundle that is not torn becomes a page of one incident.               *)
LEMMA RendersOne ==
    ASSUME TInv, TornInv, NEW f \in Flows, Rendered(f), "page" \notin torn'
    PROVE  Shows(incidentId)' /\ UNCHANGED incidentId
  <1>0. FlowsOK /\ flow[f] \in Flow /\ flow[f] # None /\ Collected(flow[f])
    BY TInvSplits DEF Rendered, FlowsOK
  <1>1. f \notin torn
    BY DEF Rendered
  <1>2. flow[f].asks = incidentId /\ \A j \in 1 .. 3 : flow[f].parts[j] = incidentId
    BY <1>0, <1>1, BundleIs DEF TornInv, Follows, Rendered
  <1>3. /\ page' \in [1 .. 4 -> Id] /\ page'[4] = incidentId
        /\ \A j \in 1 .. 3 : page'[j] = incidentId
    BY <1>0, <1>2, BundleComplete DEF Rendered
  <1>4. \A j \in 1 .. 4 : page'[j] = incidentId
    BY <1>3
  <1> QED BY <1>3, <1>4 DEF Shows, Rendered

LEMMA TornRendered == ASSUME TInv, TornInv, NEW f \in Flows, Rendered(f) PROVE TornInv'
  <1>0. FlowsOK /\ RestOK /\ flow[f] \in Flow /\ flow[f] # None
    BY TInvSplits DEF Rendered, FlowsOK
  <1>1. incidentId' = incidentId /\ TornBy(incidentId') = torn
    BY SameId DEF Rendered
  <1>2. \A g \in Flows \ {f} : g \in torn => g \in torn'
    BY ConsoleAssumption DEF Rendered
  <1>3. CASE flow' = [flow EXCEPT ![f] = [@ EXCEPT !.at = "resume", !.asks = incidentId,
                                                   !.deciding = TRUE]]
    <2>1. PICK new : new = ToDecide(flow[f])
      OBVIOUS
    <2>2. new # None /\ new.at = "resume"
      BY <1>0, <2>1, ToDecideType DEF RestOK
    <2>3. flow' = [flow EXCEPT ![f] = new]
      BY <1>3, <2>1 DEF ToDecide
    <2>4. Follows(new)'
      BY <2>2, BundleIs DEF Follows
    <2> QED BY <1>0, <1>1, <1>2, <2>2, <2>3, <2>4, OthersFollow
  <1>4. CASE flow' = [flow EXCEPT ![f] = None]
    <2>1. PageShows'
      BY RendersOne DEF PageShows
    <2> QED BY <1>0, <1>1, <1>2, <1>4, <2>1, OthersFollow
  <1> QED BY <1>3, <1>4 DEF Rendered, Returns

LEMMA TornFails ==
    ASSUME TInv, TornInv, NEW f \in Flows, Fails(f) \/ FetchesNothing(f) \/ AnsweredTooEarly(f)
    PROVE  TornInv'
  <1>0. FlowsOK /\ FailWith(f) /\ torn' = TornBy(incidentId') \ {f}
    BY TInvSplits DEF Fails, FetchesNothing, AnsweredTooEarly
  <1>1. flow' = [flow EXCEPT ![f] = None]
    BY <1>0 DEF FailWith
  <1>2. PageShows'
    BY <1>0 DEF FailWith, PageShows
  <1> QED BY <1>0, <1>1, <1>2, OthersFollow

LEMMA StepTorn == ASSUME TInv, TornInv, [Next]_vars PROVE TornInv'
  <1>1. CASE Reload
    BY <1>1, TornReload
  <1>2. ASSUME NEW f \in Flows,
               \/ \E auto \in BOOLEAN : Simulate(f, auto)
               \/ Resume(f) \/ \E i \in Incidents : LoadHistory(f, i)
        PROVE  TornInv'
    BY <1>2, TornClicks
  <1>3. ASSUME NEW f \in Flows, Step(f) \/ Fails(f) PROVE TornInv'
    BY <1>3, TornCreated, TornAnswered, TornFetched, TornRendered, TornFails DEF Step
  <1>4. ASSUME UNCHANGED <<pageVars, torn>> PROVE TornInv'
    BY <1>4 DEF pageVars, TornInv, Follows, Quiet, PageShows, Shows
  <1>5. ASSUME NEW c \in late, LateCall(c) PROVE TornInv'
    BY <1>4, <1>5 DEF LateCall
  <1>6. CASE UNCHANGED vars
    BY <1>4, <1>6 DEF vars
  <1> QED BY <1>1, <1>2, <1>3, <1>5, <1>6 DEF Next

LEMMA InitTorn == Init => TornInv
  BY DEF Init, TornInv, PageShows

LEMMA PageAlways == Spec => [](TInv /\ PageInv /\ TornInv)
  BY InitTInv, InitPage, InitTorn, StepTInv, StepPage, StepTorn, PTL DEF Spec

(* At rest the page is of one incident, the one its buttons decide about,  *)
(* for any number of incidents, of functions that run into each other,     *)
(* clicks and faults, unless the id changed during the fetches of the last *)
(* page shown (refreshIncidentBundle and the catch clauses, app.js).       *)
THEOREM PageIsAlwaysOneIncident == Spec => []PageIsOneIncident
  <1>1. PageInv /\ TornInv => PageIsOneIncident
    BY DEF PageInv, TornInv, PageShows, PageIsOneIncident
  <1> QED BY PageAlways, <1>1, PTL

(* The only function in flight that comes to decide has just rendered its  *)
(* page.                                                                   *)
LEMMA OnlyRenderedDecides ==
    ASSUME TInv, [Next]_vars, NEW f \in Flows, Decides(f), flow[f] # None
    PROVE  Rendered(f) /\ flow'[f].asks = incidentId
  <1>0. FlowsOK /\ RestOK /\ flow[f] \in Flow
    BY TInvSplits DEF FlowsOK
  <1>1. flow'[f] # None /\ flow'[f].at = "resume" /\ flow[f].at # "resume" /\ flow'[f] # flow[f]
    BY DEF Decides
  <1>2. ASSUME NEW g \in Flows, NEW new, flow' = [flow EXCEPT ![g] = new]
        PROVE  g = f /\ flow'[f] = new
    BY <1>0, <1>1, <1>2 DEF FlowsOK
  <1>3. ~ Reload
    <2>1. stored \in Id /\ "restore" \in Operations
      BY <1>0 DEF RestOK, Operations
    <2>2. NewFlow("restore", "incident", stored).at = "incident"
      BY <2>1, FlowBegins
    <2> QED BY <1>1, <2>2 DEF Reload, Load
  <1>4. \A g \in Flows : ~ (\/ \E auto \in BOOLEAN : Simulate(g, auto)
                            \/ Resume(g) \/ \E i \in Incidents : LoadHistory(g, i))
    <2> SUFFICES ASSUME NEW g \in Flows,
                        \/ \E auto \in BOOLEAN : Simulate(g, auto)
                        \/ Resume(g) \/ \E i \in Incidents : LoadHistory(g, i)
                 PROVE  FALSE
      OBVIOUS
    <2>1. flow[g] = None /\ \E new : flow' = [flow EXCEPT ![g] = new]
      BY DEF Simulate, Resume, LoadHistory, Free
    <2> QED BY <1>2, <2>1
  <1>5. \A c \in late : ~ LateCall(c)
    BY <1>1 DEF LateCall, pageVars
  <1>6. flow' # flow
    BY <1>1
  <1>7. PICK g \in Flows : Step(g) \/ Fails(g)
    BY <1>3, <1>4, <1>5, <1>6 DEF Next, vars, pageVars
  <1>8. ~ (Fails(g) \/ FetchesNothing(g) \/ AnsweredTooEarly(g))
    <2> SUFFICES ASSUME Fails(g) \/ FetchesNothing(g) \/ AnsweredTooEarly(g) PROVE FALSE
      OBVIOUS
    <2>1. flow' = [flow EXCEPT ![g] = None]
      BY DEF Fails, FetchesNothing, AnsweredTooEarly, FailWith
    <2> QED BY <1>1, <1>2, <2>1
  <1>9. ~ Created(g)
    <2> SUFFICES ASSUME Created(g) PROVE FALSE
      OBVIOUS
    <2>1. PICK i \in Incidents : flow' = [flow EXCEPT ![g].at = "run", ![g].asks = i]
      BY DEF Created
    <2>2. flow' = [flow EXCEPT ![g] = ToRun(flow[g], i)]
      BY <1>0, <2>1 DEF FlowsOK, ToRun
    <2>3. i \in Id
      BY DEF Id
    <2>4. ToRun(flow[f], i).at = "run"
      BY <1>0, <2>3, ToRunType
    <2> QED BY <1>1, <1>2, <2>2, <2>4
  <1>10. ~ Answered(g)
    <2> SUFFICES ASSUME Answered(g) PROVE FALSE
      OBVIOUS
    <2>1. \/ flow' = [flow EXCEPT ![g] = Refreshing(flow[g])]
          \/ flow' = [flow EXCEPT ![g] = None]
      BY DEF Answered, Returns
    <2>2. Refreshing(flow[f]).at = "incident"
      BY <1>0, RefreshingType DEF RestOK
    <2> QED BY <1>1, <1>2, <2>1, <2>2
  <1>11. ~ Fetched(g)
    <2> SUFFICES ASSUME Fetched(g) PROVE FALSE
      OBVIOUS
    <2>1. PICK k \in 1 .. 3, waits \in BOOLEAN :
              flow[g].at = Bundle[k] /\ flow' = [flow EXCEPT ![g] = NextFetch(flow[g], k, waits)]
      <3>1. (\A i : StatusWaits(i) \subseteq BOOLEAN) /\ (flow[g] # None => flow[g].waits \in BOOLEAN)
        BY <1>0, FlowFields DEF StatusWaits, FlowsOK
      <3> QED BY <3>1 DEF Fetched
    <2>2. g = f /\ flow'[f] = NextFetch(flow[f], k, waits)
      BY <1>2, <2>1
    <2>3. NextFetch(flow[f], k, waits).at = Bundle[k + 1]
      BY <2>1, <2>2, NextFetchType
    <2> QED BY <1>1, <2>2, <2>3, BundleIs
  <1>12. Rendered(g)
    BY <1>7, <1>8, <1>9, <1>10, <1>11 DEF Step
  <1>13. flow' = [flow EXCEPT ![g] = ToDecide(flow[g])] \/ flow' = [flow EXCEPT ![g] = None]
    BY <1>12 DEF Rendered, Returns, ToDecide
  <1>14. g = f /\ flow'[f] = ToDecide(flow[f])
    BY <1>1, <1>2, <1>13
  <1> QED BY <1>0, <1>12, <1>14, ToDecideType DEF RestOK

(* A decision is only sent from a page that shows its incident: an approve *)
(* or a reject of somebody who does not hurry, and what auto-approve does  *)
(* after a simulation whose bundle is not torn.                            *)
THEOREM DecisionsFitPage == Spec => DecisionFitsPage
  <1> DEFINE Fits == \A f \in Flows :
                 Decides(f) /\ (~hurried' \/ (flow[f] # None /\ "page" \notin torn')) =>
                     page' = [k \in 1 .. 4 |-> flow'[f].asks]
  <1>1. ASSUME TInv, TornInv, PageInv', [Next]_vars PROVE Fits
    <2>1. ASSUME NEW f \in Flows, Decides(f), ~ hurried'
          PROVE  page' = [k \in 1 .. 4 |-> flow'[f].asks]
      <3>1. flow'[f] # None /\ flow'[f].at = "resume"
        BY <2>1 DEF Decides
      <3>2. OnTrack(flow[f])'
        BY <1>1, <2>1, <3>1 DEF PageInv, OnTrack
      <3>3. flow'[f].asks = incidentId' /\ Shows(incidentId)'
        BY <3>1, <3>2 DEF OnTrack
      <3> QED BY <3>3 DEF Shows
    <2>2. ASSUME NEW f \in Flows, Decides(f), flow[f] # None, "page" \notin torn'
          PROVE  page' = [k \in 1 .. 4 |-> flow'[f].asks]
      <3>1. Rendered(f) /\ flow'[f].asks = incidentId
        BY <1>1, <2>2, OnlyRenderedDecides
      <3>2. Shows(incidentId)' /\ incidentId' = incidentId
        BY <1>1, <2>2, <3>1, RendersOne
      <3> QED BY <3>1, <3>2 DEF Shows
    <2> QED BY <2>1, <2>2
  <1>2. [](TInv /\ PageInv /\ TornInv) /\ [][Next]_vars => [][Fits]_vars
    <2> HIDE DEF Fits
    <2> QED BY <1>1, PTL
  <1> QED BY PageAlways, <1>2, PTL DEF Spec, DecisionFitsPage
=============================================================================
