----------------------- MODULE EvidenceFanOutProofs -----------------------
(***************************************************************************)
(* Proofs about EvidenceFanOut, for any findings and plans, any number of  *)
(* calls and any number of failures, restarts and lost audit writes.       *)
(***************************************************************************)
EXTENDS EvidenceFanOut, TLAPS

Answered == {"completed_run", "completed_event", "returned", "saved"}
Failing == {"failed_run", "failed_event", "failed"}

(* A call is at work on a thread that was started; an agent past its work  *)
(* has an answer; a branch that is done has left its evidence.             *)
Shape ==
    /\ active => next \in Unfinished
    /\ next # "unstarted" => round # 0
    /\ DOMAIN output = Agents
    /\ \A a \in Agents : stage[a] \in Answered => output[a] \in Answers(a)
    /\ \A a \in Agents : stage[a] \in {"query", "done"} => a \in Sources
    /\ \A s \in Sources : stage[s] = "done" => pending[s] # None

TInv == TypeOK /\ Shape

-----------------------------------------------------------------------------
LEMMA EvidenceIsTyped ==
    ASSUME TypeOK, next # "unstarted" => round # 0, next # "unstarted",
           NEW s \in Sources, NEW o \in Findings[s]
    PROVE  /\ [round |-> round, call |-> calls, items |-> BuildEvidence(s, o)] \in Evidence
           /\ [round |-> round, call |-> calls, items |-> BuildEvidence(s, o)] # None
<1>1. round \in 1 .. MaxCalls /\ calls \in 1 .. MaxCalls
  BY BoundAssumption DEF TypeOK
<1>2. BuildEvidence(s, o) \in UNION {{BuildEvidence(z, f) : f \in Findings[z]} : z \in Sources}
  OBVIOUS
<1>3. [round |-> round, call |-> calls, items |-> BuildEvidence(s, o)] \in Evidence
  BY <1>1, <1>2 DEF Evidence
<1> QED  BY <1>3, NoneAssumption

(* What entering a node leaves the agents at.                              *)
LEMMA EnteringIsTyped ==
    ASSUME NEW n \in Unfinished \cup {"unstarted", "planned"},
           NEW kept \in [Sources -> Evidence \cup {None}]
    PROVE  /\ Entering(n, kept) \in [Agents -> {"off", "query", "start", "done"}]
           /\ \A a \in Agents : Entering(n, kept)[a] # "off" =>
                 IF a \in Sources THEN n = "evidence" ELSE n = a
           /\ \A a \in Agents : Entering(n, kept)[a] \in {"query", "done"} => a \in Sources
           /\ \A s \in Sources : Entering(n, kept)[s] = "done" => kept[s] # None
<1>1. ASSUME NEW a \in Agents
      PROVE  /\ Entering(n, kept)[a] \in {"off", "query", "start", "done"}
             /\ Entering(n, kept)[a] # "off" => IF a \in Sources THEN n = "evidence" ELSE n = a
             /\ Entering(n, kept)[a] \in {"query", "done"} => a \in Sources
             /\ a \in Sources /\ Entering(n, kept)[a] = "done" => kept[a] # None
  BY DEF Entering
<1>2. Sources \subseteq Agents
  BY DEF Agents
<1>3. Entering(n, kept) \in [Agents -> {"off", "query", "start", "done"}]
  BY <1>1 DEF Entering
<1> QED  BY <1>1, <1>2, <1>3

(* A step of one agent keeps the form of `stage`.                          *)
LEMMA MoveIsTyped ==
    ASSUME TypeOK, NEW a \in Agents, NEW from \in Stages \ {"off"}, NEW to \in Stages,
           At(a, from, to)
    PROVE  /\ stage' \in [Agents -> Stages]
           /\ stage'[a] = to
           /\ \A b \in Agents \ {a} : stage'[b] = stage[b]
           /\ active
           /\ \A b \in Agents : stage'[b] # "off" =>
                 IF b \in Sources THEN next = "evidence" ELSE next = b
BY DEF TypeOK, At, Idle

LEMMA TInvInit == Init => TInv
<1> SUFFICES ASSUME Init PROVE TInv
  OBVIOUS
<1>1. /\ \A a \in Agents : stage[a] = "off"
      /\ stage \in [Agents -> Stages]
  BY DEF Init, Idle, Stages
<1>2. channels \in [Sources -> Evidence \cup {None}] /\ pending \in [Sources -> Evidence \cup {None}]
  BY DEF Init, Nothing
<1>3. TypeOK
  <2>1. /\ round \in 0 .. calls /\ calls \in 0 .. MaxCalls /\ brokenCall \in 0 .. calls
        /\ workFaults \in Nat /\ auditFaults \in Nat /\ workFaults + auditFaults <= MaxFaults
    BY BoundAssumption DEF Init
  <2>2. /\ active \in BOOLEAN /\ next \in Unfinished \cup {"unstarted", "planned"}
        /\ answer \in {"none", "planned", "error"} /\ stage = Idle
    BY DEF Init
  <2> QED  BY <1>1, <1>2, <2>1, <2>2 DEF TypeOK
<1>4. Shape
  BY <1>1 DEF Init, Shape, Answered, Agents, NoOutput
<1> QED  BY <1>3, <1>4 DEF TInv

LEMMA TInvBegin ==
    ASSUME TInv,
           \/ StartRun
           \/ Resume
    PROVE  TInv'
<1> USE DEF TInv
<1>1. ASSUME NEW n \in Unfinished, NEW kept \in [Sources -> Evidence \cup {None}],
             Begin(n, kept), round' \in {round, calls'}, n = next \/ round' = calls'
      PROVE  TInv'
  <2>1. /\ next' = n /\ pending' = kept /\ stage' = Entering(n, kept) /\ active'
        /\ answer' = "none" /\ calls' = calls + 1 /\ calls < MaxCalls
        /\ UNCHANGED <<channels, plan, output, analysis, trail, brokenCall, workFaults, auditFaults>>
    BY <1>1 DEF Begin
  <2>2. /\ stage' \in [Agents -> {"off", "query", "start", "done"}]
        /\ \A a \in Agents : stage'[a] # "off" =>
              IF a \in Sources THEN n = "evidence" ELSE n = a
        /\ \A a \in Agents : stage'[a] \in {"query", "done"} => a \in Sources
        /\ \A s \in Sources : stage'[s] = "done" => kept[s] # None
    BY <2>1, EnteringIsTyped
  <2>3. TypeOK'
    BY <1>1, <2>1, <2>2, BoundAssumption DEF TypeOK, Stages, Unfinished
  <2>4. round' # 0
    BY <1>1, <2>1 DEF TypeOK, Shape, Unfinished
  <2>5. Shape'
    BY <2>1, <2>2, <2>4 DEF Shape, Answered, Answers
  <2> QED  BY <2>3, <2>5
<1>2. CASE StartRun
  <2>1. Nothing \in [Sources -> Evidence \cup {None}]
    BY DEF Nothing
  <2> QED  BY <1>1, <1>2, <2>1 DEF StartRun, Unfinished
<1>3. CASE Resume
  BY <1>1, <1>3 DEF Resume, TypeOK
<1> QED  BY <1>2, <1>3

(* A step of an agent that leaves the thread alone.                        *)
LEMMA TInvMove ==
    ASSUME TInv, NEW a \in Agents, NEW from \in Stages \ {"off"}, NEW to \in Stages,
           At(a, from, to),
           to \notin {"query", "done"},
           to \in Answered => output'[a] \in Answers(a),
           \A b \in Agents \ {a} : output'[b] = output[b], DOMAIN output' = Agents,
           UNCHANGED <<active, threadVars, answer, round, calls>>,
           brokenCall' \in {brokenCall, calls},
           workFaults' \in Nat, auditFaults' \in Nat, workFaults' + auditFaults' <= MaxFaults
    PROVE  TInv'
<1> USE DEF TInv
<1>1. /\ stage' \in [Agents -> Stages]
      /\ stage'[a] = to
      /\ \A b \in Agents \ {a} : stage'[b] = stage[b]
      /\ active
      /\ \A b \in Agents : stage'[b] # "off" =>
            IF b \in Sources THEN next = "evidence" ELSE next = b
  BY MoveIsTyped
<1>2. TypeOK'
  BY <1>1 DEF TypeOK, threadVars
<1>3. Shape'
  <2>1. UNCHANGED <<active, next, round, pending>>
    BY DEF threadVars
  <2>2. \A b \in Agents : stage'[b] \in Answered => output'[b] \in Answers(b)
    BY <1>1 DEF Shape
  <2>3. \A b \in Agents : stage'[b] \in {"query", "done"} => b \in Sources
    BY <1>1 DEF Shape
  <2>4. \A s \in Sources : stage'[s] = "done" => pending'[s] # None
    BY <1>1, <2>1 DEF Shape, Agents
  <2>5. \A b \in Agents : Answers(b)' = Answers(b)
    BY DEF Answers
  <2> QED  BY <2>1, <2>2, <2>3, <2>4, <2>5 DEF Shape
<1> QED  BY <1>2, <1>3

(* A step from one node to the next.                                       *)
LEMMA TInvGoOn ==
    ASSUME TInv, NEW n \in {"triage", "evidence", "planner"}, GoOn(n),
           active, UNCHANGED <<active, answer, round, calls, brokenCall>>,
           channels' \in [Sources -> Evidence \cup {None}],
           pending' \in [Sources -> Evidence \cup {None}],
           workFaults' \in Nat, auditFaults' \in Nat, workFaults' + auditFaults' <= MaxFaults
    PROVE  TInv'
<1> USE DEF TInv
<1>1. n \in Unfinished /\ Nothing \in [Sources -> Evidence \cup {None}]
  BY DEF Unfinished, Nothing
<1>2. /\ stage' \in [Agents -> {"off", "query", "start", "done"}]
      /\ \A a \in Agents : stage'[a] # "off" => IF a \in Sources THEN n = "evidence" ELSE n = a
      /\ \A a \in Agents : stage'[a] \in {"query", "done"} => a \in Sources
      /\ \A s \in Sources : stage'[s] = "done" => Nothing[s] # None
  BY <1>1, EnteringIsTyped DEF GoOn
<1>3. \A s \in Sources : stage'[s] # "done"
  BY <1>2 DEF Nothing
<1>4. TypeOK'
  BY <1>1, <1>2 DEF TypeOK, GoOn, Stages
<1>5. Shape'
  BY <1>1, <1>2, <1>3 DEF Shape, GoOn, Answered, Unfinished, NoOutput
<1> QED  BY <1>4, <1>5

(* A step that ends the call.                                              *)
LEMMA TInvEnd ==
    ASSUME TInv, NEW s \in {"planned", "error"}, End(s),
           next' \in Unfinished \cup {"unstarted", "planned"},
           next' # "unstarted" => round # 0,
           channels' \in [Sources -> Evidence \cup {None}],
           pending' \in [Sources -> Evidence \cup {None}],
           UNCHANGED <<round, calls>>, brokenCall' \in {brokenCall, calls},
           workFaults' \in Nat, auditFaults' \in Nat, workFaults' + auditFaults' <= MaxFaults
    PROVE  TInv'
<1> USE DEF TInv
<1>1. stage' = Idle /\ stage' \in [Agents -> Stages] /\ \A a \in Agents : stage'[a] = "off"
  BY DEF End, Idle, Stages
<1>2. TypeOK'
  <2>1. brokenCall' \in 0 .. calls' /\ round' \in 0 .. calls' /\ calls' \in 0 .. MaxCalls
    BY DEF TypeOK
  <2>2. /\ active' = FALSE /\ answer' = s /\ (~active' => stage' = Idle)
        /\ \A a \in Agents : stage'[a] # "off" =>
              IF a \in Sources THEN next' = "evidence" ELSE next' = a
    BY <1>1 DEF End
  <2>3. Idle' = Idle
    BY DEF Idle
  <2> QED  BY <1>1, <2>1, <2>2, <2>3 DEF TypeOK
<1>3. Shape'
  BY <1>1 DEF Shape, End, Answered, Agents, NoOutput
<1> QED  BY <1>2, <1>3

LEMMA CountersStay ==
    ASSUME TypeOK, \/ Fault /\ UNCHANGED auditFaults
                   \/ (\E r : Audit(r)) /\ UNCHANGED <<workFaults, brokenCall>>
                   \/ UNCHANGED <<workFaults, auditFaults, brokenCall>>
    PROVE  /\ workFaults' \in Nat /\ auditFaults' \in Nat /\ workFaults' + auditFaults' <= MaxFaults
           /\ brokenCall' \in {brokenCall, calls}
BY BoundAssumption DEF TypeOK, Fault, CanFail, Audit, Stored, Lost

LEMMA TInvAgent ==
    ASSUME TInv, NEW a \in Agents, RunAgent(a) \/ ThinkFails(a)
    PROVE  TInv'
<1> USE DEF TInv
<1>1. ASSUME NEW from \in Stages \ {"off"}, NEW to \in {"think", "completed_event", "returned",
                                                        "failed_event", "failed"},
             NEW w, RecordEvent(a, from, to, w) \/ RecordAgentRun(a, from, to, w),
             to \in Answered => from \in Answered
      PROVE  TInv'
  <2>1. At(a, from, to) /\ UNCHANGED besideAudit /\ \E r : Audit(r)
    BY <1>1 DEF RecordEvent, RecordAgentRun
  <2>2. /\ workFaults' \in Nat /\ auditFaults' \in Nat /\ workFaults' + auditFaults' <= MaxFaults
        /\ brokenCall' \in {brokenCall, calls}
    BY <2>1, CountersStay DEF besideAudit
  <2>3. to \in Answered => output'[a] \in Answers(a)
    BY <1>1, <2>1 DEF At, Shape, besideAudit
  <2>4. to \in Stages
    BY DEF Stages
  <2> QED  BY <2>1, <2>2, <2>3, <2>4, TInvMove DEF besideAudit, Shape
<1>2. CASE RecordStarted(a)
  BY <1>1, <1>2 DEF RecordStarted, Stages, Answered
<1>3. CASE RecordCompletedRun(a)
  BY <1>1, <1>3 DEF RecordCompletedRun, Stages, Answered
<1>4. CASE RecordCompleted(a)
  BY <1>1, <1>4 DEF RecordCompleted, Stages, Answered
<1>5. CASE RecordFailedRun(a)
  BY <1>1, <1>5 DEF RecordFailedRun, Stages, Answered
<1>6. CASE RecordFailed(a)
  BY <1>1, <1>6 DEF RecordFailed, Stages, Answered
<1>7. CASE Think(a)
  <2>1. PICK o \in Answers(a) : output' = [output EXCEPT ![a] = o]
    BY <1>7 DEF Think
  <2>2. output'[a] = o /\ \A b \in Agents \ {a} : output'[b] = output[b]
    BY <2>1 DEF Shape
  <2>3. At(a, "think", "completed_run") /\ DOMAIN output' = Agents
        /\ UNCHANGED <<active, threadVars, answer, round, bounds>>
    BY <1>7, <2>1 DEF Think, Shape
  <2>4. "think" \in Stages \ {"off"} /\ "completed_run" \in Stages
        /\ "completed_run" \notin {"query", "done"}
    BY DEF Stages
  <2>5. /\ workFaults' \in Nat /\ auditFaults' \in Nat /\ workFaults' + auditFaults' <= MaxFaults
        /\ brokenCall' \in {brokenCall, calls}
    BY <2>3, CountersStay DEF bounds
  <2> QED  BY <2>1, <2>2, <2>3, <2>4, <2>5, TInvMove DEF bounds
<1>8. CASE ThinkFails(a)
  <2>1. At(a, "think", "failed_run") /\ UNCHANGED <<active, threadVars, answer, round, calls, output>>
    BY <1>8 DEF ThinkFails
  <2>2. /\ workFaults' \in Nat /\ auditFaults' \in Nat /\ workFaults' + auditFaults' <= MaxFaults
        /\ brokenCall' \in {brokenCall, calls}
    BY <1>8, CountersStay DEF ThinkFails
  <2>3. "think" \in Stages \ {"off"} /\ "failed_run" \in Stages
        /\ "failed_run" \notin Answered \cup {"query", "done"}
    BY DEF Stages, Answered
  <2> QED  BY <2>1, <2>2, <2>3, TInvMove DEF Shape
<1> QED  BY <1>2, <1>3, <1>4, <1>5, <1>6, <1>7, <1>8 DEF RunAgent

LEMMA TInvNode ==
    ASSUME TInv, \/ LoadIncident \/ Triaged \/ Join \/ SaveAnalysis \/ Planned \/ NodeFails
                 \/ LoadIncidentFails \/ SaveAnalysisFails \/ Restart
    PROVE  TInv'
<1> USE DEF TInv
<1>0. Nothing \in [Sources -> Evidence \cup {None}] /\ "triage" \in Agents /\ "planner" \in Agents
      /\ Sources \subseteq Agents /\ Sources # {}
  BY DEF Nothing, Agents, Sources
<1>1. \A a \in Agents : stage[a] # "off" => active /\ next # "unstarted"
  BY DEF TypeOK, Idle, Shape, Unfinished
<1>2. CASE LoadIncident
  <2>1. UNCHANGED <<channels, pending>> /\ active
    BY <1>2 DEF LoadIncident
  <2>2. /\ workFaults' \in Nat /\ auditFaults' \in Nat /\ workFaults' + auditFaults' <= MaxFaults
    BY <1>2, CountersStay DEF LoadIncident
  <2>3. channels' \in [Sources -> Evidence \cup {None}] /\ pending' \in [Sources -> Evidence \cup {None}]
    BY <2>1 DEF TypeOK
  <2> QED  BY <1>2, <2>1, <2>2, <2>3, TInvGoOn DEF LoadIncident, Shape
<1>3. CASE Triaged
  <2>1. UNCHANGED <<active, channels, pending, answer, round, bounds>> /\ active
    BY <1>0, <1>1, <1>3 DEF Triaged
  <2>2. /\ workFaults' \in Nat /\ auditFaults' \in Nat /\ workFaults' + auditFaults' <= MaxFaults
    BY <2>1 DEF bounds, TypeOK
  <2>3. channels' \in [Sources -> Evidence \cup {None}] /\ pending' \in [Sources -> Evidence \cup {None}]
    BY <2>1 DEF TypeOK
  <2> QED  BY <1>0, <1>3, <2>1, <2>2, <2>3, TInvGoOn DEF Triaged, bounds
<1>4. CASE Join
  <2>1. UNCHANGED <<active, answer, round, bounds>> /\ active
    BY <1>0, <1>1, <1>4 DEF Join
  <2>2. /\ workFaults' \in Nat /\ auditFaults' \in Nat /\ workFaults' + auditFaults' <= MaxFaults
    BY <2>1 DEF bounds, TypeOK
  <2>3. channels' \in [Sources -> Evidence \cup {None}] /\ pending' \in [Sources -> Evidence \cup {None}]
    BY <1>0, <1>4 DEF Join, TypeOK
  <2> QED  BY <1>4, <2>1, <2>2, <2>3, TInvGoOn DEF Join, bounds
<1>5. CASE SaveAnalysis \/ SaveAnalysisFails
  <2>1. PICK to \in {"saved", "failed"} : At("planner", "returned", to)
    BY <1>5 DEF SaveAnalysis, SaveAnalysisFails
  <2>2. UNCHANGED <<active, threadVars, output, answer, round, calls>>
    BY <1>5 DEF SaveAnalysis, SaveAnalysisFails, bounds
  <2>3. /\ workFaults' \in Nat /\ auditFaults' \in Nat /\ workFaults' + auditFaults' <= MaxFaults
        /\ brokenCall' \in {brokenCall, calls}
    BY <1>5, CountersStay DEF SaveAnalysis, SaveAnalysisFails, bounds
  <2>4. to \in Stages /\ "returned" \in Stages \ {"off"} /\ to \notin {"query", "done"}
    BY DEF Stages
  <2>5. output'["planner"] \in Answers("planner") /\ DOMAIN output' = Agents
    BY <1>0, <2>1, <2>2 DEF At, Shape, Answered
  <2> QED  BY <1>0, <2>1, <2>2, <2>3, <2>4, <2>5, TInvMove
<1>6. CASE Planned \/ NodeFails \/ LoadIncidentFails
  <2>1. PICK s \in {"planned", "error"} : End(s)
    BY <1>6 DEF Planned, NodeFails, LoadIncidentFails
  <2>2. /\ next' \in {next, "planned"} /\ next # "unstarted"
        /\ UNCHANGED <<channels, pending, round, calls>>
    BY <1>0, <1>1, <1>6 DEF Planned, NodeFails, LoadIncidentFails, threadVars, bounds
  <2>3. /\ workFaults' \in Nat /\ auditFaults' \in Nat /\ workFaults' + auditFaults' <= MaxFaults
        /\ brokenCall' \in {brokenCall, calls}
    BY <1>6, CountersStay DEF Planned, NodeFails, LoadIncidentFails, bounds
  <2>4. /\ channels' \in [Sources -> Evidence \cup {None}] /\ pending' \in [Sources -> Evidence \cup {None}]
        /\ next' \in Unfinished \cup {"unstarted", "planned"} /\ round # 0
    BY <2>2 DEF TypeOK, Shape
  <2> QED  BY <2>1, <2>2, <2>3, <2>4, TInvEnd
<1>7. CASE Restart
  <2>1. End("error") /\ active /\ UNCHANGED <<round, calls>>
    BY <1>7 DEF Restart
  <2>2. /\ channels' \in [Sources -> Evidence \cup {None}] /\ pending' \in [Sources -> Evidence \cup {None}]
        /\ next' \in {next, "unstarted"}
    <3>1. CASE ThreadKept
      BY <3>1 DEF ThreadKept, TypeOK
    <3>2. CASE ThreadForgotten
      BY <1>0, <3>2 DEF ThreadForgotten
    <3> QED  BY <1>7, <3>1, <3>2 DEF Restart
  <2>3. /\ workFaults' \in Nat /\ auditFaults' \in Nat /\ workFaults' + auditFaults' <= MaxFaults
        /\ brokenCall' \in {brokenCall, calls}
    BY <1>7, CountersStay DEF Restart
  <2>4. next' \in Unfinished \cup {"unstarted", "planned"} /\ (next' # "unstarted" => round # 0)
    BY <2>2 DEF TypeOK, Shape
  <2> QED  BY <2>1, <2>2, <2>3, <2>4, TInvEnd
<1> QED  BY <1>2, <1>3, <1>4, <1>5, <1>6, <1>7

LEMMA TInvSource ==
    ASSUME TInv, NEW s \in Sources, Query(s) \/ QueryFails(s) \/ Deliver(s)
    PROVE  TInv'
<1> USE DEF TInv
<1>0. s \in Agents /\ "query" \in Stages \ {"off"} /\ "start" \in Stages /\ "failed" \in Stages
      /\ "returned" \in Stages \ {"off"} /\ "done" \in Stages
      /\ {"start", "failed"} \cap (Answered \cup {"query", "done"}) = {}
  BY DEF Agents, Stages, Answered
<1>1. CASE Query(s) \/ QueryFails(s)
  <2>1. PICK to \in {"start", "failed"} : At(s, "query", to)
    BY <1>1 DEF Query, QueryFails
  <2>2. UNCHANGED <<active, threadVars, output, answer, round, calls>>
    BY <1>1 DEF Query, QueryFails, bounds
  <2>3. /\ workFaults' \in Nat /\ auditFaults' \in Nat /\ workFaults' + auditFaults' <= MaxFaults
        /\ brokenCall' \in {brokenCall, calls}
    BY <1>1, CountersStay DEF Query, QueryFails, bounds
  <2>4. DOMAIN output' = Agents
    BY <2>2 DEF Shape
  <2> QED  BY <1>0, <2>1, <2>2, <2>3, <2>4, TInvMove
<1>2. CASE Deliver(s)
  <2> DEFINE e == [round |-> round, call |-> calls, items |-> BuildEvidence(s, output[s])]
  <2>1. /\ stage[s] = "returned" /\ pending' = [pending EXCEPT ![s] = e]
        /\ UNCHANGED <<active, next, channels, output, answer, round, bounds>>
    BY <1>2 DEF Deliver, At
  <2>2. /\ stage' \in [Agents -> Stages] /\ stage'[s] = "done"
        /\ \A b \in Agents \ {s} : stage'[b] = stage[b]
        /\ active
        /\ \A b \in Agents : stage'[b] # "off" =>
              IF b \in Sources THEN next = "evidence" ELSE next = b
    BY <1>0, <1>2, MoveIsTyped DEF Deliver
  <2>3. next # "unstarted" /\ output[s] \in Findings[s]
    <3>1. Answers(s) = Findings[s]
      BY DEF Answers, Sources
    <3> QED  BY <1>0, <2>1, <2>2, <3>1 DEF Shape, Unfinished, Answered
  <2>4. e \in Evidence /\ e # None
    BY <2>3, EvidenceIsTyped DEF Shape
  <2>5. /\ pending' \in [Sources -> Evidence \cup {None}] /\ pending'[s] = e
        /\ \A z \in Sources \ {s} : pending'[z] = pending[z]
    BY <2>1, <2>4 DEF TypeOK
  <2> HIDE DEF e
  <2>6. TypeOK'
    <3>1. UNCHANGED <<active, next, channels, answer, round, calls, brokenCall, workFaults, auditFaults>>
      BY <2>1 DEF bounds
    <3> QED  BY <2>2, <2>5, <3>1 DEF TypeOK
  <2>7. \A a \in Agents : stage'[a] \in Answered => output'[a] \in Answers(a)
    BY <2>1, <2>2 DEF Shape, Answered
  <2>8. Shape'
    BY <1>0, <2>1, <2>2, <2>4, <2>5, <2>7 DEF Shape, Answers, Agents
  <2> QED  BY <2>6, <2>8
<1> QED  BY <1>1, <1>2

LEMMA TInvNext == TInv /\ [Next]_vars => TInv'
<1> SUFFICES ASSUME TInv, [Next]_vars PROVE TInv'
  OBVIOUS
<1>1. CASE UNCHANGED vars
  BY <1>1 DEF TInv, TypeOK, Shape, vars, threadVars, bounds, Answers
<1>2. CASE Next
  BY <1>2, TInvBegin, TInvAgent, TInvNode, TInvSource DEF Next, Progress
<1> QED  BY <1>1, <1>2

(* Types; between calls no agent is at work, and during a call only those  *)
(* of the node the thread is at (the end of a superstep, graph.py).        *)
THEOREM EvidenceTypeCorrect == Spec => []TypeOK
<1>1. TInv => TypeOK
  BY DEF TInv
<1> QED  BY <1>1, TInvInit, TInvNext, PTL DEF Spec

-----------------------------------------------------------------------------
(* What the steps have in common: an agent moves, the thread goes on to    *)
(* another node, a call begins or ends.                                    *)
LEMMA StageAfter ==
    ASSUME TInv, Next
    PROVE  \/ /\ StartRun \/ Resume
              /\ \A a \in Agents : stage'[a] \in {"off", "query", "start", "done"}
           \/ /\ LoadIncident \/ Triaged \/ Join
              /\ \A a \in Agents : stage'[a] \in {"off", "query", "start"}
           \/ /\ Planned \/ NodeFails \/ LoadIncidentFails \/ Restart
              /\ \A a \in Agents : stage'[a] = "off"
           \/ \E a \in Agents, from, to \in Stages :
                 /\ stage[a] = from /\ stage'[a] = to
                 /\ \A b \in Agents \ {a} : stage'[b] = stage[b]
                 /\ \/ RunAgent(a) \/ ThinkFails(a)
                    \/ a \in Sources /\ (Query(a) \/ QueryFails(a) \/ Deliver(a))
                    \/ a = "planner" /\ (SaveAnalysis \/ SaveAnalysisFails)
<1>0. /\ Nothing \in [Sources -> Evidence \cup {None}]
      /\ "planner" \in Agents /\ Sources \subseteq Agents
  BY DEF Nothing, Agents
<1>1. ASSUME StartRun \/ Resume
      PROVE  \A a \in Agents : stage'[a] \in {"off", "query", "start", "done"}
  <2>1. PICK n \in Unfinished, kept \in [Sources -> Evidence \cup {None}] : stage' = Entering(n, kept)
    BY <1>0, <1>1 DEF StartRun, Resume, Begin, Unfinished, TInv, TypeOK
  <2> QED  BY <2>1, EnteringIsTyped
<1>2. ASSUME LoadIncident \/ Triaged \/ Join
      PROVE  \A a \in Agents : stage'[a] \in {"off", "query", "start"}
  <2>1. PICK n \in {"triage", "evidence", "planner"} : stage' = Entering(n, Nothing)
    BY <1>2 DEF LoadIncident, Triaged, Join, GoOn
  <2>2. /\ Entering(n, Nothing) \in [Agents -> {"off", "query", "start", "done"}]
        /\ \A a \in Agents : Entering(n, Nothing)[a] \in {"query", "done"} => a \in Sources
        /\ \A s \in Sources : Entering(n, Nothing)[s] = "done" => Nothing[s] # None
    BY <1>0, EnteringIsTyped DEF Unfinished
  <2> QED  BY <2>1, <2>2 DEF Nothing
<1>3. ASSUME Planned \/ NodeFails \/ LoadIncidentFails \/ Restart
      PROVE  \A a \in Agents : stage'[a] = "off"
  BY <1>3 DEF Planned, NodeFails, LoadIncidentFails, Restart, End, Idle
<1>4. ASSUME NEW a \in Agents, NEW from \in Stages, NEW to \in Stages, At(a, from, to)
      PROVE  /\ stage[a] = from /\ stage'[a] = to
             /\ \A b \in Agents \ {a} : stage'[b] = stage[b]
  BY <1>4 DEF At, TInv, TypeOK
<1>5. ASSUME NEW a \in Agents, RunAgent(a) \/ ThinkFails(a)
      PROVE  \E from, to \in Stages : At(a, from, to)
  BY <1>5 DEF RunAgent, ThinkFails, RecordStarted, Think, RecordCompletedRun, RecordCompleted,
              RecordFailedRun, RecordFailed, RecordEvent, RecordAgentRun, Stages
<1>6. ASSUME NEW s \in Sources, Query(s) \/ QueryFails(s) \/ Deliver(s)
      PROVE  \E from, to \in Stages : At(s, from, to)
  BY <1>6 DEF Query, QueryFails, Deliver, Stages
<1>7. ASSUME SaveAnalysis \/ SaveAnalysisFails
      PROVE  \E from, to \in Stages : At("planner", from, to)
  BY <1>7 DEF SaveAnalysis, SaveAnalysisFails, Stages
<1>8. CASE StartRun \/ Resume
  BY <1>1, <1>8
<1>9. CASE LoadIncident \/ Triaged \/ Join
  BY <1>2, <1>9
<1>10. CASE Planned \/ NodeFails \/ LoadIncidentFails \/ Restart
  BY <1>3, <1>10
<1>11. CASE \E a \in Agents : RunAgent(a) \/ ThinkFails(a)
  BY <1>4, <1>5, <1>11
<1>12. CASE \E s \in Sources : Query(s) \/ QueryFails(s) \/ Deliver(s)
  BY <1>0, <1>4, <1>6, <1>12
<1>13. CASE SaveAnalysis \/ SaveAnalysisFails
  BY <1>0, <1>4, <1>7, <1>13
<1> QED  BY <1>8, <1>9, <1>10, <1>11, <1>12, <1>13 DEF Next, Progress

-----------------------------------------------------------------------------
(* An agent on its failing path is there for a failure of this call.       *)
FailingHasCause == \A a \in Agents : stage[a] \in Failing => brokenCall = calls

BInv == FailingHasCause /\ AuditNeverFailsTheRun

LEMMA BInvNext == TInv /\ BInv /\ [Next]_vars => BInv'
<1> SUFFICES ASSUME TInv, BInv, [Next]_vars PROVE BInv'
  OBVIOUS
<1> USE DEF BInv, FailingHasCause, AuditNeverFailsTheRun, Failing
<1>1. CASE UNCHANGED vars
  BY <1>1 DEF vars, bounds
<1>2. ASSUME StartRun \/ Resume, \A a \in Agents : stage'[a] \in {"off", "query", "start", "done"}
      PROVE  BInv'
  BY <1>2 DEF StartRun, Resume, Begin
<1>3. ASSUME LoadIncident \/ Triaged \/ Join, \A a \in Agents : stage'[a] \in {"off", "query", "start"}
      PROVE  BInv'
  BY <1>3 DEF LoadIncident, Triaged, Join, bounds
<1>4. ASSUME Planned \/ NodeFails \/ LoadIncidentFails \/ Restart, \A a \in Agents : stage'[a] = "off"
      PROVE  BInv'
  BY <1>4 DEF Planned, NodeFails, LoadIncidentFails, Restart, End, Fault, bounds
<1>5. ASSUME NEW a \in Agents, NEW from \in Stages, NEW to \in Stages,
             stage[a] = from, stage'[a] = to, \A b \in Agents \ {a} : stage'[b] = stage[b],
             \/ RunAgent(a) \/ ThinkFails(a)
             \/ a \in Sources /\ (Query(a) \/ QueryFails(a) \/ Deliver(a))
             \/ a = "planner" /\ (SaveAnalysis \/ SaveAnalysisFails)
      PROVE  BInv'
  <2>1. UNCHANGED <<answer, calls>> /\ brokenCall' \in {brokenCall, calls}
    BY <1>5 DEF RunAgent, ThinkFails, RecordStarted, Think, RecordCompletedRun, RecordCompleted,
         RecordFailedRun, RecordFailed, RecordEvent, RecordAgentRun, Query, QueryFails, Deliver,
         SaveAnalysis, SaveAnalysisFails, Fault, bounds, besideAudit
  <2>2. to \in Failing => from \in Failing \/ brokenCall' = calls
    BY <1>5 DEF RunAgent, ThinkFails, RecordStarted, Think, RecordCompletedRun, RecordCompleted,
         RecordFailedRun, RecordFailed, RecordEvent, RecordAgentRun, Query, QueryFails, Deliver,
         SaveAnalysis, SaveAnalysisFails, Fault, At, TInv, TypeOK
  <2> QED  BY <1>5, <2>1, <2>2
<1>6. CASE Next
  BY <1>2, <1>3, <1>4, <1>5, <1>6, StageAfter
<1> QED  BY <1>1, <1>6

(* A lost audit write never fails a call (_record_event and                *)
(* _record_agent_run, "Audit must not break the incident workflow.").      *)
THEOREM AuditIsHarmless == Spec => []AuditNeverFailsTheRun
<1>1. Init => BInv
  BY DEF Init, BInv, FailingHasCause, AuditNeverFailsTheRun, Failing, Idle
<1>2. BInv => AuditNeverFailsTheRun
  BY DEF BInv
<1> QED  BY <1>1, <1>2, BInvNext, TInvInit, TInvNext, PTL DEF Spec

-----------------------------------------------------------------------------
Verdict(a, w, c) == [table |-> "run", actor |-> a, what |-> w, call |-> c]

(* The agent's turn in this call is still to come.                         *)
Ahead(a) ==
    active /\ \/ next = "load_incident"
              \/ next = "triage" /\ a # "triage"
              \/ next = "evidence" /\ a = "planner"

(* Before an agent's work is over there is no verdict on it in this call,  *)
(* and there is none in later calls.                                       *)
Undecided == {"query", "start", "think", "completed_run", "failed_run"}
NoVerdictAhead ==
    \A a \in Agents, w \in {"completed", "failed"} :
        /\ Ahead(a) \/ stage[a] \in Undecided => Verdict(a, w, calls) \notin trail
        /\ \A c \in Nat : c > calls => Verdict(a, w, c) \notin trail

NeverBoth ==
    \A a \in Agents, c \in Nat :
        Verdict(a, "completed", c) \notin trail \/ Verdict(a, "failed", c) \notin trail

VInv == NoVerdictAhead /\ NeverBoth

(* What an audit write does to the verdicts.                               *)
LEMMA EventKeepsVerdicts ==
    ASSUME NEW x, NEW y, NEW a, NEW w, NEW c,
           trail' \in {trail, trail \cup {Record("event", x, y)}},
           Verdict(a, w, c) \in trail'
    PROVE  Verdict(a, w, c) \in trail
<1>1. Verdict(a, w, c).table = "run" /\ Record("event", x, y).table = "event"
  BY DEF Verdict, Record
<1> QED  BY <1>1

LEMMA RunAddsOneVerdict ==
    ASSUME NEW x, NEW y, NEW a, NEW w, NEW c,
           Audit(Record("run", x, y)), Verdict(a, w, c) \in trail'
    PROVE  Verdict(a, w, c) \in trail \/ (a = x /\ w = y /\ c = calls)
<1>1. /\ Verdict(a, w, c).actor = a /\ Verdict(a, w, c).what = w /\ Verdict(a, w, c).call = c
      /\ Record("run", x, y).actor = x /\ Record("run", x, y).what = y
      /\ Record("run", x, y).call = calls
  BY DEF Verdict, Record
<1> QED  BY <1>1 DEF Audit, Stored, Lost

LEMMA VInvNext == TInv /\ VInv /\ [Next]_vars => VInv'
<1> SUFFICES ASSUME TInv, VInv, [Next]_vars PROVE VInv'
  OBVIOUS
<1>0. /\ calls \in Nat /\ "planner" \in Agents /\ "triage" \in Agents /\ Sources \subseteq Agents
      /\ "planner" \notin Sources /\ "triage" \notin Sources
  BY BoundAssumption DEF TInv, TypeOK, Agents, Sources
<1>a. TInv'
  BY TInvNext
<1> USE DEF VInv, NoVerdictAhead, NeverBoth, Undecided
<1>1. CASE UNCHANGED vars
  BY <1>1 DEF vars, bounds, threadVars, Ahead
<1>2. ASSUME StartRun \/ Resume PROVE VInv'
  <2>1. calls' = calls + 1 /\ trail' = trail
    BY <1>2 DEF StartRun, Resume, Begin
  <2>2. calls' > calls /\ calls' \in Nat /\ \A c \in Nat : c > calls' => c > calls
    BY <1>0, <2>1
  <2> QED  BY <2>1, <2>2
<1>3. ASSUME calls' = calls,
             \A a, w, c : Verdict(a, w, c) \in trail' => Verdict(a, w, c) \in trail,
             \A a \in Agents : Ahead(a)' \/ stage'[a] \in Undecided =>
                                  Ahead(a) \/ stage[a] \in Undecided
      PROVE  VInv'
  BY <1>3
<1>4. ASSUME LoadIncident \/ Triaged \/ Join,
             \A a \in Agents : stage'[a] \in {"off", "query", "start"}
      PROVE  VInv'
  <2>1. UNCHANGED <<active, calls>>
    BY <1>4 DEF LoadIncident, Triaged, Join, bounds
  <2>2. \A a, w, c : Verdict(a, w, c) \in trail' => Verdict(a, w, c) \in trail
    BY <1>4, EventKeepsVerdicts DEF LoadIncident, Triaged, Join, Audit, Stored, Lost
  <2>3. \A a \in Agents : Ahead(a)' \/ stage'[a] \in Undecided => Ahead(a)
    <3>1. \A a \in Agents : stage'[a] # "off" => IF a \in Sources THEN next' = "evidence" ELSE next' = a
      BY <1>a DEF TInv, TypeOK
    <3>2. active /\ \/ next = "load_incident" /\ next' = "triage"
                    \/ next = "triage" /\ next' = "evidence"
                    \/ next = "evidence" /\ next' = "planner"
      BY <1>0, <1>4 DEF LoadIncident, Triaged, Join, GoOn, TInv, TypeOK, Idle, Sources
    <3> QED  BY <1>0, <2>1, <3>1, <3>2 DEF Ahead
  <2> QED  BY <1>3, <2>1, <2>2, <2>3
<1>5. ASSUME Planned \/ NodeFails \/ LoadIncidentFails \/ Restart,
             \A a \in Agents : stage'[a] = "off"
      PROVE  VInv'
  <2>1. ~active' /\ calls' = calls
    BY <1>5 DEF Planned, NodeFails, LoadIncidentFails, Restart, End, bounds
  <2>2. \A a, w, c : Verdict(a, w, c) \in trail' => Verdict(a, w, c) \in trail
    BY <1>5, EventKeepsVerdicts DEF Planned, NodeFails, LoadIncidentFails, Restart
  <2> QED  BY <1>3, <1>5, <2>1, <2>2 DEF Ahead
<1>6. ASSUME NEW a \in Agents, NEW from \in Stages, NEW to \in Stages,
             stage[a] = from, stage'[a] = to, \A b \in Agents \ {a} : stage'[b] = stage[b],
             \/ RunAgent(a) \/ ThinkFails(a)
             \/ a \in Sources /\ (Query(a) \/ QueryFails(a) \/ Deliver(a))
             \/ a = "planner" /\ (SaveAnalysis \/ SaveAnalysisFails)
      PROVE  VInv'
  <2>1. UNCHANGED <<active, next, calls>>
    BY <1>6 DEF RunAgent, ThinkFails, RecordStarted, Think, RecordCompletedRun, RecordCompleted,
         RecordFailedRun, RecordFailed, RecordEvent, RecordAgentRun, Query, QueryFails, Deliver,
         SaveAnalysis, SaveAnalysisFails, bounds, besideAudit, threadVars
  <2>2. \A b \in Agents : Ahead(b)' <=> Ahead(b)
    BY <2>1 DEF Ahead
  <2>3. ASSUME RecordCompletedRun(a) \/ RecordFailedRun(a) PROVE VInv'
    <3>1. PICK w \in {"completed", "failed"} : Audit(Record("run", a, w))
      BY <2>3 DEF RecordCompletedRun, RecordFailedRun, RecordAgentRun
    <3>2. from \in Undecided /\ to \notin Undecided
      BY <1>6, <2>3 DEF RecordCompletedRun, RecordFailedRun, RecordAgentRun, At, TInv, TypeOK
    <3>3. ~Ahead(a)
      <4>1. stage[a] # "off" /\ a # "load_incident"
        BY <1>6, <3>2 DEF Agents, Sources
      <4>2. IF a \in Sources THEN next = "evidence" ELSE next = a
        BY <4>1 DEF TInv, TypeOK
      <4> QED  BY <1>0, <4>1, <4>2 DEF Ahead
    <3>4. \A b, x, c : Verdict(b, x, c) \in trail' =>
             Verdict(b, x, c) \in trail \/ (b = a /\ x = w /\ c = calls)
      BY <3>1, RunAddsOneVerdict
    <3>5. NoVerdictAhead'
      <4> SUFFICES ASSUME NEW b \in Agents, NEW x \in {"completed", "failed"}
                   PROVE  /\ Ahead(b)' \/ stage'[b] \in Undecided
                                => Verdict(b, x, calls') \notin trail'
                          /\ \A c \in Nat : c > calls' => Verdict(b, x, c) \notin trail'
        BY <2>1
      <4>1. calls' = calls
        BY <2>1
      <4>2. \A c \in Nat : c > calls => Verdict(b, x, c) \notin trail'
        BY <1>0, <3>4
      <4>3. CASE b = a
        BY <1>6, <2>2, <3>2, <3>3, <4>1, <4>2, <4>3
      <4>4. CASE b # a
        <5>1. stage'[b] = stage[b]
          BY <1>6, <4>4
        <5>2. Ahead(b)' \/ stage'[b] \in Undecided => Verdict(b, x, calls) \notin trail
          BY <2>2, <5>1
        <5> QED  BY <3>4, <4>1, <4>2, <4>4, <5>2
      <4> QED  BY <4>3, <4>4
    <3>6. NeverBoth'
      <4>1. \A y \in {"completed", "failed"} : Verdict(a, y, calls) \notin trail
        BY <1>6, <3>2
      <4> SUFFICES ASSUME NEW b \in Agents, NEW c \in Nat
                   PROVE  Verdict(b, "completed", c) \notin trail' \/ Verdict(b, "failed", c) \notin trail'
        OBVIOUS
      <4>2. Verdict(b, "completed", c) \notin trail \/ Verdict(b, "failed", c) \notin trail
        OBVIOUS
      <4> QED  BY <3>4, <4>1, <4>2
    <3> QED  BY <3>5, <3>6
  <2>4. ASSUME ~(RecordCompletedRun(a) \/ RecordFailedRun(a)) PROVE VInv'
    <3>1. \A b, w, c : Verdict(b, w, c) \in trail' => Verdict(b, w, c) \in trail
      <4>1. CASE trail' = trail
        BY <4>1
      <4>2. CASE \E y : Audit(Record("event", a, y))
        BY <4>2, EventKeepsVerdicts DEF Audit, Stored, Lost
      <4> QED
        BY <1>6, <2>4, <4>1, <4>2 DEF RunAgent, ThinkFails, RecordStarted, Think, RecordCompleted,
          RecordFailed, RecordEvent, Query, QueryFails, Deliver, SaveAnalysis, SaveAnalysisFails
    <3>2. to \in Undecided => from \in Undecided
      BY <1>6, <2>4 DEF RunAgent, ThinkFails, RecordStarted, Think, RecordCompleted, RecordFailed,
         RecordEvent, Query, QueryFails, Deliver, SaveAnalysis, SaveAnalysisFails, At, TInv, TypeOK
    <3> QED  BY <1>3, <1>6, <2>1, <2>2, <3>1, <3>2
  <2> QED  BY <2>3, <2>4
<1>7. CASE Next
  BY <1>2, <1>4, <1>5, <1>6, <1>7, StageAfter
<1> QED  BY <1>1, <1>7

(* No execution of an agent is recorded as completed and as failed         *)
(* (_run_agent, whose try covers the records of the success).              *)
THEOREM OneVerdictOnly == Spec => []OneVerdict
<1>1. Init => VInv
  BY DEF Init, VInv, NoVerdictAhead, NeverBoth
<1>2. TInv /\ VInv => OneVerdict
  <2> SUFFICES ASSUME TInv, VInv, NEW a \in Agents, NEW c \in 1 .. calls,
                      {[table |-> "run", actor |-> a, what |-> w, call |-> c] :
                          w \in {"completed", "failed"}} \subseteq trail
               PROVE  FALSE
    BY DEF OneVerdict
  <2>1. Verdict(a, "completed", c) \in trail /\ Verdict(a, "failed", c) \in trail /\ c \in Nat
    BY DEF Verdict, TInv, TypeOK
  <2> QED  BY <2>1 DEF VInv, NeverBoth
<1> QED  BY <1>1, <1>2, VInvNext, TInvInit, TInvNext, PTL DEF Spec

-----------------------------------------------------------------------------
(* What branches left behind is of the run the thread is in, and a plan    *)
(* that was saved is the one the thread will go on with.                   *)
PendingFresh == \A s \in Sources : pending[s] # None => pending[s].round = round
SavedIsOurs == stage["planner"] = "saved" => analysis = SavedBy(output["planner"])

FInv == PendingFresh /\ SavedIsOurs /\ FreshAnalysis /\ StrongEvidenceHasPlan

LEMMA FInvNext == TInv /\ FInv /\ [Next]_vars => FInv'
<1> SUFFICES ASSUME TInv, FInv, [Next]_vars PROVE FInv'
  OBVIOUS
<1>0. "planner" \in Agents /\ "planner" \notin Sources /\ Sources \subseteq Agents
  BY DEF Agents, Sources
<1> USE DEF FInv, PendingFresh, SavedIsOurs, FreshAnalysis, StrongEvidenceHasPlan
<1>1. CASE UNCHANGED vars
  BY <1>1 DEF vars, threadVars, SavedBy, WithGuardrail, Fallback
(* The thread is not planned after the step and nothing was saved.         *)
<1>2. ASSUME next' \notin {"planner", "planned"}, PendingFresh', stage'["planner"] # "saved"
      PROVE  FInv'
  BY <1>2
<1>3. ASSUME StartRun, stage'["planner"] # "saved" PROVE FInv'
  BY <1>2, <1>3 DEF StartRun, Begin, Nothing
<1>4. ASSUME Resume, stage'["planner"] # "saved" PROVE FInv'
  BY <1>4 DEF Resume, Begin, Unfinished
<1>5. ASSUME LoadIncident \/ Triaged, stage'["planner"] # "saved" PROVE FInv'
  BY <1>2, <1>5 DEF LoadIncident, Triaged, GoOn
<1>6. ASSUME Join, stage'["planner"] # "saved" PROVE FInv'
  <2>1. \A s \in Sources : pending[s] # None
    BY <1>6 DEF Join, TInv, Shape
  <2> QED  BY <1>6, <2>1 DEF Join, GoOn, Nothing
<1>7. ASSUME Planned, stage'["planner"] # "saved" PROVE FInv'
  <2>1. /\ UNCHANGED <<channels, pending, analysis, round>> /\ next = "planner"
        /\ plan' = WithGuardrail(output["planner"])
        /\ analysis = SavedBy(output["planner"])
    BY <1>0, <1>7 DEF Planned, TInv, TypeOK
  <2>2. Fallback' = Fallback
    BY <2>1 DEF Fallback
  <2>3. StrongEvidenceHasPlan'
    BY <2>1, <2>2 DEF WithGuardrail
  <2>4. FreshAnalysis'
    BY <2>1 DEF SavedBy
  <2> QED  BY <1>7, <2>1, <2>3, <2>4
<1>8. ASSUME NodeFails \/ LoadIncidentFails \/ Restart, stage'["planner"] # "saved" PROVE FInv'
  <2>1. active => next # "planned"
    BY DEF TInv, Shape, Unfinished
  <2>2. CASE ThreadForgotten /\ Restart
    BY <1>2, <1>8, <2>2 DEF ThreadForgotten, Nothing
  <2>3. CASE UNCHANGED <<next, channels, plan>> /\ ~ThreadForgotten
    <3>1. PendingFresh'
      BY <1>8, <2>3 DEF NodeFails, LoadIncidentFails, Restart, ThreadKept, threadVars
    <3>2. Fallback' = Fallback
      BY <2>3 DEF Fallback
    <3>3. UNCHANGED <<analysis, round>>
      BY <1>8 DEF NodeFails, LoadIncidentFails, Restart
    <3> QED  BY <1>8, <2>3, <3>1, <3>2, <3>3
  <2>4. CASE UNCHANGED threadVars
    <3>1. Fallback' = Fallback
      BY <2>4 DEF Fallback, threadVars
    <3>2. UNCHANGED <<analysis, round>>
      BY <1>8 DEF NodeFails, LoadIncidentFails, Restart
    <3> QED  BY <1>8, <2>4, <3>1, <3>2 DEF threadVars
  <2> QED  BY <1>8, <2>2, <2>3, <2>4 DEF NodeFails, LoadIncidentFails, Restart, ThreadKept
<1>9. ASSUME NEW a \in Agents, NEW from \in Stages, NEW to \in Stages,
             stage[a] = from, stage'[a] = to, \A b \in Agents \ {a} : stage'[b] = stage[b],
             \/ RunAgent(a) \/ ThinkFails(a)
             \/ a \in Sources /\ (Query(a) \/ QueryFails(a) \/ Deliver(a))
             \/ a = "planner" /\ (SaveAnalysis \/ SaveAnalysisFails)
      PROVE  FInv'
  <2>1. UNCHANGED <<next, channels, plan, round>>
    BY <1>9 DEF RunAgent, ThinkFails, RecordStarted, Think, RecordCompletedRun, RecordCompleted,
         RecordFailedRun, RecordFailed, RecordEvent, RecordAgentRun, Query, QueryFails, Deliver,
         SaveAnalysis, SaveAnalysisFails, besideAudit, threadVars
  <2>2. /\ Fallback' = Fallback
        /\ UNCHANGED output => UNCHANGED SavedBy(output["planner"])
    BY <2>1 DEF Fallback, SavedBy, WithGuardrail
  <2>3. PendingFresh'
    <3>1. CASE a \in Sources /\ Deliver(a)
      BY <2>1, <3>1 DEF Deliver, TInv, TypeOK
    <3>2. CASE pending' = pending
      BY <2>1, <3>2
    <3> QED
      BY <1>9, <3>1, <3>2 DEF RunAgent, ThinkFails, RecordStarted, Think, RecordCompletedRun,
         RecordCompleted, RecordFailedRun, RecordFailed, RecordEvent, RecordAgentRun, Query,
         QueryFails, SaveAnalysis, SaveAnalysisFails, besideAudit, threadVars
  <2>4. CASE a = "planner" /\ SaveAnalysis
    <3>1. next = "planner" /\ analysis' = SavedBy(output["planner"]) /\ UNCHANGED output
      BY <1>0, <2>4 DEF SaveAnalysis, At, TInv, TypeOK
    <3> QED  BY <2>1, <2>2, <2>3, <3>1
  <2>5. CASE a = "planner" /\ SaveAnalysisFails
    <3>1. next = "planner" /\ stage'["planner"] = "failed"
      BY <1>0, <2>5 DEF SaveAnalysisFails, At, TInv, TypeOK
    <3> QED  BY <2>1, <2>2, <2>3, <3>1
  <2>6. CASE ~(a = "planner" /\ (SaveAnalysis \/ SaveAnalysisFails))
    <3>1. UNCHANGED analysis
      BY <1>9, <2>6 DEF RunAgent, ThinkFails, RecordStarted, Think, RecordCompletedRun,
         RecordCompleted, RecordFailedRun, RecordFailed, RecordEvent, RecordAgentRun, Query,
         QueryFails, Deliver, besideAudit
    <3>2. stage'["planner"] = "saved" => stage["planner"] = "saved" /\ UNCHANGED output
      BY <1>0, <1>9, <2>6 DEF RunAgent, ThinkFails, RecordStarted, Think, RecordCompletedRun,
         RecordCompleted, RecordFailedRun, RecordFailed, RecordEvent, RecordAgentRun, Query,
         QueryFails, Deliver, besideAudit, At, TInv, TypeOK
    <3> QED  BY <2>1, <2>2, <2>3, <3>1, <3>2
  <2> QED  BY <1>9, <2>4, <2>5, <2>6
<1>10. CASE Next
  BY <1>0, <1>3, <1>4, <1>5, <1>6, <1>7, <1>8, <1>9, <1>10, StageAfter
<1> QED  BY <1>1, <1>10

(* The planner's evidence is of its own run and complete, and incident-api *)
(* keeps what the thread goes on with (graph.py, collect_* and planner,    *)
(* with LangGraph's kept writes).                                          *)
THEOREM AnalysisIsFresh == Spec => []FreshAnalysis
<1>1. Init => FInv
  BY DEF Init, FInv, PendingFresh, SavedIsOurs, FreshAnalysis, StrongEvidenceHasPlan, Nothing,
         Idle, Agents
<1>2. FInv => FreshAnalysis
  BY DEF FInv
<1> QED  BY <1>1, <1>2, FInvNext, TInvInit, TInvNext, PTL DEF Spec

(* Strong evidence of a regression leads to a rollback plan, whatever the  *)
(* reasoner answered (planner_agent's guardrail).                          *)
THEOREM GuardrailHolds == Spec => []StrongEvidenceHasPlan
<1>1. Init => FInv
  BY DEF Init, FInv, PendingFresh, SavedIsOurs, FreshAnalysis, StrongEvidenceHasPlan, Nothing,
         Idle, Agents
<1>2. FInv => StrongEvidenceHasPlan
  BY DEF FInv
<1> QED  BY <1>1, <1>2, FInvNext, TInvInit, TInvNext, PTL DEF Spec

-----------------------------------------------------------------------------
(* An agent past its start, past its work and past its records has left    *)
(* the one, the two and the three records of this call.                    *)
Started(s, c) == [table |-> "event", actor |-> s, what |-> "agent_started", call |-> c]
Completed(s, c) == [table |-> "event", actor |-> s, what |-> "agent_completed", call |-> c]

LeavesItsTrace ==
    auditFaults = 0 =>
        \A s \in Sources :
            /\ stage[s] \in {"think", "completed_run", "completed_event", "returned"}
                  => Started(s, calls) \in trail
            /\ stage[s] \in {"completed_event", "returned"}
                  => Verdict(s, "completed", calls) \in trail
            /\ stage[s] = "returned" => Completed(s, calls) \in trail

AInv == LeavesItsTrace /\ EvidenceIsAudited

LEMMA TraceIs ==
    ASSUME NEW s, NEW c
    PROVE  TraceOf(s, c) = {Started(s, c), Verdict(s, "completed", c), Completed(s, c)}
BY DEF TraceOf, Started, Verdict, Completed

(* Records are never taken back, and a lost one is remembered.             *)
LEMMA TrailGrows ==
    ASSUME TInv, Next
    PROVE  /\ trail \subseteq trail'
           /\ auditFaults' = 0 => auditFaults = 0
<1>1. auditFaults \in Nat
  BY DEF TInv, TypeOK
<1> USE <1>1 DEF besideAudit, Audit, Stored, Lost, Fault
<1>2. CASE StartRun \/ Resume
  BY <1>2 DEF StartRun, Resume, Begin
<1>3. CASE LoadIncident \/ Triaged \/ Join
  BY <1>3 DEF LoadIncident, Triaged, Join, bounds
<1>4. CASE Planned \/ NodeFails \/ LoadIncidentFails \/ Restart
  BY <1>4 DEF Planned, NodeFails, LoadIncidentFails, Restart, bounds
<1>5. CASE \E a \in Agents : RunAgent(a) \/ ThinkFails(a)
  BY <1>5 DEF RunAgent, ThinkFails, RecordStarted, Think, RecordCompletedRun, RecordCompleted,
     RecordFailedRun, RecordFailed, RecordEvent, RecordAgentRun, bounds
<1>6. CASE \E s \in Sources : Query(s) \/ QueryFails(s) \/ Deliver(s)
  BY <1>6 DEF Query, QueryFails, Deliver, bounds
<1>7. CASE SaveAnalysis \/ SaveAnalysisFails
  BY <1>7 DEF SaveAnalysis, SaveAnalysisFails, bounds
<1> QED  BY <1>2, <1>3, <1>4, <1>5, <1>6, <1>7 DEF Next, Progress

LEMMA AInvNext == TInv /\ AInv /\ [Next]_vars => AInv'
<1> SUFFICES ASSUME TInv, AInv, [Next]_vars PROVE AInv'
  OBVIOUS
<1>1. CASE UNCHANGED vars
  BY <1>1 DEF vars, bounds, threadVars, AInv, LeavesItsTrace, EvidenceIsAudited
<1> SUFFICES ASSUME Next, auditFaults' = 0 PROVE AInv'
  BY <1>1 DEF AInv, LeavesItsTrace, EvidenceIsAudited
<1>2. trail \subseteq trail' /\ auditFaults = 0
  BY TrailGrows
<1>3. Sources \subseteq Agents /\ None \notin Evidence /\ "planner" \notin Sources
  BY NoneAssumption DEF Agents, Sources
<1>a. /\ \A s \in Sources : channels[s] # None => TraceOf(s, channels[s].call) \subseteq trail
      /\ \A s \in Sources : pending[s] # None => TraceOf(s, pending[s].call) \subseteq trail
      /\ LeavesItsTrace
  BY <1>2 DEF AInv, EvidenceIsAudited
(* Evidence the thread had before the step is accounted for.               *)
<1>4. ASSUME NEW s \in Sources, NEW e, e # None, e = channels[s] \/ e = pending[s]
      PROVE  TraceOf(s, e.call) \subseteq trail'
  BY <1>2, <1>4, <1>a
<1>5. ASSUME \A s \in Sources : stage'[s] \in {"off", "query", "start", "done"},
             \A s \in Sources : channels'[s] \in {None, channels[s], pending[s]},
             \A s \in Sources : pending'[s] \in {None, channels[s], pending[s]}
      PROVE  AInv'
  BY <1>4, <1>5 DEF AInv, LeavesItsTrace, EvidenceIsAudited
<1>6. ASSUME StartRun \/ Resume,
             \A a \in Agents : stage'[a] \in {"off", "query", "start", "done"}
      PROVE  AInv'
  BY <1>3, <1>5, <1>6 DEF StartRun, Resume, Begin, Nothing
<1>7. ASSUME LoadIncident \/ Triaged \/ Join,
             \A a \in Agents : stage'[a] \in {"off", "query", "start"}
      PROVE  AInv'
  BY <1>3, <1>5, <1>7 DEF LoadIncident, Triaged, Join, Nothing
<1>8. ASSUME Planned \/ NodeFails \/ LoadIncidentFails \/ Restart,
             \A a \in Agents : stage'[a] = "off"
      PROVE  AInv'
  BY <1>3, <1>5, <1>8 DEF Planned, NodeFails, LoadIncidentFails, Restart, ThreadKept,
     ThreadForgotten, Nothing, threadVars
<1>9. ASSUME NEW a \in Agents, NEW from \in Stages, NEW to \in Stages,
             stage[a] = from, stage'[a] = to, \A b \in Agents \ {a} : stage'[b] = stage[b],
             \/ RunAgent(a) \/ ThinkFails(a)
             \/ a \in Sources /\ (Query(a) \/ QueryFails(a) \/ Deliver(a))
             \/ a = "planner" /\ (SaveAnalysis \/ SaveAnalysisFails)
      PROVE  AInv'
  <2>1. UNCHANGED <<channels, calls>>
    BY <1>9 DEF RunAgent, ThinkFails, RecordStarted, Think, RecordCompletedRun, RecordCompleted,
         RecordFailedRun, RecordFailed, RecordEvent, RecordAgentRun, Query, QueryFails, Deliver,
         SaveAnalysis, SaveAnalysisFails, bounds, besideAudit, threadVars
  <2>2. LeavesItsTrace'
    <3> SUFFICES ASSUME NEW s \in Sources
                 PROVE  /\ stage'[s] \in {"think", "completed_run", "completed_event", "returned"}
                              => Started(s, calls) \in trail'
                        /\ stage'[s] \in {"completed_event", "returned"}
                              => Verdict(s, "completed", calls) \in trail'
                        /\ stage'[s] = "returned" => Completed(s, calls) \in trail'
      BY <2>1 DEF LeavesItsTrace
    <3>1. CASE s # a
      BY <1>2, <1>3, <1>9, <1>a, <3>1 DEF LeavesItsTrace
    <3>2. CASE s = a /\ RecordStarted(a)
      <4>1. stage'[s] = "think" /\ Started(s, calls) \in trail'
        BY <1>2, <1>3, <3>2 DEF RecordStarted, RecordEvent, Audit, Stored, Lost, At, Record,
           Started, TInv, TypeOK
      <4> QED  BY <4>1
    <3>3. CASE s = a /\ Think(a)
      <4>1. stage[s] = "think" /\ stage'[s] = "completed_run"
        BY <1>3, <3>3 DEF Think, At, TInv, TypeOK
      <4> QED  BY <1>2, <1>a, <4>1 DEF LeavesItsTrace
    <3>4. CASE s = a /\ RecordCompletedRun(a)
      <4>1. stage[s] = "completed_run" /\ stage'[s] = "completed_event"
        BY <1>3, <3>4 DEF RecordCompletedRun, RecordAgentRun, At, TInv, TypeOK
      <4>2. Verdict(s, "completed", calls) \in trail'
        BY <1>2, <3>4 DEF RecordCompletedRun, RecordAgentRun, Audit, Stored, Lost, Record,
           Verdict
      <4> QED  BY <1>2, <1>a, <4>1, <4>2 DEF LeavesItsTrace
    <3>5. CASE s = a /\ RecordCompleted(a)
      <4>1. stage[s] = "completed_event" /\ stage'[s] = "returned"
        BY <1>3, <3>5 DEF RecordCompleted, RecordEvent, At, TInv, TypeOK
      <4>2. Completed(s, calls) \in trail'
        BY <1>2, <3>5 DEF RecordCompleted, RecordEvent, Audit, Stored, Lost, Record, Completed
      <4> QED  BY <1>2, <1>a, <4>1, <4>2 DEF LeavesItsTrace
    <3>6. CASE s = a /\ ~(RecordStarted(a) \/ Think(a) \/ RecordCompletedRun(a) \/ RecordCompleted(a))
      <4>1. stage'[s] \in {"start", "failed_run", "failed_event", "failed", "done"}
        BY <1>3, <1>9, <3>6 DEF RunAgent, ThinkFails, RecordFailedRun, RecordFailed, RecordEvent,
           RecordAgentRun, Query, QueryFails, Deliver, At, TInv, TypeOK
      <4> QED  BY <4>1
    <3> QED  BY <3>1, <3>2, <3>3, <3>4, <3>5, <3>6
  <2>3. ASSUME NEW s \in Sources, pending'[s] # None
        PROVE  TraceOf(s, pending'[s].call) \subseteq trail'
    <3>1. CASE a = s /\ Deliver(a)
      <4>1. stage[s] = "returned" /\ pending'[s].call = calls
        BY <3>1 DEF Deliver, At, TInv, TypeOK
      <4>2. /\ Started(s, calls) \in trail /\ Verdict(s, "completed", calls) \in trail
            /\ Completed(s, calls) \in trail
        BY <1>2, <1>a, <4>1 DEF LeavesItsTrace
      <4> QED  BY <1>2, <4>1, <4>2, TraceIs
    <3>2. CASE a # s /\ a \in Sources /\ Deliver(a)
      <4>1. pending'[s] = pending[s]
        BY <3>2 DEF Deliver, TInv, TypeOK
      <4> QED  BY <1>4, <2>3, <4>1
    <3>3. CASE pending' = pending
      BY <1>4, <2>3, <3>3
    <3> QED
      BY <1>9, <3>1, <3>2, <3>3 DEF RunAgent, ThinkFails, RecordStarted, Think,
         RecordCompletedRun, RecordCompleted, RecordFailedRun, RecordFailed, RecordEvent,
         RecordAgentRun, Query, QueryFails, SaveAnalysis, SaveAnalysisFails, besideAudit,
         threadVars
  <2>4. EvidenceIsAudited'
    BY <1>4, <2>1, <2>3 DEF EvidenceIsAudited
  <2> QED  BY <2>2, <2>4 DEF AInv
<1> QED  BY <1>6, <1>7, <1>8, <1>9, StageAfter

(* While no audit write is lost, all evidence a thread holds has its       *)
(* agent run and its events, on however many calls it was gathered         *)
(* (_run_agent records before a branch can return).                        *)
THEOREM EvidenceHasItsTrace == Spec => []EvidenceIsAudited
<1>1. Init => AInv
  BY DEF Init, AInv, LeavesItsTrace, EvidenceIsAudited, Nothing, Idle, Agents
<1>2. AInv => EvidenceIsAudited
  BY DEF AInv
<1> QED  BY <1>1, <1>2, AInvNext, TInvInit, TInvNext, PTL DEF Spec

-----------------------------------------------------------------------------
(* The fan-out implements Investigation.  Beyond FInv this takes that what *)
(* a branch left behind is its own agent's.                                *)
OwnItems(s) == {BuildEvidence(s, f) : f \in Findings[s]}
PendingIsOwn == \A s \in Sources : pending[s] # None => pending[s].items \in OwnItems(s)

LEMMA PendingIsOwnNext == TInv /\ PendingIsOwn /\ [Next]_vars => PendingIsOwn'
<1> SUFFICES ASSUME TInv, PendingIsOwn, [Next]_vars PROVE PendingIsOwn'
  OBVIOUS
<1> USE DEF PendingIsOwn, OwnItems
<1>1. ASSUME \A s \in Sources : pending'[s] \in {pending[s], None} PROVE PendingIsOwn'
  BY <1>1
<1>2. CASE UNCHANGED vars
  BY <1>1, <1>2 DEF vars, threadVars
<1>3. CASE StartRun \/ Resume
  BY <1>1, <1>3 DEF StartRun, Resume, Begin, Nothing
<1>4. CASE LoadIncident \/ Triaged \/ Join
  BY <1>1, <1>4 DEF LoadIncident, Triaged, Join, Nothing
<1>5. CASE Planned \/ NodeFails \/ LoadIncidentFails \/ Restart
  BY <1>1, <1>5 DEF Planned, NodeFails, LoadIncidentFails, Restart, ThreadKept, ThreadForgotten,
     threadVars, Nothing
<1>6. ASSUME NEW s \in Sources, Deliver(s) PROVE PendingIsOwn'
  <2>1. s \in Agents /\ stage[s] = "returned"
    BY <1>6 DEF Deliver, At, Agents
  <2>2. output[s] \in Answers(s)
    BY <2>1 DEF TInv, Shape, Answered
  <2>3. output[s] \in Findings[s]
    BY <2>2 DEF Answers, Sources
  <2> QED  BY <1>6, <2>3 DEF Deliver, TInv, TypeOK
<1>7. ASSUME NEW a \in Agents,
             \/ RunAgent(a) \/ ThinkFails(a)
             \/ a \in Sources /\ (Query(a) \/ QueryFails(a))
             \/ a = "planner" /\ (SaveAnalysis \/ SaveAnalysisFails)
      PROVE  PendingIsOwn'
  BY <1>1, <1>7 DEF RunAgent, ThinkFails, RecordStarted, Think, RecordCompletedRun,
     RecordCompleted, RecordFailedRun, RecordFailed, RecordEvent, RecordAgentRun, Query,
     QueryFails, SaveAnalysis, SaveAnalysisFails, besideAudit, threadVars
<1> QED
  BY <1>2, <1>3, <1>4, <1>5, <1>6, <1>7 DEF Next, Progress, Agents

RInv == TInv /\ FInv /\ PendingIsOwn

(* What the planner makes of an answer is a plan the abstract              *)
(* investigation allows.                                                   *)
LEMMA GuardrailIsSound ==
    ASSUME NEW o \in PlannerAnswers
    PROVE  WithGuardrail(o) \in Promise!Plans
<1>1. Promise!Deterministic = Fallback
  BY DEF Promise!Deterministic, Fallback
<1> QED  BY <1>1 DEF WithGuardrail, Promise!Plans

(* A step that shows nothing of itself.                                    *)
LEMMA Hidden ==
    ASSUME UNCHANGED <<active, next, channels, plan, analysis, round>>
    PROVE  [Promise!Next]_Promise!vars
BY DEF Promise!vars

LEMMA CallsShow ==
    ASSUME RInv, StartRun \/ Resume
    PROVE  Promise!Next
<1>1. CASE StartRun
  <2>1. round' > round
    BY <1>1 DEF StartRun, Begin, RInv, TInv, TypeOK
  <2>2. Promise!Run
    BY <1>1, <2>1 DEF StartRun, Begin, Promise!Run
  <2> QED  BY <2>2 DEF Promise!Next
<1>2. CASE Resume
  <2>1. Promise!Resume
    BY <1>2 DEF Resume, Begin, Promise!Resume, Promise!Resumable, Unfinished
  <2> QED  BY <2>1 DEF Promise!Next
<1> QED  BY <1>1, <1>2

LEMMA NodesShow ==
    ASSUME RInv, LoadIncident \/ Triaged \/ Join
    PROVE  Promise!Next
<1>0. \A a \in Agents : stage[a] # "off" => active
  BY DEF RInv, TInv, TypeOK, Idle
<1>1. CASE LoadIncident
  <2>1. Promise!Load
    BY <1>1 DEF LoadIncident, GoOn, Promise!Load
  <2> QED  BY <2>1 DEF Promise!Next
<1>2. CASE Triaged
  <2>1. active /\ next = "triage"
    BY <1>0, <1>2 DEF Triaged, RInv, TInv, TypeOK, Agents, Sources
  <2>2. Promise!Triage
    BY <1>2, <2>1 DEF Triaged, GoOn, Promise!Triage
  <2> QED  BY <2>2 DEF Promise!Next
<1>3. CASE Join
  <2>1. /\ "change" \in Sources /\ Sources \subseteq Agents
        /\ stage["change"] = "done"
    BY <1>3 DEF Join, Sources, Agents
  <2>2. active /\ next = "evidence"
    BY <1>0, <2>1 DEF RInv, TInv, TypeOK
  <2>3. ASSUME NEW s \in Sources PROVE pending[s] \in Promise!OfThisRun(s)
    <3>1. pending[s] \in Evidence
      BY <1>3, <2>1 DEF Join, RInv, TInv, TypeOK, Shape
    <3>2. pending[s].round = round /\ pending[s].items \in OwnItems(s)
      BY <3>1, NoneAssumption DEF RInv, FInv, PendingFresh, PendingIsOwn
    <3>3. pending[s] = [round |-> pending[s].round, call |-> pending[s].call,
                        items |-> pending[s].items] /\ pending[s].call \in Nat
      BY <3>1, BoundAssumption DEF Evidence
    <3> QED
      BY <3>2, <3>3 DEF Promise!OfThisRun, OwnItems
  <2>4. DOMAIN pending = Sources
    BY DEF RInv, TInv, TypeOK
  <2>5. Promise!Gather
    BY <1>3, <2>2, <2>3, <2>4 DEF Join, GoOn, Promise!Gather
  <2> QED  BY <2>5 DEF Promise!Next
<1> QED  BY <1>1, <1>2, <1>3

LEMMA EndsShow ==
    ASSUME RInv, Planned \/ NodeFails \/ LoadIncidentFails \/ Restart
    PROVE  Promise!Next
<1>0. \A a \in Agents : stage[a] # "off" => active
  BY DEF RInv, TInv, TypeOK, Idle
<1>1. CASE Planned
  <2>1. "planner" \in Agents /\ "planner" \notin Sources /\ stage["planner"] = "saved"
    BY <1>1 DEF Planned, Agents, Sources
  <2>2. active /\ next = "planner" /\ analysis = SavedBy(output["planner"])
    BY <1>0, <2>1 DEF RInv, FInv, SavedIsOurs, TInv, TypeOK
  <2>3. Promise!GoOn
    BY <1>1, <2>2 DEF Planned, End, SavedBy, Promise!GoOn
  <2> QED  BY <2>3 DEF Promise!Next
<1>2. CASE NodeFails \/ LoadIncidentFails
  <2>1. active /\ ~active' /\ UNCHANGED <<next, channels, plan, analysis, round>>
    BY <1>0, <1>2 DEF NodeFails, LoadIncidentFails, End, threadVars
  <2>2. Promise!Stop
    BY <2>1 DEF Promise!Stop
  <2> QED  BY <2>2 DEF Promise!Next
<1>3. CASE Restart
  <2>1. active /\ ~active' /\ UNCHANGED <<analysis, round>>
    BY <1>3 DEF Restart, End
  <2>2. CASE ThreadKept
    <3>1. Promise!Stop
      BY <2>1, <2>2 DEF ThreadKept, Promise!Stop
    <3> QED  BY <3>1 DEF Promise!Next
  <2>3. CASE ThreadForgotten
    <3>1. Promise!Forget
      BY <2>1, <2>3 DEF ThreadForgotten, Promise!Forget, Nothing, Promise!NoEvidence
    <3> QED  BY <3>1 DEF Promise!Next
  <2> QED  BY <1>3, <2>2, <2>3 DEF Restart
<1> QED  BY <1>1, <1>2, <1>3

LEMMA SavesShow ==
    ASSUME RInv, SaveAnalysis \/ SaveAnalysisFails
    PROVE  [Promise!Next]_Promise!vars
<1>1. "planner" \in Agents /\ "planner" \notin Sources /\ stage["planner"] = "returned"
  BY DEF SaveAnalysis, SaveAnalysisFails, At, Agents, Sources
<1>2. active /\ next = "planner" /\ output["planner"] \in PlannerAnswers
  BY <1>1 DEF RInv, TInv, TypeOK, Idle, Shape, Answered, Answers
<1>3. UNCHANGED <<active, next, channels, plan, round>>
  BY DEF SaveAnalysis, SaveAnalysisFails, threadVars
<1>4. CASE analysis' = analysis
  BY <1>3, <1>4, Hidden
<1>5. CASE analysis' = SavedBy(output["planner"])
  <2>1. Promise!Save
    BY <1>2, <1>3, <1>5, GuardrailIsSound DEF SavedBy, Promise!Save
  <2> QED  BY <2>1 DEF Promise!Next
<1> QED  BY <1>4, <1>5 DEF SaveAnalysis, SaveAnalysisFails

LEMMA StepShows == RInv /\ [Next]_vars => [Promise!Next]_Promise!vars
<1> SUFFICES ASSUME RInv, [Next]_vars PROVE [Promise!Next]_Promise!vars
  OBVIOUS
<1>1. CASE UNCHANGED vars
  BY <1>1, Hidden DEF vars, threadVars
<1>2. CASE StartRun \/ Resume
  BY <1>2, CallsShow
<1>3. CASE LoadIncident \/ Triaged \/ Join
  BY <1>3, NodesShow
<1>4. CASE Planned \/ NodeFails \/ LoadIncidentFails \/ Restart
  BY <1>4, EndsShow
<1>5. CASE SaveAnalysis \/ SaveAnalysisFails
  BY <1>5, SavesShow
<1>6. ASSUME NEW s \in Sources, Query(s) \/ QueryFails(s) \/ Deliver(s)
      PROVE  [Promise!Next]_Promise!vars
  BY <1>6, Hidden DEF Query, QueryFails, Deliver, threadVars
<1>7. ASSUME NEW a \in Agents, RunAgent(a) \/ ThinkFails(a)
      PROVE  [Promise!Next]_Promise!vars
  BY <1>7, Hidden DEF RunAgent, ThinkFails, RecordStarted, Think, RecordCompletedRun,
     RecordCompleted, RecordFailedRun, RecordFailed, RecordEvent, RecordAgentRun, besideAudit,
     threadVars
<1> QED  BY <1>1, <1>2, <1>3, <1>4, <1>5, <1>6, <1>7 DEF Next, Progress

(* The fan-out is the one step Workflow takes it for, for any findings and *)
(* answers, any number of calls, failures, restarts and lost writes.       *)
THEOREM FanOutIsOneStep == Spec => ImplementsInvestigation
<1>1. Init => FInv /\ PendingIsOwn /\ Promise!Init
  BY DEF Init, FInv, PendingFresh, SavedIsOurs, FreshAnalysis, StrongEvidenceHasPlan, Nothing,
         Idle, Agents, PendingIsOwn, Promise!Init, Promise!NoEvidence
<1>2. RInv /\ [Next]_vars => RInv'
  BY TInvNext, FInvNext, PendingIsOwnNext DEF RInv
<1>3. Init => RInv /\ Promise!Init
  BY <1>1, TInvInit DEF RInv
<1> QED  BY <1>2, <1>3, StepShows, PTL DEF Spec, ImplementsInvestigation, Promise!Spec
-----------------------------------------------------------------------------
(* Progress, without fairness: what is left to do only ever gets less.     *)
LEMMA AgentsLeft == \A s \in Stages : AgentLeft[s] \in 0 .. 7
BY DEF AgentLeft, Stages

(* A step of one agent.                                                    *)
LEMMA OneAgentNearer ==
    ASSUME TInv, NEW a \in Agents, NEW from \in Stages, NEW to \in Stages,
           stage[a] = from, stage'[a] = to, \A b \in Agents \ {a} : stage'[b] = stage[b],
           AgentLeft[to] < AgentLeft[from], next' = next, active
    PROVE  StepsLeft' < StepsLeft
<1> DEFINE Was(b) == AgentLeft[stage[b]]
           Is(b) == AgentLeft[stage'[b]]
<1>1. \A b \in Agents : Was(b) \in 0 .. 7
  BY AgentsLeft DEF TInv, TypeOK
<1>2. Is(a) < Was(a) /\ Is(a) \in 0 .. 7 /\ \A b \in Agents \ {a} : Is(b) = Was(b)
  BY AgentsLeft
<1>3. NodesAfter[next] \in Nat
  BY DEF TInv, Shape, NodesAfter, Unfinished
<1>4. /\ StepsLeft = NodesAfter[next] + Was("triage") + Was("change") + Was("log")
                        + Was("dependency") + Was("planner")
      /\ StepsLeft' = NodesAfter[next] + Is("triage") + Is("change") + Is("log")
                        + Is("dependency") + Is("planner")
  BY DEF StepsLeft
<1> HIDE DEF Was, Is
<1>5. \A b \in Agents : Was(b) \in Nat /\ Is(b) \in Nat /\ (b # a => Is(b) = Was(b))
  BY <1>1, <1>2
<1>6. /\ {"triage", "change", "log", "dependency", "planner"} \subseteq Agents
      /\ a \in {"triage", "change", "log", "dependency", "planner"}
  BY DEF Agents, Sources
<1>7. /\ Was("triage") \in Nat /\ Was("change") \in Nat /\ Was("log") \in Nat
      /\ Was("dependency") \in Nat /\ Was("planner") \in Nat
  BY <1>5, <1>6
<1>8. CASE a = "triage"
  BY <1>2, <1>3, <1>4, <1>5, <1>6, <1>7, <1>8
<1>9. CASE a = "change"
  BY <1>2, <1>3, <1>4, <1>5, <1>6, <1>7, <1>9
<1>10. CASE a = "log"
  BY <1>2, <1>3, <1>4, <1>5, <1>6, <1>7, <1>10
<1>11. CASE a = "dependency"
  BY <1>2, <1>3, <1>4, <1>5, <1>6, <1>7, <1>11
<1>12. CASE a = "planner"
  BY <1>2, <1>3, <1>4, <1>5, <1>6, <1>7, <1>12
<1> QED  BY <1>6, <1>8, <1>9, <1>10, <1>11, <1>12

(* The agents of another node than the thread's have nothing left.         *)
LEMMA OthersAreOff ==
    ASSUME TInv, NEW a \in Agents, IF a \in Sources THEN next # "evidence" ELSE next # a
    PROVE  AgentLeft[stage[a]] = 0
BY DEF TInv, TypeOK, AgentLeft

LEMMA NextNodeIsNearer ==
    ASSUME TInv, LoadIncident \/ Triaged \/ Join
    PROVE  StepsLeft' < StepsLeft
<1> USE DEF Agents, Sources
<1>1. CASE LoadIncident
  <2>1. next = "load_incident"
    BY <1>1 DEF LoadIncident
  <2>2. StepsLeft = 34
    BY <2>1, OthersAreOff DEF StepsLeft, NodesAfter
  <2>3. next' = "triage" /\ stage' = Entering("triage", Nothing)
    BY <1>1 DEF LoadIncident, GoOn
  <2>4. StepsLeft' = 33
    BY <2>3 DEF StepsLeft, NodesAfter, AgentLeft, Entering
  <2> QED  BY <2>2, <2>4
<1>2. CASE Triaged
  <2>1. stage["triage"] = "returned" /\ next = "triage"
    BY <1>2 DEF Triaged, TInv, TypeOK
  <2>2. StepsLeft = 29
    BY <2>1, OthersAreOff DEF StepsLeft, NodesAfter, AgentLeft
  <2>3. next' = "evidence" /\ stage' = Entering("evidence", Nothing)
    BY <1>2 DEF Triaged, GoOn
  <2>4. StepsLeft' = 28
    BY <2>3 DEF StepsLeft, NodesAfter, AgentLeft, Entering, Nothing
  <2> QED  BY <2>2, <2>4
<1>3. CASE Join
  <2>1. (\A s \in Sources : stage[s] = "done") /\ next = "evidence"
    BY <1>3 DEF Join, TInv, TypeOK
  <2>2. StepsLeft = 7
    BY <2>1, OthersAreOff DEF StepsLeft, NodesAfter, AgentLeft
  <2>3. next' = "planner" /\ stage' = Entering("planner", Nothing)
    BY <1>3 DEF Join, GoOn
  <2>4. StepsLeft' = 6
    BY <2>3 DEF StepsLeft, NodesAfter, AgentLeft, Entering
  <2> QED  BY <2>2, <2>4
<1> QED  BY <1>1, <1>2, <1>3

LEMMA StepIsNearer == TInv /\ [Next]_vars => [active => ~active' \/ StepsLeft' < StepsLeft]_vars
<1> SUFFICES ASSUME TInv, Next, active PROVE ~active' \/ StepsLeft' < StepsLeft
  OBVIOUS
<1>1. ~StartRun /\ ~Resume
  BY DEF StartRun, Resume, Begin
<1>2. ASSUME LoadIncident \/ Triaged \/ Join PROVE StepsLeft' < StepsLeft
  BY <1>2, NextNodeIsNearer
<1>3. ASSUME Planned \/ NodeFails \/ LoadIncidentFails \/ Restart PROVE ~active'
  BY <1>3 DEF Planned, NodeFails, LoadIncidentFails, Restart, End
<1>4. ASSUME NEW a \in Agents, NEW from \in Stages, NEW to \in Stages,
             stage[a] = from, stage'[a] = to, \A b \in Agents \ {a} : stage'[b] = stage[b],
             \/ RunAgent(a) \/ ThinkFails(a)
             \/ a \in Sources /\ (Query(a) \/ QueryFails(a) \/ Deliver(a))
             \/ a = "planner" /\ (SaveAnalysis \/ SaveAnalysisFails)
      PROVE  StepsLeft' < StepsLeft
  <2>1. next' = next
    BY <1>4 DEF RunAgent, ThinkFails, RecordStarted, Think, RecordCompletedRun, RecordCompleted,
         RecordFailedRun, RecordFailed, RecordEvent, RecordAgentRun, Query, QueryFails, Deliver,
         SaveAnalysis, SaveAnalysisFails, threadVars, besideAudit
  <2>2. <<from, to>> \in {<<"query", "start">>, <<"query", "failed">>, <<"start", "think">>,
            <<"think", "completed_run">>, <<"think", "failed_run">>,
            <<"completed_run", "completed_event">>, <<"completed_event", "returned">>,
            <<"failed_run", "failed_event">>, <<"failed_event", "failed">>,
            <<"returned", "done">>, <<"returned", "saved">>, <<"returned", "failed">>}
    BY <1>4 DEF RunAgent, ThinkFails, RecordStarted, Think, RecordCompletedRun, RecordCompleted,
         RecordFailedRun, RecordFailed, RecordEvent, RecordAgentRun, Query, QueryFails, Deliver,
         SaveAnalysis, SaveAnalysisFails, At, TInv, TypeOK
  <2>3. AgentLeft[to] < AgentLeft[from]
    BY <2>2 DEF AgentLeft
  <2> QED  BY <1>4, <2>1, <2>3, OneAgentNearer
<1> QED  BY <1>1, <1>2, <1>3, <1>4, StageAfter

(* Every step of a call ends it or brings it nearer to its end, whatever   *)
(* fails, is cancelled or is lost (_run_agent, the edges of graph.py).     *)
THEOREM InvestigationsAlwaysRunDown == Spec => InvestigationsRunDown
<1>1. Init => TInv
  BY TInvInit
<1>2. TInv /\ [Next]_vars => TInv'
  BY TInvNext
<1> QED  BY <1>1, <1>2, StepIsNearer, PTL DEF Spec, InvestigationsRunDown
=============================================================================
