------------------------ MODULE MemoryGatewayProofs ------------------------
(***************************************************************************)
(* Proofs about MemoryGateway, for any gateways, workflows, incidents,     *)
(* services and playbook keys and any number of restarts and lost answers. *)
(***************************************************************************)
EXTENDS MemoryGateway, FiniteSetTheorems, TLAPS

(* The incident's scenario recovers by a rollback.                         *)
Recovers(i) == ScenarioOf(i).after = "recovered"

(* A workflow that got past its queries has a playbook that exists, and a  *)
(* plan or a receipt only if the playbook recovers by a rollback.          *)
PlanInv ==
    \A w \in Workflows :
        /\ at[w] \in {"rollback", "verify", "done"} => Known(incident[w])
        /\ at[w] = "rollback" => target[w] # None /\ Recovers(incident[w])
        /\ at[w] \in {"verify", "done"} => (held[w] # None <=> Recovers(incident[w]))
        /\ at[w] \in {"queries", "rollback", "failed"} => held[w] = None
        /\ held[w] # None => target[w] # None
        /\ verdict[w] # None => at[w] = "done"

(* No process issues a receipt id twice in one life.                       *)
IdsDiffer ==
    \A g \in Gateways, i, j \in Incidents, t, u \in Targets :
        receipts[g][i][t] # None =>
            /\ receipts[g][i][t].id <= issued[g]
            /\ receipts[g][j][u] # None /\ receipts[g][i][t].id = receipts[g][j][u].id
                    => i = j /\ t = u

(* The life number of a receipt that was handed out has been reached, and  *)
(* as long as it has not passed the process knows the receipt.             *)
HeldIsKnown ==
    \A w \in Workflows :
        held[w] # None =>
            /\ held[w].from.life <= life[held[w].from.process]
            /\ \A g \in Gateways :
                held[w].from = Here(g) =>
                    /\ receiptKey[g][incident[w]] # None
                    /\ receipts[g][incident[w]][target[w]] # None
                    /\ receipts[g][incident[w]][target[w]].id = held[w].id
                    /\ receipts[g][incident[w]][target[w]].executor = held[w].executor

(* A process with a receipt for an incident knows which was the last.      *)
KeyIsKnown ==
    \A g \in Gateways, i \in Incidents, t \in Targets :
        receipts[g][i][t] # None => receiptKey[g][i] # None

MInv ==
    /\ TypeOK /\ KeyIsKnown /\ PlanInv /\ IdsDiffer /\ HeldIsKnown
    /\ OneReceiptPerLife /\ RecoversAsPlanned

---------------------------------------------------------------------------
(* What BuildEvidence makes of one or two items keeps their signals.       *)
LEMMA SignalsOfOne ==
    ASSUME NEW s \in Sources, NEW a
    PROVE  SignalsOf(BuildEvidence(s, <<a>>)) = a
<1>1. Len(<<a>>) = 1
  OBVIOUS
<1> DEFINE e == [i \in 1 .. 1 |-> [id |-> <<Prefix[s], i>>, signals |-> <<a>>[i]]]
<1>2. BuildEvidence(s, <<a>>) = e
  BY <1>1 DEF BuildEvidence
<1>3. Len(e) = 1
  OBVIOUS
<1>4. e[1].signals = a
  OBVIOUS
<1> HIDE DEF e
<1>5. 1 .. Len(e) = {1}
  BY <1>3
<1> QED
  BY <1>2, <1>4, <1>5 DEF SignalsOf

LEMMA SignalsOfTwo ==
    ASSUME NEW s \in Sources, NEW a, NEW b
    PROVE  SignalsOf(BuildEvidence(s, <<a, b>>)) = a \cup b
<1>1. Len(<<a, b>>) = 2
  OBVIOUS
<1> DEFINE e == [i \in 1 .. 2 |-> [id |-> <<Prefix[s], i>>, signals |-> <<a, b>>[i]]]
<1>2. BuildEvidence(s, <<a, b>>) = e
  BY <1>1 DEF BuildEvidence
<1>3. Len(e) = 2
  OBVIOUS
<1>4. e[1].signals = a /\ e[2].signals = b
  OBVIOUS
<1> HIDE DEF e
<1>5. 1 .. Len(e) = {1, 2}
  BY <1>3
<1> QED
  BY <1>2, <1>4, <1>5 DEF SignalsOf

LEMMA FiveReleaseSignals == Cardinality(ReleaseSignals) = 5
<1> DEFINE a == {"recent_release"}
           b == a \cup {"config_change"}
           c == b \cup {"db_auth_errors"}
           d == c \cup {"local_blast_radius"}
           e == d \cup {"dependency_healthy"}
<1>1. IsFiniteSet(a) /\ Cardinality(a) = 1
  BY FS_Singleton
<1>2. IsFiniteSet(b) /\ Cardinality(b) = 2
  BY <1>1, FS_AddElement, "config_change" \notin a
<1>3. IsFiniteSet(c) /\ Cardinality(c) = 3
  BY <1>2, FS_AddElement, "db_auth_errors" \notin b
<1>4. IsFiniteSet(d) /\ Cardinality(d) = 4
  BY <1>3, FS_AddElement, "local_blast_radius" \notin c
<1>5. Cardinality(e) = 5
  BY <1>4, FS_AddElement, "dependency_healthy" \notin d
<1>6. e = ReleaseSignals
  BY DEF ReleaseSignals
<1> QED
  BY <1>5, <1>6

(* The evidence of a release regression carries all its signals and none   *)
(* of the other kind: a rollback is planned.                               *)
LEMMA ReleaseIsRolledBack ==
    ASSUME NEW p \in Playbooks, p \in ReleaseRegressions
    PROVE  Investigation(p).action \in Plans
<1> DEFINE change == BuildEvidence("change", Scenario[p].change)
           log == BuildEvidence("log", Scenario[p].log)
           dependency == BuildEvidence("dependency", Scenario[p].dependency)
           text == SignalsOf(change) \cup SignalsOf(log) \cup SignalsOf(dependency)
<1>1. Scenario[p] = ReleaseRegression
  BY DEF Scenario
<1>2. SignalsOf(change) = {"recent_release", "config_change"}
  BY <1>1, SignalsOfTwo DEF ReleaseRegression, Sources
<1>3. SignalsOf(log) = {"db_auth_errors", "recent_release", "local_blast_radius"}
  BY <1>1, SignalsOfTwo DEF ReleaseRegression, Sources
<1>4. SignalsOf(dependency) = {"dependency_healthy", "local_blast_radius"}
  BY <1>1, SignalsOfTwo DEF ReleaseRegression, Sources
<1>5. text \cap ReleaseSignals = ReleaseSignals
  BY <1>2, <1>3, <1>4 DEF ReleaseSignals
<1>6. text \cap DownstreamSignals = {}
  BY <1>2, <1>3, <1>4 DEF DownstreamSignals
<1>7. Cardinality(text \cap ReleaseSignals) = 5 /\ Cardinality(text \cap DownstreamSignals) = 0
  BY <1>5, <1>6, FiveReleaseSignals, FS_EmptySet
<1>8. Investigation(p).action = [by |-> "guardrail",
                                 evidence |-> FirstIds(change, 2) \cup FirstIds(log, 2)]
  <2> HIDE DEF change, log, dependency
  <2>1. PlanDiagnosis(change, log, dependency).action
           = [by |-> "guardrail", evidence |-> FirstIds(change, 2) \cup FirstIds(log, 2)]
    BY <1>7 DEF PlanDiagnosis
  <2> QED
    BY <2>1 DEF Investigation, change, log, dependency
<1> QED
  BY <1>8 DEF Plans

(* That of a downstream outage carries no signal of a release.             *)
LEMMA OutageIsNotRolledBack ==
    ASSUME NEW p \in Playbooks, p \notin ReleaseRegressions
    PROVE  Investigation(p).action = None
<1> DEFINE change == BuildEvidence("change", Scenario[p].change)
           log == BuildEvidence("log", Scenario[p].log)
           dependency == BuildEvidence("dependency", Scenario[p].dependency)
           text == SignalsOf(change) \cup SignalsOf(log) \cup SignalsOf(dependency)
<1>1. Scenario[p] = DownstreamInventory
  BY DEF Scenario
<1>2. SignalsOf(change) = {"no_local_change"}
  BY <1>1, SignalsOfOne DEF DownstreamInventory, Sources
<1>3. SignalsOf(log) = {"inventory_timeouts"}
  BY <1>1, SignalsOfTwo DEF DownstreamInventory, Sources
<1>4. SignalsOf(dependency) = {"dependency_degraded", "database_pool_saturated"}
  BY <1>1, SignalsOfTwo DEF DownstreamInventory, Sources
<1>5. text \cap ReleaseSignals = {}
  BY <1>2, <1>3, <1>4 DEF ReleaseSignals
<1>6. Cardinality(text \cap ReleaseSignals) = 0
  BY <1>5, FS_EmptySet
<1>7. PlanDiagnosis(change, log, dependency).action = None
  <2> HIDE DEF change, log, dependency
  <2> QED
    BY <1>6 DEF PlanDiagnosis
<1> QED
  BY <1>7 DEF Investigation

(* The three answers of a scenario about a rollback agree.                 *)
LEMMA ScenarioFits ==
    ASSUME NEW p \in Playbooks
    PROVE  /\ Scenario[p].before = "not_recovered"
           /\ Scenario[p].after \in Statuses
           /\ Investigation(p).action # None <=> Scenario[p].after = "recovered"
<1>1. CASE p \in ReleaseRegressions
  <2>1. Scenario[p] = ReleaseRegression
    BY <1>1 DEF Scenario
  <2>2. Investigation(p).action # None
    BY <1>1, ReleaseIsRolledBack, RecordAssumption
  <2> QED
    BY <2>1, <2>2 DEF ReleaseRegression, Statuses
<1>2. CASE p \notin ReleaseRegressions
  <2>1. Scenario[p] = DownstreamInventory
    BY <1>2 DEF Scenario
  <2>2. Investigation(p).action = None
    BY <1>2, OutageIsNotRolledBack
  <2> QED
    BY <2>1, <2>2 DEF DownstreamInventory, Statuses
<1> QED
  BY <1>1, <1>2
---------------------------------------------------------------------------
LEMMA MInvInit == Init => MInv
<1> SUFFICES ASSUME Init PROVE MInv
  OBVIOUS
<1> USE DEF Init
<1>1. TypeOK
  BY GatewayAssumption DEF TypeOK, NoReceipts
<1>2. PlanInv
  BY DEF PlanInv
<1>3. KeyIsKnown /\ IdsDiffer /\ HeldIsKnown
  BY DEF KeyIsKnown, IdsDiffer, HeldIsKnown, NoReceipts
<1>4. OneReceiptPerLife /\ RecoversAsPlanned
  BY DEF OneReceiptPerLife, RecoversAsPlanned
<1> QED
  BY <1>1, <1>2, <1>3, <1>4 DEF MInv

(* What an answer says of the receipt's process.                           *)
LEMMA HereIsTyped ==
    ASSUME TypeOK, NEW g \in Gateways
    PROVE  /\ Here(g) \in Lives /\ Here(g).process = g /\ Here(g).life = life[g]
           /\ \A h \in Gateways : Here(g) = Here(h) => g = h
  BY DEF TypeOK, Here, Lives

LEMMA MInvQuery ==
    ASSUME MInv, NEW w \in Workflows, Query(w)
    PROVE  MInv'
<1> USE DEF MInv, Query, storeVars
<1>1. TypeOK'
  BY DEF TypeOK
<1>2. PlanInv'
  <2>1. Investigation(Resolve(playbook[incident[w]])).action # None <=> Recovers(incident[w])
    BY ScenarioFits DEF Known, Recovers, ScenarioOf
  <2> QED
    BY <2>1, GatewayAssumption DEF PlanInv, Recovers, ScenarioOf, Known, TypeOK
<1>3. KeyIsKnown' /\ IdsDiffer'
  BY DEF KeyIsKnown, IdsDiffer
<1>4. HeldIsKnown' /\ OneReceiptPerLife' /\ RecoversAsPlanned'
  <2>1. held[w] = None
    BY DEF PlanInv
  <2>2. \A v \in Workflows : held[v] # None => target'[v] = target[v]
    BY <2>1 DEF TypeOK
  <2>3. HeldIsKnown'
    BY <2>2 DEF HeldIsKnown, Here
  <2>4. OneReceiptPerLife'
    BY <2>2 DEF OneReceiptPerLife
  <2>5. RecoversAsPlanned'
    BY DEF RecoversAsPlanned, ScenarioOf
  <2> QED
    BY <2>3, <2>4, <2>5
<1> QED
  BY <1>1, <1>2, <1>3, <1>4

LEMMA MInvQueryFails ==
    ASSUME MInv, NEW w \in Workflows, QueryFails(w)
    PROVE  MInv'
<1> USE DEF MInv, QueryFails, storeVars
<1>1. TypeOK'
  BY DEF TypeOK
<1>2. PlanInv'
  BY DEF PlanInv, TypeOK, Recovers, ScenarioOf, Known
<1>3. KeyIsKnown' /\ IdsDiffer' /\ HeldIsKnown' /\ OneReceiptPerLife' /\ RecoversAsPlanned'
  BY DEF KeyIsKnown, IdsDiffer, HeldIsKnown, Here, OneReceiptPerLife, RecoversAsPlanned, ScenarioOf
<1> QED
  BY <1>1, <1>2, <1>3
---------------------------------------------------------------------------
(* Two answers of one life of a process, as long as it lasts.              *)
KnownPairs ==
    \A v, w \in Workflows, g \in Gateways :
        held[v] # None /\ held[w] # None /\ held[v].from = Here(g) /\ held[w].from = Here(g) =>
            (held[v] = held[w]) = (incident[v] = incident[w] /\ target[v] = target[w])

LEMMA KnownPairsAgree == TypeOK /\ PlanInv /\ IdsDiffer /\ HeldIsKnown => KnownPairs
<1> SUFFICES ASSUME TypeOK, PlanInv, IdsDiffer, HeldIsKnown,
                    NEW v \in Workflows, NEW w \in Workflows, NEW g \in Gateways,
                    held[v] # None, held[w] # None,
                    held[v].from = Here(g), held[w].from = Here(g)
             PROVE  (held[v] = held[w]) = (incident[v] = incident[w] /\ target[v] = target[w])
  BY DEF KnownPairs
<1> DEFINE r(x) == receipts[g][incident[x]][target[x]]
<1>1. /\ incident[v] \in Incidents /\ incident[w] \in Incidents
      /\ target[v] \in Targets /\ target[w] \in Targets
      /\ held[v] \in Held /\ held[w] \in Held
  BY DEF TypeOK, PlanInv
<1>2. /\ r(v) # None /\ held[v].id = r(v).id /\ held[v].executor = r(v).executor
      /\ r(w) # None /\ held[w].id = r(w).id /\ held[w].executor = r(w).executor
  BY DEF HeldIsKnown
<1>3. CASE incident[v] = incident[w] /\ target[v] = target[w]
  BY <1>1, <1>2, <1>3 DEF Held
<1>4. CASE ~(incident[v] = incident[w] /\ target[v] = target[w])
  <2>1. r(v).id # r(w).id
    BY <1>1, <1>2, <1>4 DEF IdsDiffer
  <2> QED
    BY <1>2, <1>4, <2>1
<1> QED
  BY <1>3, <1>4

(* An answer with a receipt of the process, however it came to it.         *)
LEMMA AnswerKeeps ==
    ASSUME TypeOK, TypeOK', PlanInv, PlanInv', IdsDiffer', OneReceiptPerLife, RecoversAsPlanned,
           NEW w \in Workflows, NEW g \in Gateways, at[w] = "rollback",
           UNCHANGED <<playbook, life, incident, target, verdict>>,
           held'[w] = [from |-> Here(g), id |-> receipts'[g][incident[w]][target[w]].id,
                       executor |-> receipts'[g][incident[w]][target[w]].executor],
           receipts'[g][incident[w]][target[w]] # None,
           receiptKey'[g][incident[w]] # None,
           \A v \in Workflows \ {w} : held'[v] = held[v],
           \A v \in Workflows \ {w} : held[v] # None =>
               /\ held[v].from.life <= life[held[v].from.process]
               /\ \A h \in Gateways :
                   held[v].from = Here(h) =>
                       /\ receiptKey'[h][incident[v]] # None
                       /\ receipts'[h][incident[v]][target[v]] # None
                       /\ receipts'[h][incident[v]][target[v]].id = held[v].id
                       /\ receipts'[h][incident[v]][target[v]].executor = held[v].executor
    PROVE  HeldIsKnown' /\ OneReceiptPerLife' /\ RecoversAsPlanned'
<1>1. \A h \in Gateways : Here(h)' = Here(h)
  BY DEF Here
<1>2. HeldIsKnown'
  <2>1. /\ held'[w].from = Here(g)
        /\ held'[w].id = receipts'[g][incident[w]][target[w]].id
        /\ held'[w].executor = receipts'[g][incident[w]][target[w]].executor
    OBVIOUS
  <2>2. held'[w].from.life <= life'[held'[w].from.process]
    BY <2>1, HereIsTyped DEF TypeOK
  <2>3. ASSUME NEW h \in Gateways, held'[w].from = Here(h)'
        PROVE  h = g
    <3>1. Here(g) = Here(h)
      BY <1>1, <2>1, <2>3
    <3> QED
      BY <3>1, HereIsTyped
  <2> QED
    BY <1>1, <2>1, <2>2, <2>3 DEF HeldIsKnown
<1>3. KnownPairs'
  <2>1. (TypeOK /\ PlanInv /\ IdsDiffer /\ HeldIsKnown => KnownPairs)'
    BY KnownPairsAgree, PTL
  <2> QED
    BY <1>2, <2>1
<1>4. OneReceiptPerLife'
  <2> SUFFICES ASSUME NEW u \in Workflows, NEW v \in Workflows,
                      held'[u] # None, held'[v] # None, held'[u].from = held'[v].from
               PROVE  (held'[u] = held'[v]) = (incident'[u] = incident'[v] /\ target'[u] = target'[v])
    BY DEF OneReceiptPerLife
  <2>1. CASE u # w /\ v # w
    BY <2>1 DEF OneReceiptPerLife
  <2>2. CASE u = w \/ v = w
    <3>1. held'[u].from = Here(g)' /\ held'[v].from = Here(g)'
      BY <1>1, <2>2
    <3> QED
      BY <1>3, <3>1 DEF KnownPairs
  <2> QED
    BY <2>1, <2>2
<1>5. RecoversAsPlanned'
  <2>1. verdict[w] = None
    BY DEF PlanInv
  <2> QED
    BY <2>1 DEF RecoversAsPlanned, ScenarioOf
<1> QED
  BY <1>2, <1>4, <1>5

LEMMA MInvReplay ==
    ASSUME MInv, NEW w \in Workflows, NEW g \in Gateways, Replay(w, g)
    PROVE  MInv'
<1> USE DEF MInv, Replay, storeVars
<1> DEFINE receipt == receipts[g][incident[w]][target[w]]
<1>1. /\ incident[w] \in Incidents /\ target[w] \in Targets
      /\ receipt \in Receipt /\ receipt # None
  BY DEF TypeOK, PlanInv
<1>2. CASE Answer(w, g, receipt)
  <2> USE DEF Answer
  <2>1. [from |-> Here(g), id |-> receipt.id, executor |-> receipt.executor] \in Held
    BY <1>1, HereIsTyped DEF Held, Receipt
  <2>2. TypeOK'
    BY <1>2, <2>1 DEF TypeOK
  <2>3. held'[w] # None
    BY <1>2, <2>1, RecordAssumption DEF TypeOK
  <2>4. PlanInv'
    BY <1>2, <2>3 DEF PlanInv, TypeOK, Recovers, ScenarioOf, Known
  <2>5. KeyIsKnown' /\ IdsDiffer'
    BY DEF KeyIsKnown, IdsDiffer
  <2>6. receiptKey[g][incident[w]] # None
    BY <1>1 DEF KeyIsKnown
  <2>7. held'[w] = [from |-> Here(g), id |-> receipts'[g][incident[w]][target[w]].id,
                    executor |-> receipts'[g][incident[w]][target[w]].executor]
    BY <1>2 DEF TypeOK
  <2>8. \A v \in Workflows \ {w} : held'[v] = held[v]
    BY <1>2 DEF TypeOK
  <2>9. \A v \in Workflows \ {w} : held[v] # None =>
               /\ held[v].from.life <= life[held[v].from.process]
               /\ \A h \in Gateways :
                   held[v].from = Here(h) =>
                       /\ receiptKey'[h][incident[v]] # None
                       /\ receipts'[h][incident[v]][target[v]] # None
                       /\ receipts'[h][incident[v]][target[v]].id = held[v].id
                       /\ receipts'[h][incident[v]][target[v]].executor = held[v].executor
    BY DEF HeldIsKnown
  <2>10. HeldIsKnown' /\ OneReceiptPerLife' /\ RecoversAsPlanned'
    <3> HIDE DEF Answer
    <3>1. /\ at[w] = "rollback"
          /\ UNCHANGED <<playbook, life, incident, target, verdict>>
      OBVIOUS
    <3>2. receipts'[g][incident[w]][target[w]] # None /\ receiptKey'[g][incident[w]] # None
      BY <1>1, <2>6
    <3>3. TypeOK /\ PlanInv /\ OneReceiptPerLife /\ RecoversAsPlanned
      OBVIOUS
    <3> HIDE DEF Replay, MInv
    <3> QED
      BY <2>2, <2>4, <2>5, <2>7, <2>8, <2>9, <3>1, <3>2, <3>3, AnswerKeeps
  <2> QED
    BY <2>2, <2>4, <2>5, <2>10
<1>3. CASE AnswerLost
  <2> USE DEF AnswerLost
  <2>1. TypeOK'
    BY <1>3, GatewayAssumption DEF TypeOK
  <2>2. /\ KeyIsKnown' /\ PlanInv' /\ IdsDiffer' /\ HeldIsKnown'
        /\ OneReceiptPerLife' /\ RecoversAsPlanned'
    BY <1>3 DEF KeyIsKnown, PlanInv, IdsDiffer, HeldIsKnown, Here, OneReceiptPerLife, RecoversAsPlanned,
                ScenarioOf, Recovers, Known
  <2> QED
    BY <2>1, <2>2
<1> QED
  BY <1>2, <1>3

LEMMA MInvExecute ==
    ASSUME MInv, NEW w \in Workflows, NEW g \in Gateways, Execute(w, g)
    PROVE  MInv'
<1> USE DEF MInv
<1> DEFINE i == incident[w]
           t == target[w]
           receipt == [id |-> issued[g] + 1, executor |-> w, verification |-> "pending"]
<1>1. /\ i \in Incidents /\ t \in Targets
      /\ receipt \in Receipt /\ receipt # None /\ receipt.id = issued[g] + 1
  BY RecordAssumption DEF Execute, TypeOK, PlanInv, Receipt
<1>2. /\ receipts[g][i][t] = None
      /\ receipts'[g][i][t] = receipt
      /\ receiptKey'[g][i] = t /\ t # None
      /\ issued'[g] = issued[g] + 1
  BY <1>1 DEF Execute, TypeOK, PlanInv
<1>3. \A h \in Gateways, j \in Incidents, u \in Targets :
        (h # g \/ j # i \/ u # t) => receipts'[h][j][u] = receipts[h][j][u]
  BY <1>1 DEF Execute, TypeOK
<1>4. \A h \in Gateways, j \in Incidents :
        (h # g \/ j # i) => receiptKey'[h][j] = receiptKey[h][j]
  BY <1>1 DEF Execute, TypeOK
<1>5. \A h \in Gateways : h # g => issued'[h] = issued[h]
  BY DEF Execute, TypeOK
<1>6. /\ at[w] = "rollback" /\ held[w] = None
      /\ UNCHANGED <<playbook, life, incident, target, verdict>>
  BY DEF Execute, PlanInv
<1>7. /\ receipts' \in [Gateways -> [Incidents -> [Targets -> Receipt \cup {None}]]]
      /\ receiptKey' \in [Gateways -> [Incidents -> Targets \cup {None}]]
      /\ issued' \in [Gateways -> Nat]
  <2>1. receipts' = [receipts EXCEPT ![g][i][t] = receipt]
    BY DEF Execute
  <2>2. receiptKey' = [receiptKey EXCEPT ![g][i] = t]
    BY DEF Execute
  <2>3. issued' = [issued EXCEPT ![g] = issued[g] + 1]
    BY DEF Execute
  <2> HIDE DEF i, t, receipt
  <2> QED
    BY <1>1, <2>1, <2>2, <2>3 DEF TypeOK
<1>8. \A h \in Gateways, j \in Incidents :
        receiptKey'[h][j] # None => receipts'[h][j][receiptKey'[h][j]] # None
  <2> SUFFICES ASSUME NEW h \in Gateways, NEW j \in Incidents, receiptKey'[h][j] # None
               PROVE  receipts'[h][j][receiptKey'[h][j]] # None
    OBVIOUS
  <2>1. CASE h = g /\ j = i
    BY <1>1, <1>2, <2>1
  <2>2. CASE h # g \/ j # i
    <3>1. receiptKey'[h][j] = receiptKey[h][j] /\ receiptKey[h][j] \in Targets
      BY <1>4, <2>2 DEF TypeOK
    <3>2. receipts[h][j][receiptKey[h][j]] # None
      BY <3>1 DEF TypeOK
    <3> HIDE DEF i, t, receipt
    <3> QED
      BY <1>3, <2>2, <3>1, <3>2
  <2> QED
    BY <2>1, <2>2
<1>9. KeyIsKnown'
  BY <1>1, <1>2, <1>3, <1>4 DEF KeyIsKnown
<1>10. IdsDiffer'
  <2> SUFFICES ASSUME NEW h \in Gateways, NEW j \in Incidents, NEW k \in Incidents,
                      NEW u \in Targets, NEW v \in Targets, receipts'[h][j][u] # None
               PROVE  /\ receipts'[h][j][u].id <= issued'[h]
                      /\ receipts'[h][k][v] # None /\ receipts'[h][j][u].id = receipts'[h][k][v].id
                              => j = k /\ u = v
    BY DEF IdsDiffer
  <2>1. \A l \in Incidents, z \in Targets :
            receipts[h][l][z] # None => receipts[h][l][z].id <= issued[h]
                                        /\ receipts[h][l][z].id \in Nat
    BY DEF IdsDiffer, TypeOK, Receipt
  <2>2. issued[h] \in Nat /\ issued[g] \in Nat
    BY DEF TypeOK
  <2>3. CASE h # g
    BY <1>3, <1>5, <2>3 DEF IdsDiffer
  <2>4. CASE h = g /\ j = i /\ u = t
    BY <1>1, <1>2, <1>3, <2>1, <2>2, <2>4
  <2>5. CASE h = g /\ ~(j = i /\ u = t)
    <3>1. CASE k = i /\ v = t
      BY <1>1, <1>2, <1>3, <2>1, <2>2, <2>5, <3>1
    <3>2. CASE ~(k = i /\ v = t)
      BY <1>2, <1>3, <2>1, <2>2, <2>5, <3>2 DEF IdsDiffer
    <3> QED
      BY <3>1, <3>2
  <2> QED
    BY <2>3, <2>4, <2>5
<1>11. \A v \in Workflows : held[v] # None =>
               /\ held[v].from.life <= life[held[v].from.process]
               /\ \A h \in Gateways :
                   held[v].from = Here(h) =>
                       /\ receiptKey'[h][incident[v]] # None
                       /\ receipts'[h][incident[v]][target[v]] # None
                       /\ receipts'[h][incident[v]][target[v]].id = held[v].id
                       /\ receipts'[h][incident[v]][target[v]].executor = held[v].executor
  <2> SUFFICES ASSUME NEW v \in Workflows, held[v] # None
               PROVE  /\ held[v].from.life <= life[held[v].from.process]
                      /\ \A h \in Gateways :
                          held[v].from = Here(h) =>
                              /\ receiptKey'[h][incident[v]] # None
                              /\ receipts'[h][incident[v]][target[v]] # None
                              /\ receipts'[h][incident[v]][target[v]].id = held[v].id
                              /\ receipts'[h][incident[v]][target[v]].executor = held[v].executor
    OBVIOUS
  <2>1. incident[v] \in Incidents /\ target[v] \in Targets
    BY DEF TypeOK, PlanInv
  <2> QED
    BY <1>2, <1>3, <1>4, <2>1 DEF HeldIsKnown
<1>12. CASE Answer(w, g, receipt)
  <2>1. [from |-> Here(g), id |-> receipt.id, executor |-> receipt.executor] \in Held
    BY <1>1, HereIsTyped DEF Held, Receipt
  <2>2. /\ held' = [held EXCEPT ![w] = [from |-> Here(g), id |-> receipt.id,
                                         executor |-> receipt.executor]]
        /\ at' = [at EXCEPT ![w] = "verify"]
        /\ faults' = faults
    BY <1>12 DEF Answer
  <2>3. /\ held'[w] = [from |-> Here(g), id |-> receipt.id, executor |-> receipt.executor]
        /\ held'[w] # None
        /\ \A v \in Workflows \ {w} : held'[v] = held[v]
    BY <2>1, <2>2, RecordAssumption DEF TypeOK
  <2>4. TypeOK'
    <3> HIDE DEF receipt
    <3> QED
      BY <1>6, <1>7, <1>8, <2>1, <2>2 DEF TypeOK
  <2>5. PlanInv'
    <3> HIDE DEF receipt
    <3> QED
      BY <1>6, <2>2, <2>3 DEF PlanInv, TypeOK, Recovers, ScenarioOf, Known
  <2>6. HeldIsKnown' /\ OneReceiptPerLife' /\ RecoversAsPlanned'
    <3>1. held'[w] = [from |-> Here(g), id |-> receipts'[g][incident[w]][target[w]].id,
                      executor |-> receipts'[g][incident[w]][target[w]].executor]
      BY <1>2, <2>3
    <3>2. receipts'[g][incident[w]][target[w]] # None /\ receiptKey'[g][incident[w]] # None
      BY <1>1, <1>2
    <3>3. TypeOK /\ PlanInv /\ OneReceiptPerLife /\ RecoversAsPlanned
      OBVIOUS
    <3> HIDE DEF MInv, i, t, receipt
    <3> QED
      BY <1>6, <1>10, <1>11, <2>3, <2>4, <2>5, <3>1, <3>2, <3>3, AnswerKeeps
  <2> QED
    BY <1>9, <1>10, <2>4, <2>5, <2>6
<1>13. CASE AnswerLost
  <2>1. held' = held /\ at' = at /\ faults' \in 0 .. MaxFaults
    BY <1>13, GatewayAssumption DEF AnswerLost, TypeOK
  <2>2. TypeOK'
    BY <1>6, <1>7, <1>8, <2>1 DEF TypeOK
  <2>3. PlanInv' /\ OneReceiptPerLife' /\ RecoversAsPlanned'
    BY <1>6, <2>1 DEF PlanInv, OneReceiptPerLife, RecoversAsPlanned, ScenarioOf, Recovers, Known
  <2>4. HeldIsKnown'
    BY <1>6, <1>11, <2>1 DEF HeldIsKnown, Here
  <2> QED
    BY <1>9, <1>10, <2>2, <2>3, <2>4
<1> QED
  BY <1>12, <1>13 DEF Execute
---------------------------------------------------------------------------
LEMMA MInvVerify ==
    ASSUME MInv, NEW w \in Workflows, NEW g \in Gateways, Verify(w, g)
    PROVE  MInv'
<1> USE DEF MInv
<1> DEFINE i == incident[w]
           last == receiptKey[g][i]
           status == IF last = None THEN ScenarioOf(i).before ELSE ScenarioOf(i).after
<1>1. /\ i \in Incidents /\ Known(i) /\ at[w] = "verify" /\ last \in Targets \cup {None}
      /\ UNCHANGED <<playbook, life, receiptKey, issued, incident, target>>
  BY DEF Verify, TypeOK, PlanInv
<1>2. ScenarioOf(i).before = "not_recovered" /\ ScenarioOf(i).after \in Statuses
  BY <1>1, ScenarioFits DEF ScenarioOf, Known
<1>3. status \in Statuses
  BY <1>2 DEF Statuses
(* The receipts are the same but for what their verification says.         *)
<1>4. /\ receipts' \in [Gateways -> [Incidents -> [Targets -> Receipt \cup {None}]]]
      /\ \A h \in Gateways, j \in Incidents, t \in Targets :
            /\ receipts'[h][j][t] # None <=> receipts[h][j][t] # None
            /\ receipts[h][j][t] # None =>
                    /\ receipts'[h][j][t].id = receipts[h][j][t].id
                    /\ receipts'[h][j][t].executor = receipts[h][j][t].executor
  <2>1. CASE last = None
    BY <2>1 DEF Verify, TypeOK
  <2>2. CASE last # None
    <3>1. last \in Targets /\ receipts[g][i][last] \in Receipt
      BY <1>1, <2>2 DEF TypeOK
    <3> DEFINE marked == [receipts[g][i][last] EXCEPT !.verification = status]
    <3>2. /\ marked \in Receipt /\ marked # None
          /\ marked.id = receipts[g][i][last].id
          /\ marked.executor = receipts[g][i][last].executor
      <4> HIDE DEF status, last
      <4>1. marked \in Receipt
        BY <1>3, <3>1 DEF Receipt
      <4> QED
        BY <3>1, <4>1, RecordAssumption DEF Receipt
    <3>3. receipts' = [receipts EXCEPT ![g][i][last] = marked]
      BY <2>2 DEF Verify
    <3>4. receipts[g][i][last] # None
      BY <3>1, RecordAssumption
    <3> HIDE DEF marked, status, last, i
    <3> QED
      BY <1>1, <3>1, <3>2, <3>3, <3>4 DEF TypeOK
  <2> QED
    BY <2>1, <2>2
<1>5. KeyIsKnown' /\ IdsDiffer'
  BY <1>1, <1>4 DEF KeyIsKnown, IdsDiffer
<1>6. \A h \in Gateways, j \in Incidents :
        receiptKey'[h][j] # None => receipts'[h][j][receiptKey'[h][j]] # None
  <2> SUFFICES ASSUME NEW h \in Gateways, NEW j \in Incidents, receiptKey[h][j] # None
               PROVE  receipts'[h][j][receiptKey[h][j]] # None
    BY <1>1
  <2>1. receiptKey[h][j] \in Targets /\ receipts[h][j][receiptKey[h][j]] # None
    BY DEF TypeOK
  <2> QED
    BY <1>4, <2>1
<1>7. /\ held' = held
      /\ verdict' \in [Workflows -> Verdict \cup {None}]
      /\ at' \in [Workflows -> {"queries", "rollback", "verify", "done", "failed"}]
      /\ faults' \in 0 .. MaxFaults
  <2>1. [from |-> Here(g), status |-> status] \in Verdict
    <3> HIDE DEF status
    <3> QED
      BY <1>3, HereIsTyped DEF Verdict
  <2>2. CASE verdict' = [verdict EXCEPT ![w] = [from |-> Here(g), status |-> status]]
             /\ at' = [at EXCEPT ![w] = "done"] /\ UNCHANGED <<held, faults>>
    <3> HIDE DEF status
    <3> QED
      BY <2>1, <2>2 DEF TypeOK
  <2>3. CASE AnswerLost /\ UNCHANGED verdict
    BY <2>3, GatewayAssumption DEF AnswerLost, TypeOK
  <2> QED
    BY <2>2, <2>3 DEF Verify
<1>8. TypeOK'
  BY <1>1, <1>4, <1>6, <1>7 DEF TypeOK
<1>9. PlanInv'
  <2>1. \/ at' = at /\ verdict' = verdict
        \/ /\ at' = [at EXCEPT ![w] = "done"]
           /\ \A v \in Workflows \ {w} : verdict'[v] = verdict[v]
    BY DEF Verify, AnswerLost, TypeOK
  <2> QED
    BY <1>1, <1>7, <2>1 DEF PlanInv, TypeOK, Recovers, ScenarioOf, Known
<1>10. HeldIsKnown'
  <2> SUFFICES ASSUME NEW v \in Workflows, held[v] # None
               PROVE  /\ held[v].from.life <= life[held[v].from.process]
                      /\ \A h \in Gateways :
                          held[v].from = Here(h) =>
                              /\ receiptKey[h][incident[v]] # None
                              /\ receipts'[h][incident[v]][target[v]] # None
                              /\ receipts'[h][incident[v]][target[v]].id = held[v].id
                              /\ receipts'[h][incident[v]][target[v]].executor = held[v].executor
    BY <1>1, <1>7 DEF HeldIsKnown, Here
  <2>1. incident[v] \in Incidents /\ target[v] \in Targets
    BY DEF TypeOK, PlanInv
  <2>2. held[v].from.life <= life[held[v].from.process]
    BY DEF HeldIsKnown
  <2>3. ASSUME NEW h \in Gateways, held[v].from = Here(h)
        PROVE  /\ receiptKey[h][incident[v]] # None
               /\ receipts[h][incident[v]][target[v]] # None
               /\ receipts[h][incident[v]][target[v]].id = held[v].id
               /\ receipts[h][incident[v]][target[v]].executor = held[v].executor
    BY <2>3 DEF HeldIsKnown
  <2> HIDE DEF MInv
  <2> QED
    BY <1>4, <2>1, <2>2, <2>3
<1>11. OneReceiptPerLife'
  BY <1>1, <1>7 DEF OneReceiptPerLife
<1>12. RecoversAsPlanned'
  <2>1. CASE verdict' = verdict
    BY <1>1, <1>7, <2>1 DEF RecoversAsPlanned, ScenarioOf
  <2>2. CASE verdict' = [verdict EXCEPT ![w] = [from |-> Here(g), status |-> status]]
    <3>1. verdict'[w] = [from |-> Here(g), status |-> status]
      BY <2>2 DEF TypeOK
    <3>2. held[w] # None <=> ScenarioOf(i).after = "recovered"
      BY <1>1 DEF PlanInv, Recovers
    <3>3. held[w] = None => status = "not_recovered"
      BY <1>2, <3>2 DEF Statuses
    <3>4. held[w] # None /\ held[w].from = Here(g) => status = "recovered"
      BY <1>1, <3>2 DEF HeldIsKnown
    <3>5. \A v \in Workflows \ {w} : verdict'[v] = verdict[v]
      BY <2>2 DEF TypeOK
    <3> HIDE DEF status, last
    <3> QED
      BY <1>1, <1>7, <3>1, <3>2, <3>3, <3>4, <3>5 DEF RecoversAsPlanned, ScenarioOf
  <2> QED
    BY <2>1, <2>2 DEF Verify
<1> QED
  BY <1>5, <1>8, <1>9, <1>10, <1>11, <1>12
---------------------------------------------------------------------------
LEMMA MInvRestart ==
    ASSUME MInv, NEW g \in Gateways, Restart(g)
    PROVE  MInv'
<1> USE DEF MInv
<1>1. /\ UNCHANGED <<playbook, at, incident, target, held, verdict>>
      /\ receipts'[g] = NoReceipts /\ receiptKey'[g] = [i \in Incidents |-> None]
      /\ life'[g] = life[g] + 1 /\ life[g] \in Nat
      /\ \A h \in Gateways : h # g => /\ receipts'[h] = receipts[h]
                                      /\ receiptKey'[h] = receiptKey[h]
                                      /\ issued'[h] = issued[h] /\ life'[h] = life[h]
  BY DEF Restart, TypeOK
<1>2. TypeOK'
  <2>1. life' \in [Gateways -> Nat] /\ issued' \in [Gateways -> Nat] /\ faults' \in 0 .. MaxFaults
    BY GatewayAssumption DEF Restart, TypeOK
  <2>2. /\ receipts' \in [Gateways -> [Incidents -> [Targets -> Receipt \cup {None}]]]
        /\ receiptKey' \in [Gateways -> [Incidents -> Targets \cup {None}]]
    BY DEF Restart, TypeOK, NoReceipts
  <2>3. \A h \in Gateways, i \in Incidents :
            receiptKey'[h][i] # None => receipts'[h][i][receiptKey'[h][i]] # None
    <3> SUFFICES ASSUME NEW h \in Gateways, NEW i \in Incidents, receiptKey'[h][i] # None
                 PROVE  receipts'[h][i][receiptKey'[h][i]] # None
      OBVIOUS
    <3>1. h # g
      BY <1>1
    <3> QED
      BY <1>1, <3>1 DEF TypeOK
  <2> QED
    BY <1>1, <2>1, <2>2, <2>3 DEF TypeOK
<1>3. PlanInv'
  BY <1>1 DEF PlanInv, Recovers, ScenarioOf, Known
<1>4. KeyIsKnown'
  BY <1>1 DEF KeyIsKnown, NoReceipts
<1>5. IdsDiffer'
  BY <1>1 DEF IdsDiffer, NoReceipts
<1>6. HeldIsKnown'
  <2> SUFFICES ASSUME NEW v \in Workflows, held[v] # None
               PROVE  /\ held[v].from.life <= life'[held[v].from.process]
                      /\ \A h \in Gateways :
                          held[v].from = Here(h)' =>
                              /\ receiptKey'[h][incident[v]] # None
                              /\ receipts'[h][incident[v]][target[v]] # None
                              /\ receipts'[h][incident[v]][target[v]].id = held[v].id
                              /\ receipts'[h][incident[v]][target[v]].executor = held[v].executor
    BY <1>1 DEF HeldIsKnown
  <2>1. /\ held[v].from.process \in Gateways
        /\ held[v].from.life \in Nat /\ life[held[v].from.process] \in Nat
    BY DEF TypeOK, Held, Lives
  <2>2. held[v].from.life <= life[held[v].from.process]
    BY DEF HeldIsKnown
  <2>3. held[v].from.life <= life'[held[v].from.process]
    BY <1>1, <2>1, <2>2
  <2>4. ASSUME NEW h \in Gateways, held[v].from = Here(h)'
        PROVE  h # g /\ held[v].from = Here(h)
    <3>1. held[v].from = [process |-> h, life |-> life'[h]]
      BY <2>4 DEF Here
    <3>2. h # g
      BY <1>1, <2>1, <2>2, <3>1
    <3> QED
      BY <1>1, <3>1, <3>2 DEF Here
  <2>5. ASSUME NEW h \in Gateways, held[v].from = Here(h)
        PROVE  /\ receiptKey[h][incident[v]] # None
               /\ receipts[h][incident[v]][target[v]] # None
               /\ receipts[h][incident[v]][target[v]].id = held[v].id
               /\ receipts[h][incident[v]][target[v]].executor = held[v].executor
    BY <2>5 DEF HeldIsKnown
  <2> HIDE DEF MInv
  <2> QED
    BY <1>1, <2>3, <2>4, <2>5
<1>7. OneReceiptPerLife' /\ RecoversAsPlanned'
  BY <1>1 DEF OneReceiptPerLife, RecoversAsPlanned, ScenarioOf
<1> QED
  BY <1>2, <1>3, <1>4, <1>5, <1>6, <1>7

LEMMA MInvNext == MInv /\ [Next]_vars => MInv'
<1> SUFFICES ASSUME MInv, [Next]_vars PROVE MInv'
  OBVIOUS
<1>1. CASE UNCHANGED vars
  BY <1>1 DEF vars, storeVars, MInv, TypeOK, KeyIsKnown, PlanInv, IdsDiffer, HeldIsKnown, Here,
              OneReceiptPerLife, RecoversAsPlanned, ScenarioOf, Recovers, Known
<1>2. ASSUME NEW w \in Workflows, Query(w) PROVE MInv'
  BY <1>2, MInvQuery
<1>3. ASSUME NEW w \in Workflows, QueryFails(w) PROVE MInv'
  BY <1>3, MInvQueryFails
<1>4. ASSUME NEW w \in Workflows, NEW g \in Gateways, Replay(w, g) PROVE MInv'
  BY <1>4, MInvReplay
<1>5. ASSUME NEW w \in Workflows, NEW g \in Gateways, Execute(w, g) PROVE MInv'
  BY <1>5, MInvExecute
<1>6. ASSUME NEW w \in Workflows, NEW g \in Gateways, Verify(w, g) PROVE MInv'
  BY <1>6, MInvVerify
<1>7. ASSUME NEW g \in Gateways, Restart(g) PROVE MInv'
  BY <1>7, MInvRestart
<1> QED
  BY <1>1, <1>2, <1>3, <1>4, <1>5, <1>6, <1>7 DEF Next

LEMMA MInvHolds == Spec => []MInv
<1>1. Init => MInv
  BY MInvInit
<1>2. MInv /\ [Next]_vars => MInv'
  BY MInvNext
<1> QED
  BY <1>1, <1>2, PTL DEF Spec

(* Types, for any workflows, processes and restarts; a process that knows  *)
(* of a rollback has the last receipt (receiptKeyByInc, receiptsByKey).    *)
THEOREM MemoryGatewayTypeCorrect == Spec => []TypeOK
<1>1. MInv => TypeOK
  BY DEF MInv
<1> QED
  BY <1>1, MInvHolds, PTL

(* However many workflows ask however many processes, and however often    *)
(* these are restarted: within one life of a process one receipt per       *)
(* target of an incident (store.Rollback).                                 *)
THEOREM ReceiptsAreUnique == Spec => []OneReceiptPerLife
<1>1. MInv => OneReceiptPerLife
  BY DEF MInv
<1> QED
  BY <1>1, MInvHolds, PTL

(* The scenarios of mockdata.go and the rules of plan_diagnosis fit each   *)
(* other: exactly what recovers by a rollback is rolled back, and nothing  *)
(* else is ever reported as recovered.                                     *)
THEOREM PlansFitScenarios == Spec => []RecoversAsPlanned
<1>1. MInv => RecoversAsPlanned
  BY DEF MInv
<1> QED
  BY <1>1, MInvHolds, PTL
=============================================================================
