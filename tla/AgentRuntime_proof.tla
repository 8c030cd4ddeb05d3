------------------------- MODULE AgentRuntime_proof -------------------------
(* Proofs about the multi-agent runtime, for every set of tasks and agents: *)
(* its types, the capacity of its agents, and that it keeps the promise of  *)
(* a task graph.                                                            *)
EXTENDS AgentRuntime, FiniteSetTheorems, TLAPS

-----------------------------------------------------------------------------
(* The inductive invariant: which lists are disjoint where, what is on them, *)
(* and what the statuses of tasks on none of them may be.                    *)

ListsDisjoint ==
    /\ pc = "prepare" => remaining \cap deferred = {} /\ remaining \cap prepared = {}
    /\ pc \in {"prepare", "submit", "commit"} => prepared \cap deferred = {}
    /\ pc \in {"wave", "batch"} => prepared = {}
    /\ pc = "batch" => deferred \subseteq remaining
    /\ pc = "wave" => deferred = {} /\ (stopAll \/ remaining = {})

Listed == remaining \cup deferred \cup prepared

ListedStatus ==
    /\ pc \in {"batch", "prepare"} => \A t \in Listed : status[t] = "pending"
    /\ pc \in {"submit", "commit"} => /\ remaining = {}
                                      /\ \A t \in deferred : status[t] = "pending"
                                      /\ \A t \in prepared : status[t] = "running"

Eligible ==
    pc \in {"batch", "prepare", "submit", "commit"} =>
        \A t \in Listed : t \in placed /\ \A d \in DependsOn[t] : status[d] = "passed"

RunningIsPrepared ==
    \A t \in Tasks : status[t] = "running" => pc \in {"submit", "commit", "raised"} /\ t \in prepared

SubmittedRuns ==
    /\ \A t \in submitted : status[t] \in {"running", "passed", "failed"}
    /\ pc = "commit" => \A t \in prepared : t \in submitted /\ output[t] # "none"

NobodyForgotten ==
    /\ pc \notin {"raised", "done"} =>
         \A t \in Tasks : /\ t \notin placed => status[t] = "pending"
                          /\ t \in placed /\ status[t] = "pending" => stopAll \/ t \in Listed
    /\ pc = "done" => \A t \in Tasks : status[t] # "pending"

VerdictAtEnd == verdict # "running" <=> pc = "done"

Inv ==
    /\ TypeOK /\ ListsDisjoint /\ ListedStatus /\ Eligible
    /\ RunningIsPrepared /\ SubmittedRuns /\ NobodyForgotten /\ VerdictAtEnd

Given(a) == {t \in prepared : agent[t] = a}

Counted == \A a \in Agents : /\ Cardinality(Given(a)) <= active[a]
                             /\ scheduled => active[a] <= Capacity[a]

-----------------------------------------------------------------------------
(* Types.                                                                    *)

LEMMA TypeInit == Init => TypeOK
  <1> SUFFICES ASSUME Init PROVE TypeOK
    OBVIOUS
  <1>1. scheduled \in BOOLEAN /\ stopAll \in BOOLEAN
    BY DEF Init
  <1>2. /\ stops \subseteq Tasks /\ pc = "wave" /\ verdict = "running"
        /\ placed = {} /\ remaining = {} /\ deferred = {} /\ prepared = {} /\ submitted = {}
    BY DEF Init
  <1>3. active \in [Agents -> Nat] /\ attempts \in [Tasks -> Nat]
    BY DEF Init
  <1>4. agent \in [Tasks -> Agents \cup {None}]
    BY DEF Init
  <1>5. output \in [Tasks -> {"none", "passed", "failed"}] /\ status \in [Tasks -> Statuses]
    BY DEF Init, Statuses
  <1> QED BY <1>1, <1>2, <1>3, <1>4, <1>5 DEF TypeOK

(* One step per action of the calling thread, and one for the pool.          *)
LEMMA TypeStep ==
  ASSUME TypeOK, SubmittedRuns, [Next]_vars
  PROVE  TypeOK'
  <1> USE RuntimeAssumption DEF TypeOK, Statuses, call, batch, pool, result
  <1>1. CASE EnterWave
    BY <1>1 DEF EnterWave
  <1>2. CASE EnterBatch
    BY <1>2 DEF EnterBatch
  <1>3. CASE PrepareTask
    <2>1. PICK t \in remaining :
            /\ \/ Hopeless(t) /\ FailUnprepared(t)
               \/ ~Hopeless(t) /\ Selectable(t) = {} /\ PutOff(t)
               \/ Selectable(t) \ Adapters # {} /\ FailUnprepared(t)
               \/ \E a \in Selectable(t) \cap Adapters : Assign(t, a)
      BY <1>3 DEF PrepareTask
    <2>2. UNCHANGED <<call, pc, placed, pool>>
      BY <1>3 DEF PrepareTask
    <2>3. CASE FailUnprepared(t)
      <3>1. stopAll' \in BOOLEAN
        BY <2>3, Zenon DEF FailUnprepared
      <3>2. status' \in [Tasks -> Statuses] /\ remaining' \subseteq Tasks
        BY <2>3 DEF FailUnprepared
      <3> QED BY <2>2, <2>3, <3>1, <3>2 DEF FailUnprepared
    <2>4. CASE PutOff(t)
      BY <2>2, <2>4 DEF PutOff
    <2>5. ASSUME NEW a \in Adapters, Assign(t, a)
          PROVE  TypeOK'
      <3>1. active' \in [Agents -> Nat] /\ agent' \in [Tasks -> Agents \cup {None}]
        BY <2>5 DEF Assign
      <3>2. remaining' \subseteq Tasks /\ deferred' \subseteq Tasks /\ prepared' \subseteq Tasks
        BY <2>5 DEF Assign
      <3> QED BY <2>2, <2>5, <3>1, <3>2 DEF Assign
    <2> QED BY <2>1, <2>3, <2>4, <2>5
  <1>4. CASE SkipBatch
    BY <1>4 DEF SkipBatch
  <1>5. CASE StartBatch
    BY <1>5 DEF StartBatch
  <1>6. CASE SubmitTask
    BY <1>6 DEF SubmitTask
  <1>7. CASE Gathered
    BY <1>7 DEF Gathered
  <1>8. CASE CommitTask
    <2>1. stopAll' \in BOOLEAN
      BY <1>8, Zenon DEF CommitTask
    <2>2. PICK t \in prepared : status' = [status EXCEPT ![t] = output[t]] /\ prepared' = prepared \ {t}
      BY <1>8 DEF CommitTask
    <2>3. output[t] \in {"passed", "failed"}
      BY <1>8, <2>2 DEF CommitTask, SubmittedRuns
    <2> QED BY <1>8, <2>1, <2>2, <2>3 DEF CommitTask
  <1>9. CASE EndBatch
    BY <1>9 DEF EndBatch
  <1>10. CASE Finish
    BY <1>10 DEF Finish
  <1>11. CASE LoadRaises
    BY <1>11 DEF LoadRaises
  <1>12. CASE UpdateRaises
    BY <1>12 DEF UpdateRaises
  <1>13. ASSUME NEW t \in Tasks, Attempt(t)
         PROVE  TypeOK'
    BY <1>13 DEF Attempt
  <1>14. CASE UNCHANGED vars
    BY <1>14 DEF vars
  <1> QED BY <1>1, <1>2, <1>3, <1>4, <1>5, <1>6, <1>7, <1>8, <1>9, <1>10, <1>11, <1>12, <1>13, <1>14
          DEF Next, Main


-----------------------------------------------------------------------------
(* The invariant.                                                            *)

LEMMA InvInit == Init => Inv
  BY TypeInit DEF Init, Inv, ListsDisjoint, ListedStatus, Listed, Eligible, RunningIsPrepared,
                  SubmittedRuns, NobodyForgotten, VerdictAtEnd

(* One step per action; PrepareTask has one per way to go on with a task.    *)
LEMMA InvStep ==
  ASSUME Inv, [Next]_vars
  PROVE  Inv'
  <1> DEFINE Parts == /\ ListsDisjoint /\ ListedStatus /\ Eligible /\ RunningIsPrepared
                      /\ SubmittedRuns /\ NobodyForgotten /\ VerdictAtEnd
  <1>0. TypeOK'
    BY TypeStep DEF Inv
  <1>a. TypeOK /\ Parts
    BY DEF Inv
  <1> SUFFICES Parts'
    BY <1>0 DEF Inv
  <1> USE RuntimeAssumption DEF TypeOK, Statuses, call, batch, pool, result, ListsDisjoint, ListedStatus,
          Listed, Eligible, RunningIsPrepared, SubmittedRuns, NobodyForgotten, VerdictAtEnd
  <1>1. CASE EnterWave
    <2> DEFINE wave == {t \in Tasks \ placed : DependsOn[t] \subseteq placed}
               blocked == {t \in wave : Blocked(t)}
    <2>1. /\ pc = "wave" /\ pc' = "batch" /\ ~stopAll /\ deferred = {} /\ prepared = {}
          /\ UNCHANGED <<call, deferred, prepared, active, agent, pool, stopAll, verdict>>
      BY <1>a, <1>1 DEF EnterWave
    <2>2. placed' = placed \cup wave /\ remaining' = wave \ blocked
      BY <1>1 DEF EnterWave
    <2>3. \A t \in Tasks : status'[t] = IF t \in blocked THEN "blocked" ELSE status[t]
      BY <1>1 DEF EnterWave
    <2>4. \A t \in wave : status[t] = "pending"
      BY <1>a, <2>1
    <2>5. \A t \in wave \ blocked : \A d \in DependsOn[t] : status'[d] = "passed"
      BY <2>3, <2>4 DEF Blocked
    <2>6. ListsDisjoint' /\ ListedStatus' /\ Eligible'
      BY <2>1, <2>2, <2>3, <2>4, <2>5
    <2>7. RunningIsPrepared' /\ SubmittedRuns' /\ VerdictAtEnd'
      BY <1>a, <2>1, <2>2, <2>3, <2>4
    <2>8. NobodyForgotten'
      BY <1>a, <2>1, <2>2, <2>3, <2>4
    <2> QED BY <2>6, <2>7, <2>8
  <1>2. CASE EnterBatch
    <2>1. /\ pc = "batch" /\ prepared = {} /\ deferred \subseteq remaining
          /\ prepared' = {} /\ deferred' = {}
          /\ UNCHANGED <<call, placed, remaining, agent, pool, result>>
      BY <1>a, <1>2 DEF EnterBatch
    <2>2. pc' = "prepare" \/ (pc' = "wave" /\ (stopAll \/ remaining = {}))
      BY <1>a, <1>2 DEF EnterBatch, MoreBatches
    <2>3. ListsDisjoint' /\ ListedStatus' /\ Eligible'
      BY <1>a, <2>1, <2>2
    <2>4. RunningIsPrepared' /\ SubmittedRuns' /\ VerdictAtEnd'
      BY <1>a, <2>1, <2>2
    <2>5. NobodyForgotten'
      BY <1>a, <2>1, <2>2
    <2> QED BY <2>3, <2>4, <2>5
  <1>3. CASE SkipBatch
    BY <1>a, <1>3 DEF SkipBatch
  <1>4. CASE StartBatch
    BY <1>a, <1>4 DEF StartBatch
  <1>5. CASE SubmitTask
    BY <1>a, <1>5 DEF SubmitTask
  <1>6. CASE Gathered
    BY <1>a, <1>6 DEF Gathered, Joined
  <1>7. CASE CommitTask
    BY <1>a, <1>7 DEF CommitTask
  <1>8. CASE EndBatch
    BY <1>a, <1>8 DEF EndBatch
  <1>9. CASE Finish
    BY <1>a, <1>9 DEF Finish
  <1>10. CASE LoadRaises
    BY <1>a, <1>10 DEF LoadRaises
  <1>11. CASE UpdateRaises
    BY <1>a, <1>11 DEF UpdateRaises
  <1>12. CASE PrepareTask
    <2>1. PICK t \in remaining :
            /\ \/ Hopeless(t) /\ FailUnprepared(t)
               \/ ~Hopeless(t) /\ Selectable(t) = {} /\ PutOff(t)
               \/ Selectable(t) \ Adapters # {} /\ FailUnprepared(t)
               \/ \E a \in Selectable(t) \cap Adapters : Assign(t, a)
      BY <1>12 DEF PrepareTask
    <2>2. UNCHANGED <<call, pc, placed, pool>> /\ pc = "prepare"
      BY <1>12 DEF PrepareTask
    <2>3. CASE FailUnprepared(t)
      BY <1>a, <2>2, <2>3 DEF FailUnprepared
    <2>4. CASE PutOff(t)
      BY <1>a, <2>2, <2>4 DEF PutOff
    <2>5. ASSUME NEW a \in Adapters, Assign(t, a)
          PROVE  Parts'
      <3>1. /\ prepared' = prepared \cup {t}
            /\ remaining' \subseteq remaining \ {t} /\ deferred \subseteq deferred'
            /\ remaining' \cup deferred' = (remaining \ {t}) \cup deferred
            /\ remaining' \cap deferred' = {}
            /\ pc' = "prepare" /\ UNCHANGED <<placed, submitted, output, result>>
        BY <1>a, <2>2, <2>5 DEF Assign
      <3>2. ListsDisjoint' /\ ListedStatus' /\ Eligible'
        BY <1>a, <2>2, <3>1
      <3>3. RunningIsPrepared' /\ SubmittedRuns' /\ NobodyForgotten' /\ VerdictAtEnd'
        BY <1>a, <2>2, <3>1
      <3> QED BY <3>2, <3>3
    <2> QED BY <2>1, <2>3, <2>4, <2>5
  <1>13. ASSUME NEW t \in Tasks, Attempt(t)
         PROVE  Parts'
    BY <1>a, <1>13 DEF Attempt
  <1>14. CASE UNCHANGED vars
    BY <1>a, <1>14 DEF vars
  <1> QED BY <1>1, <1>2, <1>3, <1>4, <1>5, <1>6, <1>7, <1>8, <1>9, <1>10, <1>11, <1>12, <1>13, <1>14 DEF Next, Main

(* Whatever memory files, agents and thread orders, a run's lists, statuses  *)
(* and counters keep their types (MultiAgentRuntime.run).                    *)
THEOREM RuntimeTypeCorrect == Spec => []TypeOK
  <1>1. Inv => TypeOK
    BY DEF Inv
  <1> QED BY <1>1, InvInit, InvStep, PTL DEF Spec

-----------------------------------------------------------------------------
(* Capacity: active_assignments counts at least the tasks of the batch.      *)

LEMMA GivenFinite ==
  ASSUME TypeOK, NEW a \in Agents
  PROVE  IsFiniteSet(Given(a)) /\ Cardinality(Given(a)) \in Nat
  <1>1. IsFiniteSet(Given(a))
    BY RuntimeAssumption, FS_Subset DEF TypeOK, Given
  <1> QED BY <1>1, FS_CardinalityType

LEMMA CountedInit == Init => Counted
  <1> SUFFICES ASSUME Init, NEW a \in Agents
               PROVE  Cardinality(Given(a)) <= active[a] /\ active[a] <= Capacity[a]
    BY DEF Counted
  <1>1. Given(a) = {} /\ active[a] = 0
    BY DEF Init, Given
  <1> QED BY <1>1, FS_EmptySet, RuntimeAssumption

(* What is given to an agent only grows where a task is assigned.            *)
LEMMA CountedShrinks ==
  ASSUME TypeOK, Counted, prepared' \subseteq prepared, UNCHANGED <<scheduled, agent, active>>
  PROVE  Counted'
  <1> SUFFICES ASSUME NEW a \in Agents
               PROVE  Cardinality(Given(a)') <= active[a] /\ (scheduled => active[a] <= Capacity[a])
    BY DEF Counted
  <1>1. Given(a)' \subseteq Given(a)
    BY DEF Given
  <1>2. Cardinality(Given(a)') <= Cardinality(Given(a)) /\ Cardinality(Given(a)') \in Nat
    BY <1>1, GivenFinite, FS_Subset, FS_CardinalityType
  <1> QED BY <1>2, GivenFinite DEF Counted, TypeOK

LEMMA CountedAssigned ==
  ASSUME TypeOK, Counted, NEW t \in Tasks, NEW b \in Agents, Assign(t, b), Free(b), UNCHANGED scheduled
  PROVE  Counted'
  <1> SUFFICES ASSUME NEW a \in Agents
               PROVE  Cardinality(Given(a)') <= active'[a] /\ (scheduled => active'[a] <= Capacity[a])
    BY DEF Counted
  <1>1. /\ Cardinality(Given(a)) <= active[a] /\ active[a] \in Nat
        /\ scheduled => active[a] <= Capacity[a]
    BY DEF Counted, TypeOK
  <1>2. CASE a = b
    <2>1. Given(a)' \subseteq Given(a) \cup {t}
      BY <1>2 DEF Given, Assign, TypeOK
    <2>2. /\ IsFiniteSet(Given(a) \cup {t})
          /\ Cardinality(Given(a) \cup {t}) \in Nat
          /\ Cardinality(Given(a) \cup {t}) <= Cardinality(Given(a)) + 1
      <3>1. IsFiniteSet(Given(a)) /\ Cardinality(Given(a)) \in Nat
        BY GivenFinite
      <3>2. /\ IsFiniteSet(Given(a) \cup {t})
            /\ Cardinality(Given(a) \cup {t}) =
                 IF t \in Given(a) THEN Cardinality(Given(a)) ELSE Cardinality(Given(a)) + 1
        BY <3>1, FS_AddElement, Zenon
      <3> QED BY <3>1, <3>2
    <2>3. Cardinality(Given(a)') <= Cardinality(Given(a) \cup {t}) /\ Cardinality(Given(a)') \in Nat
      BY <2>1, <2>2, FS_Subset, FS_CardinalityType
    <2>4. active'[a] = active[a] + 1
      BY <1>2 DEF Assign, TypeOK
    <2>5. scheduled => active[a] + 1 <= Capacity[a]
      BY <1>1, <1>2, RuntimeAssumption DEF Free
    <2> QED BY <1>1, <2>2, <2>3, <2>4, <2>5, GivenFinite
  <1>3. CASE a # b
    <2>1. Given(a)' \subseteq Given(a) /\ active'[a] = active[a]
      BY <1>3 DEF Given, Assign, TypeOK
    <2>2. Cardinality(Given(a)') <= Cardinality(Given(a)) /\ Cardinality(Given(a)') \in Nat
      BY <2>1, GivenFinite, FS_Subset, FS_CardinalityType
    <2> QED BY <1>1, <2>1, <2>2, GivenFinite
  <1> QED BY <1>2, <1>3

LEMMA CountedStep ==
  ASSUME TypeOK, Counted, [Next]_vars
  PROVE  Counted'
  <1> USE DEF call, batch, pool, result
  <1>1. CASE EnterBatch
    <2> SUFFICES ASSUME NEW a \in Agents
                 PROVE  Cardinality(Given(a)') <= active'[a] /\ active'[a] <= Capacity[a]
      BY DEF Counted
    <2>1. Given(a)' = {} /\ active'[a] = 0
      BY <1>1 DEF EnterBatch, Given
    <2> QED BY <2>1, FS_EmptySet, RuntimeAssumption
  <1>2. CASE PrepareTask
    <2>1. PICK t \in remaining :
            /\ \/ Hopeless(t) /\ FailUnprepared(t)
               \/ ~Hopeless(t) /\ Selectable(t) = {} /\ PutOff(t)
               \/ Selectable(t) \ Adapters # {} /\ FailUnprepared(t)
               \/ \E a \in Selectable(t) \cap Adapters : Assign(t, a)
      BY <1>2 DEF PrepareTask
    <2>2. UNCHANGED scheduled /\ t \in Tasks
      BY <1>2 DEF PrepareTask, TypeOK
    <2>3. CASE FailUnprepared(t) \/ PutOff(t)
      BY <2>2, <2>3, CountedShrinks DEF FailUnprepared, PutOff
    <2>4. ASSUME NEW b \in Selectable(t) \cap Adapters, Assign(t, b)
          PROVE  Counted'
      <3>1. b \in Agents /\ Free(b)
        BY RuntimeAssumption DEF Selectable
      <3> QED BY <2>2, <2>4, <3>1, CountedAssigned
    <2> QED BY <2>1, <2>3, <2>4
  <1>3. CASE EnterWave \/ SkipBatch \/ StartBatch \/ SubmitTask \/ Gathered \/ EndBatch \/ Finish
             \/ LoadRaises \/ UpdateRaises \/ UNCHANGED vars
    <2>1. prepared' = prepared /\ UNCHANGED <<scheduled, agent, active>>
      BY <1>3 DEF EnterWave, SkipBatch, StartBatch, SubmitTask, Gathered, EndBatch, Finish,
                  LoadRaises, UpdateRaises, vars
    <2> QED BY <2>1, CountedShrinks
  <1>4. CASE CommitTask
    <2>1. prepared' \subseteq prepared /\ UNCHANGED <<scheduled, agent, active>>
      BY <1>4 DEF CommitTask
    <2> QED BY <2>1, CountedShrinks
  <1>5. ASSUME NEW t \in Tasks, Attempt(t)
        PROVE  Counted'
    <2>1. prepared' = prepared /\ UNCHANGED <<scheduled, agent, active>>
      BY <1>5 DEF Attempt
    <2> QED BY <2>1, CountedShrinks
  <1> QED BY <1>1, <1>2, <1>3, <1>4, <1>5 DEF Next, Main

(* For any number of workers and whatever is put off and looked at again, a  *)
(* scheduled agent never has more running tasks than its capacity: every     *)
(* running task is on the list of the batch, and active_assignments bounds   *)
(* what of it an agent has (MultiAgentRuntime.run, AgentScheduler.rank).     *)
THEOREM CapacityHolds == Spec => []CapacityRespected
  <1>1. Inv /\ Counted => CapacityRespected
    <2> SUFFICES ASSUME Inv, Counted, scheduled, NEW a \in Agents
                 PROVE  Cardinality({t \in Tasks : status[t] = "running" /\ agent[t] = a}) <= Capacity[a]
      BY DEF CapacityRespected
    <2> DEFINE running == {t \in Tasks : status[t] = "running" /\ agent[t] = a}
    <2>1. TypeOK /\ running \subseteq Given(a)
      BY DEF Inv, RunningIsPrepared, Given
    <2>2. Cardinality(running) <= Cardinality(Given(a)) /\ Cardinality(running) \in Nat
      BY <2>1, GivenFinite, FS_Subset, FS_CardinalityType
    <2>3. Cardinality(Given(a)) <= active[a] /\ active[a] <= Capacity[a] /\ active[a] \in Nat
      BY <2>1 DEF Counted, TypeOK
    <2> QED BY <2>1, <2>2, <2>3, GivenFinite, RuntimeAssumption
  <1>2. Inv => TypeOK
    BY DEF Inv
  <1> QED BY <1>1, <1>2, InvInit, InvStep, CountedInit, CountedStep, PTL DEF Spec

-----------------------------------------------------------------------------
(* The promise of a task graph.                                              *)

Node == [t \in Tasks |-> NodeOf(t)]

LEMMA PromiseInit == Init => Promise!Init
  BY DEF Init, Promise!Init, NodeOf, VerdictOf

(* A step that changes neither what a task is in the graph nor the verdict.  *)
LEMMA Stutters ==
  ASSUME \A t \in Tasks : NodeOf(t)' = NodeOf(t), VerdictOf' = VerdictOf
  PROVE  UNCHANGED Promise!graphVars
  <1>1. Node' = Node
    BY DEF Node
  <1> QED BY <1>1 DEF Node, Promise!graphVars

(* A step that changes one task.                                             *)
LEMMA Changes ==
  ASSUME NEW t \in Tasks, NEW s, \A u \in Tasks \ {t} : NodeOf(u)' = NodeOf(u), NodeOf(t)' = s
  PROVE  Node' = [Node EXCEPT ![t] = s]
  BY DEF Node

(* A listed task may be begun or refused in the graph.                       *)
LEMMA ListedIsReady ==
  ASSUME Inv, NEW t \in Listed, pc \in {"batch", "prepare", "submit", "commit"}, NodeOf(t) = "waiting"
  PROVE  t \in Tasks /\ Promise!Ready(t)
  <1>1. t \in Tasks /\ verdict = "running" /\ \A d \in DependsOn[t] : d \in Tasks /\ status[d] = "passed"
    BY RuntimeAssumption DEF Inv, TypeOK, Listed, Eligible, VerdictAtEnd
  <1>2. \A d \in DependsOn[t] : NodeOf(d) = "completed"
    BY <1>1 DEF NodeOf
  <1> QED BY <1>1, <1>2 DEF Promise!Ready, VerdictOf

LEMMA PromiseStep ==
  ASSUME Inv, [Next]_vars
  PROVE  [Promise!Next]_Promise!graphVars
  <1> USE DEF call, batch, pool, result
  <1>1. CASE EnterWave
    <2>1. UNCHANGED <<submitted, verdict>> /\ verdict = "running"
      BY <1>1 DEF EnterWave, Inv, VerdictAtEnd
    <2>2. \A t \in Tasks : status'[t] = status[t] \/ (status[t] = "pending" /\ status'[t] = "blocked")
      BY <1>1 DEF EnterWave, Inv, NobodyForgotten
    <2>3. \A t \in Tasks : NodeOf(t)' = NodeOf(t)
      BY <2>1, <2>2 DEF NodeOf
    <2>4. VerdictOf' = VerdictOf
      BY <2>1 DEF VerdictOf
    <2> QED BY <2>3, <2>4, Stutters
  <1>2. CASE EnterBatch \/ SkipBatch \/ Gathered \/ EndBatch \/ LoadRaises \/ UpdateRaises \/ UNCHANGED vars
    <2>1. UNCHANGED <<status, submitted, verdict>>
      BY <1>2 DEF EnterBatch, SkipBatch, Gathered, EndBatch, LoadRaises, UpdateRaises, vars
    <2>2. \A t \in Tasks : NodeOf(t)' = NodeOf(t)
      BY <2>1 DEF NodeOf
    <2>3. VerdictOf' = VerdictOf
      BY <2>1 DEF VerdictOf
    <2> QED BY <2>2, <2>3, Stutters
  <1>3. ASSUME NEW t \in Tasks, Attempt(t)
        PROVE  UNCHANGED Promise!graphVars
    <2>1. UNCHANGED <<status, submitted, verdict>>
      BY <1>3 DEF Attempt
    <2>2. \A u \in Tasks : NodeOf(u)' = NodeOf(u)
      BY <2>1 DEF NodeOf
    <2>3. VerdictOf' = VerdictOf
      BY <2>1 DEF VerdictOf
    <2> QED BY <2>2, <2>3, Stutters
  <1>4. CASE PrepareTask
    <2>1. PICK t \in remaining :
            /\ \/ Hopeless(t) /\ FailUnprepared(t)
               \/ ~Hopeless(t) /\ Selectable(t) = {} /\ PutOff(t)
               \/ Selectable(t) \ Adapters # {} /\ FailUnprepared(t)
               \/ \E a \in Selectable(t) \cap Adapters : Assign(t, a)
      BY <1>4 DEF PrepareTask
    <2>2. /\ t \in Tasks /\ t \in Listed /\ pc = "prepare" /\ status[t] = "pending"
          /\ UNCHANGED <<submitted>>
      BY <1>4 DEF PrepareTask, Inv, TypeOK, Listed, ListedStatus
    <2>3. CASE FailUnprepared(t)
      <3>1. NodeOf(t) = "waiting"
        BY <2>2 DEF NodeOf
      <3>2. Promise!Ready(t)
        BY <2>2, <3>1, ListedIsReady
      <3>3. verdict' = verdict /\ status' = [status EXCEPT ![t] = "failed"]
        BY <2>3 DEF FailUnprepared
      <3>4. NodeOf(t)' = "failed" /\ \A u \in Tasks \ {t} : NodeOf(u)' = NodeOf(u)
        BY <2>2, <3>3 DEF NodeOf, Inv, TypeOK
      <3>5. Node' = [Node EXCEPT ![t] = "failed"] /\ VerdictOf' = VerdictOf
        BY <2>2, <3>3, <3>4, Changes DEF VerdictOf
      <3>6. Promise!Refuse(t)
        BY <3>2, <3>5 DEF Promise!Refuse, Node
      <3> QED BY <2>2, <3>6 DEF Promise!Next
    <2>4. CASE PutOff(t) \/ \E a \in Selectable(t) \cap Adapters : Assign(t, a)
      <3>1. UNCHANGED <<status, submitted, verdict>>
        BY <2>2, <2>4 DEF PutOff, Assign
      <3>2. \A u \in Tasks : NodeOf(u)' = NodeOf(u)
        BY <3>1 DEF NodeOf
      <3>3. VerdictOf' = VerdictOf
        BY <3>1 DEF VerdictOf
      <3> QED BY <3>2, <3>3, Stutters
    <2> QED BY <2>1, <2>3, <2>4
  <1>5. CASE StartBatch
    <2>1. UNCHANGED <<submitted, verdict>> /\ verdict = "running"
      BY <1>5 DEF StartBatch, Inv, VerdictAtEnd
    <2>2. \A t \in Tasks : status'[t] = status[t]
                           \/ (status[t] = "pending" /\ t \notin submitted /\ status'[t] = "running")
      BY <1>5 DEF StartBatch, Inv, ListedStatus, Listed, SubmittedRuns
    <2>3. \A t \in Tasks : NodeOf(t)' = NodeOf(t)
      BY <2>1, <2>2 DEF NodeOf
    <2>4. VerdictOf' = VerdictOf
      BY <2>1 DEF VerdictOf
    <2> QED BY <2>3, <2>4, Stutters
  <1>6. CASE SubmitTask
    <2>1. PICK t \in prepared \ submitted : submitted' = submitted \cup {t}
      BY <1>6 DEF SubmitTask
    <2>2. /\ t \in Tasks /\ t \in Listed /\ pc = "submit" /\ status[t] = "running"
          /\ UNCHANGED <<status, verdict>>
      BY <1>6 DEF SubmitTask, Inv, TypeOK, Listed, ListedStatus
    <2>3. NodeOf(t) = "waiting"
      BY <2>1, <2>2 DEF NodeOf
    <2>4. Promise!Ready(t)
      BY <2>2, <2>3, ListedIsReady
    <2>5. NodeOf(t)' = "running" /\ \A u \in Tasks \ {t} : NodeOf(u)' = NodeOf(u)
      BY <2>1, <2>2 DEF NodeOf
    <2>6. Node' = [Node EXCEPT ![t] = "running"] /\ VerdictOf' = VerdictOf
      BY <2>2, <2>5, Changes DEF VerdictOf
    <2>7. Promise!Begin(t)
      BY <2>4, <2>6 DEF Promise!Begin, Node
    <2> QED BY <2>2, <2>7 DEF Promise!Next
  <1>7. CASE CommitTask
    <2>1. PICK t \in prepared : status' = [status EXCEPT ![t] = output[t]]
      BY <1>7 DEF CommitTask
    <2>2. /\ t \in Tasks /\ t \in submitted /\ status[t] = "running" /\ output[t] \in {"passed", "failed"}
          /\ UNCHANGED <<submitted, verdict>> /\ verdict = "running"
      BY <1>7 DEF CommitTask, Inv, TypeOK, ListedStatus, SubmittedRuns, VerdictAtEnd
    <2>3. NodeOf(t) = "running"
      BY <2>2 DEF NodeOf
    <2>4. PICK s \in {"completed", "failed"} : NodeOf(t)' = s
      BY <2>1, <2>2 DEF NodeOf, Inv, TypeOK
    <2>5. \A u \in Tasks \ {t} : NodeOf(u)' = NodeOf(u)
      BY <2>1, <2>2 DEF NodeOf, Inv, TypeOK
    <2>6. Node' = [Node EXCEPT ![t] = s] /\ VerdictOf' = VerdictOf
      BY <2>2, <2>4, <2>5, Changes DEF VerdictOf
    <2>7. Promise!End(t)
      BY <2>2, <2>3, <2>6 DEF Promise!End, Node, VerdictOf
    <2> QED BY <2>2, <2>7 DEF Promise!Next
  <1>8. CASE Finish
    <2>1. /\ verdict = "running" /\ verdict' \in {"passed", "failed"} /\ UNCHANGED <<submitted>>
          /\ \A t \in Tasks : status[t] # "running"
      BY <1>8 DEF Finish, Inv, VerdictAtEnd, RunningIsPrepared
    <2>2. \A t \in Tasks : status'[t] = IF stopAll /\ status[t] = "pending" THEN "skipped" ELSE status[t]
      BY <1>8 DEF Finish
    <2>3. \A t \in Tasks : status'[t] # "pending"
      BY <1>8, <2>2 DEF Finish, Inv, TypeOK, NobodyForgotten, ListsDisjoint, Listed
    <2>4. VerdictOf = "open"
      BY <2>1 DEF VerdictOf
    <2>5. CASE verdict' = "passed"
      <3>1. \A t \in Tasks : status'[t] = "passed" /\ status[t] = "passed"
        BY <1>8, <2>2, <2>5 DEF Finish
      <3>2. \A t \in Tasks : NodeOf(t) = "completed" /\ NodeOf(t)' = "completed"
        BY <3>1 DEF NodeOf
      <3>3. Node' = Node /\ VerdictOf' = "completed"
        BY <2>5, <3>2 DEF Node, VerdictOf
      <3>4. Promise!Complete
        BY <2>4, <3>2, <3>3 DEF Promise!Complete, Node
      <3> QED BY <3>4 DEF Promise!Next
    <2>6. CASE verdict' = "failed"
      <3>1. VerdictOf' = "stopped"
        BY <2>6 DEF VerdictOf
      <3>2. \A t \in Tasks : NodeOf(t) # "running"
        BY <2>1 DEF NodeOf
      <3>3. \A t \in Tasks : NodeOf(t)' = IF NodeOf(t) = "waiting" THEN "skipped" ELSE NodeOf(t)
        BY <2>1, <2>2, <2>3, <2>6 DEF NodeOf, Inv, TypeOK, Statuses
      <3>4. Promise!Stop
        <4> DEFINE revoked == {}
        <4>1. revoked \in SUBSET {n \in Tasks : Node[n] = "completed"}
          OBVIOUS
        <4>2. \A n \in Tasks : Node[n] # "waiting" => DependsOn[n] \cap revoked = {}
          OBVIOUS
        <4>3. Node' = [n \in Tasks |-> IF n \in revoked THEN "failed"
                                       ELSE IF Node[n] = "waiting" THEN "skipped"
                                       ELSE Node[n]]
          BY <3>3 DEF Node
        <4>4. Promise!Idle
          BY <3>2 DEF Promise!Idle
        <4> QED BY <2>4, <3>1, <4>1, <4>2, <4>3, <4>4 DEF Promise!Stop, Node
      <3> QED BY <3>4 DEF Promise!Next
    <2> QED BY <2>1, <2>5, <2>6
  <1> QED BY <1>1, <1>2, <1>3, <1>4, <1>5, <1>6, <1>7, <1>8 DEF Next, Main

(* For any tasks, agents, capacities and policies the runtime implements the *)
(* promise of a task graph: what it submits has all its dependencies passed, *)
(* what it submitted is never given up, and its verdict is final             *)
(* (MultiAgentRuntime.run against TaskGraph.tla).                            *)
THEOREM PromiseHolds == Spec => KeepsPromise
  <1> QED BY InvInit, InvStep, PromiseInit, PromiseStep, PTL DEF Spec, KeepsPromise, Promise!Spec

-----------------------------------------------------------------------------
(* What the promise is worth: nothing is built on what did not complete.     *)

NodeStates == {"waiting", "running", "completed", "failed", "skipped"}

NodesTyped == Node \in [Tasks -> NodeStates]

BuiltOn == \A t \in Tasks : Node[t] \in {"running", "completed"} =>
             \A d \in DependsOn[t] : Node[d] = "completed"

LEMMA PromiseIsBuilt == Promise!BuiltOnCompleted <=> BuiltOn
  BY DEF Promise!BuiltOnCompleted, BuiltOn, Node

LEMMA NodesAreTyped == NodesTyped
  BY DEF NodesTyped, Node, NodeOf, NodeStates

(* One step per action of the promise; revising results at the end of a run  *)
(* spares those on which something was built.                                *)
LEMMA BuiltStep ==
  ASSUME BuiltOn, [Promise!Next]_Promise!graphVars
  PROVE  BuiltOn'
  <1>0. Node \in [Tasks -> NodeStates] /\ DependsOn \in [Tasks -> SUBSET Tasks]
    BY NodesAreTyped, RuntimeAssumption DEF NodesTyped
  <1>1. ASSUME NEW t \in Tasks, Promise!Ready(t), NEW s, Node' = [Node EXCEPT ![t] = s]
        PROVE  BuiltOn'
    <2>1. /\ Node[t] = "waiting" /\ \A d \in DependsOn[t] : Node[d] = "completed"
      BY <1>0, <1>1 DEF Promise!Ready, Node
    <2> QED BY <1>0, <1>1, <2>1 DEF BuiltOn
  <1>2. ASSUME NEW t \in Tasks, Promise!Begin(t) \/ Promise!Refuse(t)
        PROVE  BuiltOn'
    BY <1>1, <1>2 DEF Promise!Begin, Promise!Refuse, Node
  <1>3. ASSUME NEW t \in Tasks, Promise!End(t)
        PROVE  BuiltOn'
    <2>1. PICK s : Node' = [Node EXCEPT ![t] = s]
      BY <1>3 DEF Promise!End, Node
    <2>2. Node[t] = "running"
      BY <1>3 DEF Promise!End, Node
    <2> QED BY <1>0, <2>1, <2>2 DEF BuiltOn
  <1>4. CASE Promise!Complete
    BY <1>4 DEF Promise!Complete, BuiltOn, Node
  <1>5. CASE Promise!Stop
    <2>1. PICK revoked \in SUBSET {t \in Tasks : Node[t] = "completed"} :
            /\ \A t \in Tasks : Node[t] # "waiting" => DependsOn[t] \cap revoked = {}
            /\ Node' = [t \in Tasks |-> IF t \in revoked THEN "failed"
                                        ELSE IF Node[t] = "waiting" THEN "skipped" ELSE Node[t]]
      BY <1>5 DEF Promise!Stop, Node
    <2>2. ASSUME NEW t \in Tasks, Node'[t] \in {"running", "completed"}, NEW d \in DependsOn[t]
          PROVE  Node'[d] = "completed"
      <3>1. Node[t] \in {"running", "completed"} /\ d \notin revoked /\ d \in Tasks
        BY <1>0, <2>1, <2>2
      <3>2. Node[d] = "completed"
        BY <3>1 DEF BuiltOn
      <3> QED BY <2>1, <3>1, <3>2
    <2> QED BY <2>2 DEF BuiltOn
  <1>6. CASE UNCHANGED Promise!graphVars
    BY <1>6 DEF Promise!graphVars, BuiltOn, Node
  <1> QED BY <1>2, <1>3, <1>4, <1>5, <1>6 DEF Promise!Next

(* A task that was begun, or that passed, has all its dependencies passed,   *)
(* also after results were revised: of the promise alone, so of any runtime  *)
(* that keeps it.                                                            *)
THEOREM BuiltOnCompletedHolds == Promise!Spec => []Promise!BuiltOnCompleted
  <1>1. Promise!Init => BuiltOn
    BY DEF Promise!Init, BuiltOn, Node
  <1> QED BY <1>1, BuiltStep, PromiseIsBuilt, PTL DEF Promise!Spec

(* The multi-agent runtime is one of them.                                   *)
COROLLARY RuntimeBuildsOnPassed == Spec => []Promise!BuiltOnCompleted
  BY PromiseHolds, BuiltOnCompletedHolds, PTL DEF KeepsPromise

-----------------------------------------------------------------------------
(* A task that ran, failed and stops the run.                                *)

RanAndStops == \E s \in stops : s \in submitted /\ status[s] = "failed"

StopSeen == RanAndStops => stopAll = TRUE /\ pc \in {"commit", "batch", "wave", "done", "raised"}

Stopped == \A t \in Tasks : /\ status'[t] = "running" => status[t] = "running"
                            /\ verdict' # "running" => status'[t] # "pending"

LEMMA StopInit == Init => StopSeen
  BY DEF Init, StopSeen, RanAndStops

(* What failed before a step keeps the run where it is stopped.              *)
LEMMA StopStep ==
  ASSUME Inv, StopSeen, [Next]_vars
  PROVE  StopSeen' /\ (RanAndStops => Stopped \/ UNCHANGED vars)
  <1> USE DEF call, batch, pool, result
  <1>0. TypeOK /\ TypeOK'
    BY TypeStep DEF Inv
  <1>1. CASE EnterWave
    <2>1. ~RanAndStops /\ stops' = stops /\ submitted' = submitted
      BY <1>1 DEF EnterWave, StopSeen
    <2>2. \A t \in Tasks : status'[t] = status[t] \/ status'[t] = "blocked"
      BY <1>1 DEF EnterWave
    <2>3. ~RanAndStops'
      BY <1>0, <2>1, <2>2 DEF RanAndStops, TypeOK
    <2> QED BY <2>1, <2>3 DEF StopSeen
  <1>2. CASE PrepareTask
    <2>1. pc = "prepare" /\ ~RanAndStops /\ stops' = stops /\ submitted' = submitted
      BY <1>2 DEF PrepareTask, StopSeen
    <2>2. \A t \in Tasks : status'[t] = status[t] \/ (status[t] = "pending" /\ t \notin submitted)
      BY <1>2, <2>1 DEF PrepareTask, FailUnprepared, PutOff, Assign, Inv, TypeOK, ListedStatus, Listed,
                        SubmittedRuns
    <2>3. ~RanAndStops'
      BY <1>0, <2>1, <2>2 DEF RanAndStops, TypeOK
    <2> QED BY <2>1, <2>3 DEF StopSeen
  <1>3. CASE StartBatch
    <2>1. pc = "prepare" /\ ~RanAndStops /\ stops' = stops /\ submitted' = submitted
      BY <1>3 DEF StartBatch, StopSeen
    <2>2. \A t \in Tasks : status'[t] = status[t] \/ status'[t] = "running"
      BY <1>3 DEF StartBatch
    <2>3. ~RanAndStops'
      BY <1>0, <2>1, <2>2 DEF RanAndStops, TypeOK
    <2> QED BY <2>1, <2>3 DEF StopSeen
  <1>4. CASE SubmitTask
    <2>1. pc = "submit" /\ ~RanAndStops /\ UNCHANGED <<stops, status>>
      BY <1>4 DEF SubmitTask, StopSeen
    <2>2. \A t \in submitted' : t \in submitted \/ status[t] = "running"
      BY <1>4 DEF SubmitTask, Inv, ListedStatus
    <2>3. ~RanAndStops'
      BY <2>1, <2>2 DEF RanAndStops
    <2> QED BY <2>1, <2>3 DEF StopSeen
  <1>5. CASE CommitTask
    <2>1. PICK t \in prepared : /\ status' = [status EXCEPT ![t] = output[t]]
                                /\ stopAll' = (stopAll \/ (output[t] = "failed" /\ t \in stops))
      BY <1>5 DEF CommitTask
    <2>2. UNCHANGED <<pc, stops, submitted, verdict>> /\ pc = "commit" /\ t \in Tasks
      BY <1>0, <1>5 DEF CommitTask, TypeOK
    <2>3. verdict = "running" /\ output[t] # "none"
      BY <2>2 DEF Inv, VerdictAtEnd, SubmittedRuns
    <2>4. Stopped
      BY <1>0, <2>1, <2>2, <2>3 DEF Stopped, TypeOK
    <2>5. RanAndStops' => RanAndStops \/ (output[t] = "failed" /\ t \in stops)
      BY <1>0, <2>1, <2>2 DEF RanAndStops, TypeOK
    <2>6. RanAndStops' => stopAll'
      BY <2>1, <2>5 DEF StopSeen
    <2>7. stopAll' \in BOOLEAN
      BY <1>0 DEF TypeOK
    <2>8. RanAndStops' => stopAll' = TRUE
      BY <2>6, <2>7
    <2> QED BY <2>2, <2>4, <2>8 DEF StopSeen
  <1>6. CASE Finish
    <2>1. UNCHANGED <<stops, submitted, stopAll>> /\ pc' = "done"
      BY <1>6 DEF Finish
    <2>2. \A t \in Tasks : status'[t] = IF stopAll /\ status[t] = "pending" THEN "skipped" ELSE status[t]
      BY <1>6 DEF Finish
    <2>3. Stopped
      BY <1>6, <2>2 DEF Stopped, Finish, Inv, TypeOK, NobodyForgotten, ListsDisjoint, Listed
    <2>4. RanAndStops' => RanAndStops
      BY <1>0, <2>1, <2>2 DEF RanAndStops, TypeOK
    <2> QED BY <2>1, <2>3, <2>4 DEF StopSeen
  <1>7. CASE EnterBatch
    <2>1. UNCHANGED <<stops, submitted, status, stopAll, verdict>> /\ verdict = "running" /\ pc = "batch"
      BY <1>7 DEF EnterBatch, Inv, VerdictAtEnd
    <2>2. pc' = IF remaining # {} /\ ~stopAll THEN "prepare" ELSE "wave"
      BY <1>7 DEF EnterBatch, MoreBatches
    <2> QED BY <2>1, <2>2 DEF StopSeen, RanAndStops, Stopped
  <1>8. CASE SkipBatch \/ Gathered \/ EndBatch \/ LoadRaises \/ UpdateRaises
    <2>1. UNCHANGED <<stops, submitted, status, stopAll, verdict>> /\ verdict = "running"
      BY <1>8 DEF SkipBatch, Gathered, EndBatch, LoadRaises, UpdateRaises, Inv, VerdictAtEnd
    <2>2. pc \in {"prepare", "submit"} \/ pc' \in {"batch", "raised"}
      BY <1>8 DEF SkipBatch, Gathered, EndBatch, LoadRaises, UpdateRaises
    <2> QED BY <2>1, <2>2 DEF StopSeen, RanAndStops, Stopped
  <1>9. ASSUME NEW t \in Tasks, Attempt(t)
        PROVE  StopSeen' /\ (RanAndStops => Stopped)
    <2>1. UNCHANGED <<pc, stops, submitted, status, stopAll, verdict>>
      BY <1>9 DEF Attempt
    <2>2. \A u \in Tasks : verdict # "running" => status[u] # "pending"
      BY DEF Inv, VerdictAtEnd, NobodyForgotten
    <2> QED BY <2>1, <2>2 DEF StopSeen, RanAndStops, Stopped
  <1>10. CASE UNCHANGED vars
    BY <1>10 DEF vars, StopSeen, RanAndStops
  <1> QED BY <1>1, <1>2, <1>3, <1>4, <1>5, <1>6, <1>7, <1>8, <1>9, <1>10 DEF Next, Main

(* For any tasks, policies and thread orders: once a task whose failure      *)
(* stops the run has run and failed, nothing is begun, and what never began  *)
(* is not left pending (the loops of MultiAgentRuntime.run on stop_all).     *)
THEOREM StopStopsHolds == Spec => StopStops
  <1>1. ASSUME Inv, StopSeen, [Next]_vars
        PROVE  StopSeen' /\ [(\E s \in stops : s \in submitted /\ status[s] = "failed") =>
                               \A t \in Tasks : /\ status'[t] = "running" => status[t] = "running"
                                                /\ verdict' # "running" => status'[t] # "pending"]_vars
    BY <1>1, StopStep DEF RanAndStops, Stopped
  <1> QED BY <1>1, InvInit, InvStep, StopInit, PTL DEF Spec, StopStops
=============================================================================
