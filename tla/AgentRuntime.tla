---------------------------- MODULE AgentRuntime ----------------------------
(***************************************************************************)
(* MultiAgentRuntime.run: tasks by waves of their dependencies, a wave in  *)
(* batches, a batch on a thread pool, each task by one agent with retries. *)
(* The calling thread selects agents, submits, waits for the whole batch,  *)
(* and takes the outputs and memory updates in task order.                 *)
(*                                                                         *)
(* Lists of tasks of a wave are sorted and only ever filtered, so they are *)
(* sets here, taken from the least task up.                                *)
(***************************************************************************)
EXTENDS Integers, FiniteSets

CONSTANTS Tasks,        \* ids, ordered as numbers are
          DependsOn,
          Agents,
          Capable,      \* per task: the agents with its capabilities
          Preferred,    \* per task: its preferred agent, or None
          Capacity,     \* per agent: its tasks at a time, by the scheduler's profile
          MaxAttempts,  \* per agent
          Adapters,     \* agents whose adapter is registered
          MaxWorkers,
          None

\* The scheduler's capacities and the agents' attempts are at least 1 (from_dict); validate_graph
\* refuses unknown dependencies and cycles.
ASSUME RuntimeAssumption ==
    /\ Tasks \subseteq Nat /\ IsFiniteSet(Tasks)
    /\ DependsOn \in [Tasks -> SUBSET Tasks]
    /\ Capable \in [Tasks -> SUBSET Agents]
    /\ Preferred \in [Tasks -> Agents \cup {None}] /\ None \notin Agents
    /\ Capacity \in [Agents -> Nat \ {0}] /\ MaxAttempts \in [Agents -> Nat \ {0}]
    /\ Adapters \subseteq Agents
    /\ MaxWorkers \in Nat \ {0}

ASSUME AcyclicAssumption ==
    \A S \in SUBSET Tasks : S = {} \/ \E t \in S : DependsOn[t] \cap S = {}

VARIABLES scheduled,    \* whether the runtime was given a scheduler
          stops,        \* tasks whose failure policy is "stop"
          pc,           \* where the calling thread is
          placed,       \* tasks of the waves that were entered
          remaining,    \* tasks of the wave to look at
          deferred,     \* tasks put off to the next batch of the wave
          prepared,     \* tasks of the batch
          active,       \* per agent: its tasks in the batch (active_assignments)
          agent,        \* per task: the agent it was given
          submitted,    \* tasks handed to the pool
          attempts,     \* per task: attempts its thread made
          output,       \* per task: what its thread returned
          status,       \* per task, in the saved state
          stopAll,
          verdict       \* status of the run, in the saved state

call == <<scheduled, stops>>
batch == <<remaining, deferred, prepared, active, agent>>
pool == <<submitted, attempts, output>>
result == <<status, stopAll, verdict>>
vars == <<call, pc, placed, batch, pool, result>>

Init ==
    /\ scheduled \in BOOLEAN /\ stops \in SUBSET Tasks
    /\ pc = "wave" /\ placed = {}
    /\ remaining = {} /\ deferred = {} /\ prepared = {}
    /\ active = [a \in Agents |-> 0]
    /\ agent = [t \in Tasks |-> None]
    /\ submitted = {}
    /\ attempts = [t \in Tasks |-> 0]
    /\ output = [t \in Tasks |-> "none"]
    /\ status = [t \in Tasks |-> "pending"]
    /\ stopAll = FALSE /\ verdict = "running"

First(t, S) == t \in S /\ \A u \in S : t <= u

\* Mutant of Blocked: only a dependency that ran and failed blocks.
BlockedByFailure(t) == \E d \in DependsOn[t] : status[d] = "failed"

Blocked(t) == \E d \in DependsOn[t] : status[d] # "passed"

\* The next wave (execution_waves), without the tasks a dependency blocks.
EnterWave ==
    /\ pc = "wave" /\ ~stopAll /\ placed # Tasks
    /\ LET wave == {t \in Tasks \ placed : DependsOn[t] \subseteq placed}
           blocked == {t \in wave : Blocked(t)}
       IN /\ placed' = placed \cup wave
          /\ status' = [t \in Tasks |-> IF t \in blocked THEN "blocked" ELSE status[t]]
          /\ remaining' = wave \ blocked
    /\ pc' = "batch"
    /\ UNCHANGED <<call, deferred, prepared, active, agent, pool, stopAll, verdict>>

MoreBatches == remaining # {} /\ ~stopAll

EnterBatch ==
    /\ pc = "batch"
    /\ pc' = IF MoreBatches THEN "prepare" ELSE "wave"
    /\ prepared' = {} /\ deferred' = {}
    /\ active' = [a \in Agents |-> 0]
    /\ UNCHANGED <<call, placed, remaining, agent, pool, result>>

-----------------------------------------------------------------------------
(* Selection of agents for a batch.                                        *)

\* Agents that may be given a task, whatever they do already.
Candidates(t) ==
    IF scheduled \/ Preferred[t] = None THEN Capable[t] ELSE Capable[t] \cap {Preferred[t]}

\* The scheduler skips agents without capacity; the registry does not look at it.
Free(a) == ~scheduled \/ active[a] < Capacity[a]

Selectable(t) == {a \in Candidates(t) : Free(a)}

\* A task whose agents are all busy with this batch.
PutOff(t) ==
    /\ remaining' = remaining \ {t}
    /\ deferred' = deferred \cup {t}
    /\ UNCHANGED <<prepared, active, agent, result>>

\* When the batch is full, what is left of the wave is put off.
Assign(t, a) ==
    /\ prepared' = prepared \cup {t}
    /\ active' = [active EXCEPT ![a] = @ + 1]
    /\ agent' = [agent EXCEPT ![t] = a]
    /\ IF Cardinality(prepared') >= MaxWorkers
       THEN remaining' = {} /\ deferred' = deferred \cup (remaining \ {t})
       ELSE remaining' = remaining \ {t} /\ UNCHANGED deferred
    /\ UNCHANGED result

\* A task that no agent can ever run, or whose agent has no adapter.
FailUnprepared(t) ==
    /\ remaining' = remaining \ {t}
    /\ status' = [status EXCEPT ![t] = "failed"]
    /\ stopAll' = (stopAll \/ t \in stops)
    /\ UNCHANGED <<deferred, prepared, active, agent, verdict>>

\* Mutant of Hopeless: the scheduler's refusal alone puts a task off.
HopelessUnscheduled(t) == Candidates(t) = {} /\ ~scheduled

Hopeless(t) == Candidates(t) = {}

PrepareTask ==
    /\ pc = "prepare"
    /\ \E t \in remaining :
         /\ First(t, remaining)
         /\ \/ Hopeless(t) /\ FailUnprepared(t)
            \/ ~Hopeless(t) /\ Selectable(t) = {} /\ PutOff(t)
            \/ Selectable(t) \ Adapters # {} /\ FailUnprepared(t)
            \/ \E a \in Selectable(t) \cap Adapters : Assign(t, a)
    /\ UNCHANGED <<call, pc, placed, pool>>

\* The agent's memory cannot be read: the exception leaves run(), and the saved state stays.
LoadRaises ==
    /\ pc = "prepare"
    /\ \E t \in remaining : First(t, remaining) /\ Selectable(t) \cap Adapters # {}
    /\ pc' = "raised"
    /\ UNCHANGED <<call, placed, batch, pool, result>>

\* Nothing was prepared: what was put off is looked at again.
SkipBatch ==
    /\ pc = "prepare" /\ remaining = {} /\ prepared = {}
    /\ remaining' = deferred
    /\ pc' = "batch"
    /\ UNCHANGED <<call, placed, deferred, prepared, active, agent, pool, result>>

-----------------------------------------------------------------------------
(* A batch.                                                                *)

StartBatch ==
    /\ pc = "prepare" /\ remaining = {} /\ prepared # {}
    /\ status' = [t \in Tasks |-> IF t \in prepared THEN "running" ELSE status[t]]
    /\ pc' = "submit"
    /\ UNCHANGED <<call, placed, batch, pool, stopAll, verdict>>

SubmitTask ==
    /\ pc = "submit"
    /\ \E t \in prepared \ submitted :
         First(t, prepared \ submitted) /\ submitted' = submitted \cup {t}
    /\ UNCHANGED <<call, pc, placed, batch, attempts, output, result>>

\* One attempt of _execute_prepared, on a thread of the pool; an exception is a failed output.
Attempt(t) ==
    /\ t \in submitted /\ output[t] = "none"
    /\ attempts' = [attempts EXCEPT ![t] = @ + 1]
    /\ \/ output' = [output EXCEPT ![t] = "passed"]
       \/ output' = [output EXCEPT ![t] = IF attempts'[t] >= MaxAttempts[agent[t]] THEN "failed" ELSE "none"]
    /\ UNCHANGED <<call, pc, placed, batch, submitted, result>>

\* The results of all futures, in task order.
Joined == prepared \subseteq submitted /\ \A t \in prepared : output[t] # "none"

Gathered ==
    /\ pc = "submit" /\ Joined
    /\ pc' = "commit"
    /\ UNCHANGED <<call, placed, batch, pool, result>>

\* Outputs are taken over one by one, and with them the memory updates.
CommitTask ==
    /\ pc = "commit"
    /\ \E t \in prepared :
         /\ First(t, prepared)
         /\ status' = [status EXCEPT ![t] = output[t]]
         /\ stopAll' = (stopAll \/ (output[t] = "failed" /\ t \in stops))
         /\ prepared' = prepared \ {t}
    /\ UNCHANGED <<call, pc, placed, remaining, deferred, active, agent, pool, verdict>>

\* The agent's memory cannot be written.
UpdateRaises ==
    /\ pc = "commit" /\ prepared # {}
    /\ pc' = "raised"
    /\ UNCHANGED <<call, placed, batch, pool, result>>

EndBatch ==
    /\ pc = "commit" /\ prepared = {}
    /\ remaining' = deferred
    /\ pc' = "batch"
    /\ UNCHANGED <<call, placed, deferred, prepared, active, agent, pool, result>>

Finish ==
    /\ pc = "wave" /\ (stopAll \/ placed = Tasks)
    /\ status' = [t \in Tasks |-> IF stopAll /\ status[t] = "pending" THEN "skipped" ELSE status[t]]
    /\ verdict' = IF Tasks # {} /\ \A t \in Tasks : status'[t] = "passed" THEN "passed" ELSE "failed"
    /\ pc' = "done"
    /\ UNCHANGED <<call, placed, batch, pool, stopAll>>

\* The calling thread, as long as memory files can be used.
Main ==
    \/ EnterWave \/ EnterBatch \/ PrepareTask \/ SkipBatch \/ StartBatch
    \/ SubmitTask \/ Gathered \/ CommitTask \/ EndBatch \/ Finish

Next == Main \/ LoadRaises \/ UpdateRaises \/ \E t \in Tasks : Attempt(t)

\* The calling thread goes on, and adapters end by their timeout.
Fairness == WF_vars(Main) /\ \A t \in Tasks : WF_vars(Attempt(t))

Spec == Init /\ [][Next]_vars /\ Fairness

-----------------------------------------------------------------------------
(* Properties.                                                             *)

Statuses == {"pending", "blocked", "running", "passed", "failed", "skipped"}

TypeOK ==
    /\ scheduled \in BOOLEAN /\ stops \subseteq Tasks
    /\ pc \in {"wave", "batch", "prepare", "submit", "commit", "done", "raised"}
    /\ placed \subseteq Tasks /\ remaining \subseteq Tasks /\ deferred \subseteq Tasks
    /\ prepared \subseteq Tasks /\ submitted \subseteq Tasks
    /\ active \in [Agents -> Nat]
    /\ agent \in [Tasks -> Agents \cup {None}]
    /\ attempts \in [Tasks -> Nat]
    /\ output \in [Tasks -> {"none", "passed", "failed"}]
    /\ status \in [Tasks -> Statuses]
    /\ stopAll \in BOOLEAN /\ verdict \in {"running", "passed", "failed"}

\* docs/multi-agent-runtime.md: "Scheduler capacity is applied before a batch is started, so an agent
\* is never assigned more concurrent work than its declared capacity", also when tasks are put off and
\* looked at again while the wave goes on.
CapacityRespected ==
    scheduled => \A a \in Agents : Cardinality({t \in Tasks : status[t] = "running" /\ agent[t] = a}) <= Capacity[a]

\* Once a task with the policy "stop" has run and failed, nothing else is begun, in its own wave (what
\* was put off) or a later one, and what never began ends skipped, not pending.
StopStops ==
    [][(\E s \in stops : s \in submitted /\ status[s] = "failed") =>
         \A t \in Tasks : /\ status'[t] = "running" => status[t] = "running"
                          /\ verdict' # "running" => status'[t] # "pending"]_vars

\* Every task of a run ends in a final state and the run with it, unless a memory file cannot be used;
\* putting tasks off never goes on for ever.
RunFinishes ==
    <>(pc = "raised" \/ (verdict # "running" /\ \A t \in Tasks : status[t] \notin {"pending", "running"}))

\* A blocked task is one the run ends without having begun it.
NodeOf(t) ==
    CASE status[t] = "passed" -> "completed"
      [] status[t] = "failed" -> "failed"
      [] status[t] = "running" /\ t \in submitted -> "running"
      [] status[t] = "skipped" \/ (status[t] = "blocked" /\ verdict # "running") -> "skipped"
      [] OTHER -> "waiting"

VerdictOf == CASE verdict = "running" -> "open" [] verdict = "passed" -> "completed" [] OTHER -> "stopped"

Promise == INSTANCE TaskGraph WITH Nodes <- Tasks, node <- [t \in Tasks |-> NodeOf(t)], verdict <- VerdictOf

\* The runtime keeps the promise of a task graph (TaskGraph.tla), like the runtime of Codex graphs.
KeepsPromise == Promise!Spec
=============================================================================
