----------------------------- MODULE CodexGraph ------------------------------
(***************************************************************************)
(* CodexGraphRuntime of drivers/codex_runtime.py: one run of an approved   *)
(* task graph over a clean Git worktree.  Waves follow one another; a wave *)
(* runs its nodes one by one, or on a thread pool when the nodes own       *)
(* disjoint scopes.  The provider behind a node is the environment: it     *)
(* changes the worktree, reports some of what it changed and some usage.   *)
(*                                                                         *)
(* Of Git status the audit reads one code per path, so that is the         *)
(* worktree: content that changes under an unchanged code is not seen, by  *)
(* the model's audit as little as by the code's.                           *)
(***************************************************************************)
EXTENDS TokenLedger, FiniteSets, Sequences

CONSTANTS
  Waves,        \* the waves of node identifiers, in the order of the graph
  DependsOn,    \* per node: the nodes of earlier waves it depends on
  Writers,      \* nodes whose role must change something
  Limit,        \* per node: its locked token allocation
  Paths,
  Exact,        \* per node: files it owns by name
  Creation,     \* per node: paths below a directory it may create files in
  Base,         \* paths in HEAD when the run starts
  MaxParallel,  \* max_parallel_nodes
  Pooled,       \* whether the driver has parallel nodes: a set of answers
  HasBeginRun,  \* whether it has a begin_run(); RoutedCodexNodeDriver has none
  Usages,       \* bound: usage records providers report
  MaxChanges    \* bound: paths one provider changes, each once

Nodes == Operations

InWave(w) == {Waves[w][i] : i \in 1..Len(Waves[w])}

Owned(n) == Exact[n] \cup Creation[n]

ASSUME GraphAssumption ==
  /\ Waves \in Seq(Seq(Nodes)) /\ Len(Waves) > 0
  /\ Writers \subseteq Nodes /\ Base \subseteq Paths
  /\ DependsOn \in [Nodes -> SUBSET Nodes]
  /\ Limit \in [Nodes -> Nat \ {0}]
  /\ Exact \in [Nodes -> SUBSET Paths] /\ Creation \in [Nodes -> SUBSET Paths]
  /\ MaxParallel \in Nat \ {0} /\ Pooled \subseteq BOOLEAN /\ HasBeginRun \in BOOLEAN
  /\ Usages \subseteq Usage
  /\ MaxChanges \in Nat
  \* AgentRunGraph.validate(): every node is in one wave, after its dependencies.
  /\ \A n \in Nodes : \E w \in 1..Len(Waves) :
       /\ n \in InWave(w)
       /\ \A v \in 1..Len(Waves) : n \in InWave(v) => v = w
       /\ \A d \in DependsOn[n] : \E v \in 1..(w - 1) : d \in InWave(v)
  /\ \A n \in Nodes \ Writers : Owned(n) = {}

VARIABLES
  pooled,       \* supports_parallel_nodes of the driver
  phase,        \* "new", "boot", "wave", "serial", "parallel" or "done"
  wave,         \* number of the current wave
  st, code,     \* per node: status and error code of its result
  changed,      \* per node: changed_files of its result
  existing,     \* per node: files its creation scopes held when it was entered
  outcome,      \* status and error code of the run
  git, base, head,   \* worktree: status code per path, paths in HEAD, commits
  snap,         \* the snapshot the next audit compares with
  cancelRequested, driverCancel, canceller,
  touched,      \* history: paths the provider of each node changed
  refused       \* history: nodes the ledger refused

nodeVars   == <<st, code, changed, existing>>
treeVars   == <<git, base, head>>
cancelVars == <<cancelRequested, driverCancel, canceller>>
ghostVars  == <<touched, refused>>
vars == <<pooled, phase, wave, nodeVars, outcome, treeVars, snap, cancelVars, ghostVars,
          ledgerVars>>

Ended == {"completed", "failed", "cancelled", "timed_out", "unavailable"}
NodeStates == {"waiting", "admitted", "provider", "skipped"} \cup Ended
RunStates == {"none"} \cup Ended
Codes == {"none", "budget_exceeded", "launch_failed", "objective_not_met", "timeout",
          "scope_violation", "cancelled", "process_failed", "dirty_worktree",
          "installation_missing"}

Active == {n \in Nodes : st[n] \in {"admitted", "provider"}}

Current == InWave(wave)

Snapshot == [git |-> git, head |-> head]

-----------------------------------------------------------------------------
(* Cancellation, from another thread: the flag, then the driver.           *)

CancelRun ==
  /\ canceller = "idle" /\ phase # "done"
  /\ cancelRequested' = TRUE
  /\ canceller' = "flagged"
  /\ UNCHANGED <<pooled, phase, wave, nodeVars, outcome, treeVars, snap, driverCancel,
                 ghostVars, ledgerVars>>

\* Fault: the driver is never told.
CancelUnsent ==
  /\ canceller = "flagged"
  /\ canceller' = "done"
  /\ UNCHANGED <<pooled, phase, wave, nodeVars, outcome, treeVars, snap, cancelRequested,
                 driverCancel, ghostVars, ledgerVars>>

CancelDriver ==
  /\ canceller = "flagged"
  /\ driverCancel' = TRUE
  /\ canceller' = "done"
  /\ UNCHANGED <<pooled, phase, wave, nodeVars, outcome, treeVars, snap, cancelRequested,
                 ghostVars, ledgerVars>>

-----------------------------------------------------------------------------
(* The run.                                                                *)

Finished(status, error) ==
  /\ phase' = "done"
  /\ outcome' = [status |-> status, error |-> error]

\* Under the lifecycle lock: a cancellation is seen, or the driver is cleared
\* of the cancellation of an earlier run.
Start ==
  /\ phase = "new"
  /\ \/ /\ cancelRequested
        /\ Finished("cancelled", "cancelled")
        /\ UNCHANGED driverCancel
     \/ /\ ~cancelRequested
        /\ phase' = "boot"
        /\ driverCancel' = (driverCancel /\ ~HasBeginRun)
        /\ UNCHANGED outcome
  /\ UNCHANGED <<pooled, wave, nodeVars, treeVars, snap, cancelRequested, canceller,
                 ghostVars, ledgerVars>>

\* inspect_installation(), then the worktree must be clean.
Boot ==
  /\ phase = "boot"
  /\ \/ Finished("unavailable", "installation_missing")
     \/ /\ \E p \in Paths : git[p] # "none"
        /\ Finished("failed", "dirty_worktree")
     \/ /\ \A p \in Paths : git[p] = "none"
        /\ phase' = "wave"
        /\ UNCHANGED outcome
  /\ UNCHANGED <<pooled, wave, nodeVars, treeVars, snap, cancelVars, ghostVars, ledgerVars>>

\* The run stops: what has not started is recorded as skipped.
Halt(states, status, error) ==
  /\ Finished(status, error)
  /\ st' = [n \in Nodes |-> IF states[n] = "waiting" THEN "skipped" ELSE states[n]]

\* No two scopes of a wave overlap.
CanParallelize ==
  /\ MaxParallel > 1 /\ pooled /\ Cardinality(Current) > 1
  /\ \A m, n \in Current : m # n => Owned(m) \cap Owned(n) = {}

BeginWave ==
  /\ phase = "wave"
  /\ \/ /\ cancelRequested
        /\ Halt(st, "cancelled", "cancelled")
        /\ UNCHANGED snap
     \/ /\ ~cancelRequested
        /\ phase' = IF CanParallelize THEN "parallel" ELSE "serial"
        /\ snap' = IF CanParallelize THEN Snapshot ELSE snap
        /\ UNCHANGED <<st, outcome>>
  /\ UNCHANGED <<pooled, wave, code, changed, existing, treeVars, cancelVars, ghostVars, ledgerVars>>

\* The next node of the wave in its order, when the wave may start one more.
IsNext(n) ==
  /\ n \in Current /\ st[n] = "waiting"
  /\ \E i \in 1..Len(Waves[wave]) :
       Waves[wave][i] = n /\ \A j \in 1..(i - 1) : st[Waves[wave][j]] # "waiting"
  /\ \/ phase = "serial" /\ Active = {} /\ \A m \in Current : st[m] \in {"waiting", "completed"}
     \/ phase = "parallel" /\ Cardinality(Active) < MaxParallel

\* Before a node of a serial wave; a thread of the pool does not look.
CancelWave ==
  /\ phase = "serial" /\ cancelRequested
  /\ \E n \in Nodes : IsNext(n)
  /\ Halt(st, "cancelled", "cancelled")
  /\ UNCHANGED <<pooled, wave, code, changed, existing, treeVars, snap, cancelVars, ghostVars,
                 ledgerVars>>

MayEnter(n) == IsNext(n) /\ (phase = "serial" => ~cancelRequested)

\* _execute_node() up to the reservation: the prompt exceeds the allocation,
\* or the ledger refuses it.
RefuseNode(n) ==
  /\ MayEnter(n)
  /\ st' = [st EXCEPT ![n] = "failed"]
  /\ code' = [code EXCEPT ![n] = "budget_exceeded"]
  /\ \/ UNCHANGED refused
     \/ Refuses(n, Limit[n]) /\ refused' = refused \cup {n}
  /\ UNCHANGED <<pooled, phase, wave, changed, existing, outcome, treeVars, snap, cancelVars,
                 touched, ledgerVars>>

Exists(p) == git[p] \in {"M", "??"} \/ (git[p] = "none" /\ p \in base)

EnterNode(n) ==
  /\ MayEnter(n)
  /\ Admit(n, Limit[n])
  /\ st' = [st EXCEPT ![n] = "admitted"]
  /\ existing' = [existing EXCEPT ![n] = {p \in Creation[n] : Exists(p)}]
  /\ snap' = IF phase = "serial" THEN Snapshot ELSE snap
  /\ UNCHANGED <<pooled, phase, wave, code, changed, outcome, treeVars, cancelVars, ghostVars>>

\* The driver looks at its own cancel flag.  A node that passes is "provider":
\* its process is launched, or fails to, some time after the look.
PassCancelCheck(n) ==
  /\ st[n] = "admitted" /\ ~driverCancel
  /\ st' = [st EXCEPT ![n] = "provider"]
  /\ UNCHANGED <<pooled, phase, wave, code, changed, existing, outcome, treeVars, snap,
                 cancelVars, ghostVars, ledgerVars>>

-----------------------------------------------------------------------------
(* The provider of a node at work.                                         *)

\* The status codes a change can leave a path with.
CodesAfter(p) ==
  IF p \in base THEN IF git[p] = "M" THEN {"none", "M", "D"} ELSE {"none", "M", "D"} \ {git[p]}
  ELSE IF git[p] = "??" THEN {"none", "??"} ELSE {"??"}

Change(n) ==
  /\ st[n] = "provider" /\ Cardinality(touched[n]) < MaxChanges
  /\ \E p \in Paths \ touched[n] : \E s \in CodesAfter(p) :
       /\ git' = [git EXCEPT ![p] = s]
       /\ touched' = [touched EXCEPT ![n] = @ \cup {p}]
  /\ UNCHANGED <<pooled, phase, wave, nodeVars, outcome, base, head, snap, cancelVars, refused,
                 ledgerVars>>

\* Bound: one commit.
Commit(n) ==
  /\ st[n] = "provider" /\ head = 0
  /\ head' = 1
  /\ base' = {p \in Paths : Exists(p)}
  /\ git' = [p \in Paths |-> "none"]
  /\ UNCHANGED <<pooled, phase, wave, nodeVars, outcome, snap, cancelVars, ghostVars, ledgerVars>>

-----------------------------------------------------------------------------
(* The provider is through: audit, judgement, settlement.                  *)

\* _snapshot_delta()
Delta(before) == {p \in Paths : git[p] # before.git[p]}

Unauthorized(paths, owned, exact, present) ==
  {p \in paths : p \notin owned \/ (p \in present /\ p \notin exact)}

Ran(s, e) == [status |-> s, error |-> e]

\* What a driver can return. "pass": with the marker of a met objective,
\* "fail": with a declared failure, "silent": with neither.
Returned(n, how) ==
  CASE how \in {"pass", "fail", "silent"} -> Ran("completed", "none")
    [] how = "cancelled" -> Ran("cancelled", "cancelled")
    [] how = "timed_out" -> Ran("timed_out", "timeout")
    [] how = "over"      -> Ran("failed", "budget_exceeded")
    [] how = "raised"    -> Ran("failed", "launch_failed")
    [] how = "missing"   -> Ran("unavailable", "installation_missing")
    [] OTHER             -> Ran("failed", "process_failed")

\* Fault: the audited changes of a node are recorded, not judged.
JudgeReported(n, how, reported, audited, moved) ==
  IF Unauthorized(reported, Owned(n), Exact[n], existing[n]) # {} \/ moved
  THEN Ran("failed", "scope_violation") ELSE Returned(n, how)

Judge(n, how, reported, audited, moved) ==
  LET all == reported \cup audited IN
  IF Unauthorized(all, Owned(n), Exact[n], existing[n]) # {} \/ moved
  THEN Ran("failed", "scope_violation")
  ELSE IF \/ n \in Writers /\ all = {} /\ how \in {"silent", "fail"}
          \/ how = "fail"
  THEN Ran("failed", "objective_not_met")
  ELSE Returned(n, how)

\* Fault: the node's record keeps only what its provider reported.
RecordedReported(reported, audited) == reported

Recorded(reported, audited) == reported \cup audited

\* The rest of _execute_node().  A wave on the pool is audited as a whole,
\* so its nodes are judged by what their providers report.
Conclude(n, how, reported, usage) ==
  LET audited == IF phase = "serial" THEN Delta(snap) ELSE {}
      moved   == phase = "serial" /\ head # snap.head
      result  == Judge(n, how, reported, audited, moved) IN
  /\ st' = [st EXCEPT ![n] = result.status]
  /\ code' = [code EXCEPT ![n] = result.error]
  /\ changed' = [changed EXCEPT ![n] = Recorded(reported, audited)]
  /\ Settle(n, usage)
  /\ UNCHANGED <<pooled, phase, wave, existing, outcome, treeVars, snap, cancelVars, ghostVars>>

\* Cancelled before the process started.
NeverLaunched(n) ==
  /\ st[n] = "admitted" /\ driverCancel
  /\ Conclude(n, "cancelled", {}, NoUsage)

\* The driver polls its cancel flag until the process ends.
ProviderReturns(n) ==
  /\ st[n] = "provider"
  /\ \E how \in {"pass", "fail", "silent", "over", "timed_out", "other"}
                  \cup IF driverCancel THEN {"cancelled"} ELSE {} :
     \E reported \in SUBSET touched[n] :
     \E usage \in Usages \cup {NoUsage} :
       Conclude(n, how, reported, usage)

\* The installation was ready when the run began.
Unavailable(n) ==
  /\ st[n] = "admitted"
  /\ Conclude(n, "missing", {}, NoUsage)

ProviderRaises(n) ==
  /\ st[n] \in {"admitted", "provider"}
  /\ Conclude(n, "raised", {}, NoUsage)

-----------------------------------------------------------------------------
(* The end of a wave.                                                      *)

\* The first result of the wave that is not completed decides.
FirstFailed(states) ==
  LET W == Waves[wave]
      i == CHOOSE i \in 1..Len(W) : /\ states[W[i]] # "completed"
                                    /\ \A j \in 1..(i - 1) : states[W[j]] = "completed"
  IN W[i]

\* Fault: the next wave is entered whatever happened in this one.
AdvanceAlways(states, codes) ==
  IF wave < Len(Waves)
  THEN phase' = "wave" /\ wave' = wave + 1 /\ st' = states /\ UNCHANGED outcome
  ELSE Halt(states, "completed", "none") /\ UNCHANGED wave

Advance(states, codes) ==
  IF \E n \in Current : states[n] # "completed"
  THEN /\ LET n == FirstFailed(states) IN Halt(states, states[n], codes[n])
       /\ UNCHANGED wave
  ELSE IF wave < Len(Waves)
  THEN phase' = "wave" /\ wave' = wave + 1 /\ st' = states /\ UNCHANGED outcome
  ELSE Halt(states, "completed", "none") /\ UNCHANGED wave

\* Fault: the wave waits for nodes that will not be started.
EndSerialAll ==
  /\ phase = "serial" /\ Active = {}
  /\ \A n \in Current : st[n] \in Ended
  /\ Advance(st, code)
  /\ UNCHANGED <<pooled, code, changed, existing, treeVars, snap, cancelVars, ghostVars, ledgerVars>>

\* A serial wave ends with its last node or with the first that fails.
EndSerial ==
  /\ phase = "serial" /\ Active = {}
  /\ \/ \A n \in Current : st[n] \in Ended
     \/ \E n \in Current : st[n] \in Ended \ {"completed"}
  /\ Advance(st, code)
  /\ UNCHANGED <<pooled, code, changed, existing, treeVars, snap, cancelVars, ghostVars, ledgerVars>>

\* The audit of a wave on the pool: against the scopes of all its nodes, and
\* against the files that are in its creation scopes now.
EndParallel ==
  LET audited  == Delta(snap)
      scopes   == UNION {Owned(n) : n \in Current}
      exact    == UNION {Exact[n] : n \in Current}
      present  == {p \in UNION {Creation[n] : n \in Current} : Exists(p)}
      violated == Unauthorized(audited, scopes, exact, present) # {} \/ head # snap.head
      first    == Waves[wave][1]
      states   == IF violated THEN [st EXCEPT ![first] = "failed"] ELSE st
      codes    == IF violated THEN [code EXCEPT ![first] = "scope_violation"] ELSE code IN
  /\ phase = "parallel"
  /\ \A n \in Current : st[n] \in Ended
  /\ code' = codes
  /\ changed' = [n \in Nodes |-> IF n \in Current
                   THEN changed[n] \cup (audited \ Unauthorized(audited, Owned(n), Exact[n], present))
                   ELSE changed[n]]
  /\ Advance(states, codes)
  /\ UNCHANGED <<pooled, existing, treeVars, snap, cancelVars, ghostVars, ledgerVars>>

-----------------------------------------------------------------------------
\* A worktree with a change in it is refused; one such change is enough.
Init ==
  /\ phase = "new" /\ wave = 1 /\ pooled \in Pooled
  /\ st = [n \in Nodes |-> "waiting"] /\ code = [n \in Nodes |-> "none"]
  /\ changed = [n \in Nodes |-> {}] /\ existing = [n \in Nodes |-> {}]
  /\ outcome = Ran("none", "none")
  /\ base = Base /\ head = 0
  /\ \/ git = [p \in Paths |-> "none"]
     \/ \E q \in Base : git = [p \in Paths |-> IF p = q THEN "M" ELSE "none"]
  /\ snap = Snapshot
  /\ cancelRequested = FALSE /\ canceller = "idle"
  /\ driverCancel \in BOOLEAN     \* what an earlier run left behind
  /\ touched = [n \in Nodes |-> {}] /\ refused = {}
  /\ LedgerInit

Run == Start \/ Boot \/ BeginWave \/ CancelWave \/ EndSerial \/ EndParallel

Execute(n) ==
  \/ RefuseNode(n) \/ EnterNode(n) \/ PassCancelCheck(n) \/ NeverLaunched(n)
  \/ Unavailable(n) \/ ProviderReturns(n) \/ ProviderRaises(n)

Provide(n) == Change(n) \/ Commit(n)

Next ==
  \/ Run \/ CancelRun \/ CancelDriver
  \/ \E n \in Nodes : Execute(n) \/ Provide(n)
  \/ phase = "done" /\ canceller # "flagged" /\ UNCHANGED vars

Spec == Init /\ [][Next]_vars

\* Among the calling thread, the threads of the pool and the driver, which
\* polls its process against a timeout, some one keeps going; nobody has to
\* cancel and no provider has to work.
FairSpec == Spec /\ WF_vars(Run \/ \E n \in Nodes : Execute(n))

-----------------------------------------------------------------------------
(* Every variable has its type: statuses and codes are those the result    *)
(* records accept, the change lists name paths of the project.             *)
TypeOK ==
  /\ phase \in {"new", "boot", "wave", "serial", "parallel", "done"} /\ pooled \in BOOLEAN
  /\ wave \in 1..Len(Waves)
  /\ st \in [Nodes -> NodeStates] /\ code \in [Nodes -> Codes]
  /\ changed \in [Nodes -> SUBSET Paths] /\ existing \in [Nodes -> SUBSET Paths]
  /\ outcome \in [status : RunStates, error : Codes]
  /\ git \in [Paths -> {"none", "M", "D", "??"}] /\ base \subseteq Paths /\ head \in {0, 1}
  /\ snap \in [git : [Paths -> {"none", "M", "D", "??"}], head : {0, 1}]
  /\ cancelRequested \in BOOLEAN /\ driverCancel \in BOOLEAN
  /\ canceller \in {"idle", "flagged", "done"}
  /\ touched \in [Nodes -> SUBSET Paths] /\ refused \subseteq Nodes
  /\ LedgerTypeOK

\* A node as the caller sees it: skipped when the run ended without it.
NodeOf(n) ==
  IF st[n] \in {"admitted", "provider"} THEN "running"
  ELSE IF st[n] = "waiting" /\ phase = "done" THEN "skipped"
  ELSE IF st[n] \in {"cancelled", "timed_out", "unavailable"} THEN "failed"
  ELSE st[n]

VerdictOf ==
  IF phase # "done" THEN "open"
  ELSE IF outcome.status = "completed" THEN "completed" ELSE "stopped"

(* The run implements the promise of a task graph, for the states of the   *)
(* nodes and the verdict as the caller sees them.                          *)
Promise == INSTANCE TaskGraph WITH
  node <- [n \in Nodes |-> NodeOf(n)], verdict <- VerdictOf

KeepsPromise == Promise!Spec

(* Once cancel() has returned, no node gets past the driver's look at its  *)
(* cancel flag any more, although begin_run() clears that flag and pool    *)
(* threads do not look at the run's (cancel, run, execute_streaming): only *)
(* a node already past it still launches its process.                      *)
CancelIsSeen ==
  [][canceller = "done" => \A n \in Nodes : st'[n] = "provider" => st[n] = "provider"]_vars

(* No node of a run that nobody cancelled ends cancelled, although the     *)
(* driver outlives the runs: begin_run() is there to "clear cancellation   *)
(* left by a previous, already-terminal run" (CodexDriver).                *)
OwnCancellation == \A n \in Nodes : st[n] = "cancelled" => cancelRequested

\* _budget_result_can_continue_to_verification() of web_desktop.py; a node of
\* this graph that writes nothing is a quality node.
Continues ==
  /\ outcome.error = "budget_exceeded"
  /\ \E n \in Nodes : code[n] = "budget_exceeded"
  /\ \A n \in Nodes :
       \/ st[n] = "completed"
       \/ st[n] = "failed" /\ code[n] = "budget_exceeded" /\ changed[n] # {} /\ n \in Writers
       \/ st[n] = "skipped" /\ n \notin Writers

(* What goes on to verification, completed or cut short by its budget, has *)
(* its HEAD where the run found it and no changed path outside the scopes  *)
(* of the graph's nodes, although Git was only asked between nodes and     *)
(* between waves; and every changed path is in the changed_files of some   *)
(* node, which is what the review is made from (_execute_node, run).       *)
VerifiedChangesAccounted ==
  phase = "done" /\ (outcome.status = "completed" \/ Continues) =>
    /\ head = 0
    /\ \A p \in Paths : git[p] # "none" =>
         /\ \E n \in Nodes : p \in Owned(n)
         /\ \E n \in Nodes : p \in changed[n]

(* The ledger adds up at every step, when a run is over no reservation is  *)
(* left in it, whichever way the nodes ended, and nodes without usage stay *)
(* charged in full: "an opaque provider can never create free retry        *)
(* capacity by omission" (TaskTokenLedger).                                *)
LedgerClosed ==
  /\ HeldIsSum
  /\ charged >= SumFunction([n \in unknown |-> Limit[n]])
  /\ phase = "done" => held = 0

(* A run ends, cancelled or not, whatever its providers do and the ledger  *)
(* refuses (run, cancel, the timeout of execute_streaming).                *)
RunFinishes == <>(phase = "done")
=============================================================================
