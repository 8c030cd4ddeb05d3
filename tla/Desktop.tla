------------------------------- MODULE Desktop -------------------------------
(***************************************************************************)
(* The native desktop (desktop/shell.py): from a saved task through plan,  *)
(* context packs, token budget and agent run graph to a run of the graph.  *)
(*                                                                         *)
(* The Tk thread handles one click, or one timer callback, at a time; what *)
(* it shows is an object of its own, kept while the user opens other       *)
(* projects and tasks.  The stores are JSON files of objects by identity.  *)
(* Each run has a worker thread (codex_execution_controller.py) that tells *)
(* its result over a queue, which a timer callback polls.  The sidebar is  *)
(* on every page, so a click on it is a step from anywhere.                *)
(***************************************************************************)
EXTENDS Integers, Sequences, FiniteSets

CONSTANTS Tasks,          \* tasks the user may write
          Projects,
          ProjectOf,      \* per task: the project it is written for
          Scope,          \* per task: "owned" (every writer owns a file of its context),
                          \* "repairable" (it does after a repair of the context), "hopeless"
          Presets,        \* per task: the budget presets the user tries, "economy" among them
          None,
          MaxRuns,        \* bound: runs that are started
          MaxControllers, \* bound: execution controllers of one session, one per saved settings
          MaxSwitches     \* bound: how often the user opens a project, a task, the settings or the desktop

ASSUME DesktopAssumption ==
    /\ ProjectOf \in [Tasks -> Projects]
    /\ Scope \in [Tasks -> {"owned", "repairable", "hopeless"}]
    /\ \A t \in Tasks : "economy" \in Presets[t]
    /\ {MaxRuns, MaxSwitches} \subseteq Nat /\ MaxControllers \in Nat \ {0}

VARIABLES tasks,          \* task store: saved tasks
          plans,          \* plan store: per task the status of its plan
          contexts,       \* context store: per task, which selections: FALSE the first, TRUE the repaired
          budgets,        \* budget store: per selection its budgets, oldest identity first
          graphs,         \* graph store: the budgets that have an agent run graph
          desk,           \* the Tk thread's page and current objects
          controllers,    \* the execution controllers of the session; the last one is the desktop's
          runs,           \* the runs that were started
          polls,          \* timer callbacks that are due
          switches,       \* how often the user opened something
          tk,             \* whether the Tk thread is "free" or within such a callback
          confirmed       \* history: budgets whose limits the user locked

stores == <<tasks, plans, contexts, budgets, graphs>>
vars == <<stores, desk, controllers, runs, polls, switches, tk, confirmed>>

RunIds == 1..MaxRuns
Selections == [task : Tasks, repaired : BOOLEAN]
BudgetIds == [context : Selections, preset : UNION {Presets[t] : t \in Tasks}]
Statuses == {"draft", "locked"}
Budgets == [context : Selections, preset : UNION {Presets[t] : t \in Tasks}, status : Statuses]

ASSUME NoneIsNoObject == None \notin Selections \cup Budgets

\* TokenBudget.budget_id is a hash of plan, selection, policy and allocations: not of its status.
Id(budget) == [context |-> budget.context, preset |-> budget.preset]

NoRun == [state |-> "none", project |-> None, graph |-> None, context |-> None, budget |-> None,
          asked |-> FALSE]

NewController == [run |-> None, thread |-> "none", cancel |-> FALSE, messages |-> <<>>]

Entered == [page |-> "home", project |-> None, task |-> None, plan |-> None, context |-> None,
            budget |-> None, graph |-> None, run |-> None]

Init ==
    /\ tasks = {}
    /\ plans = [t \in Tasks |-> "none"]
    /\ contexts = [t \in Tasks |-> {}]
    /\ budgets = [s \in Selections |-> <<>>]
    /\ graphs = {}
    /\ desk = Entered
    /\ controllers = <<NewController>>
    /\ runs = [r \in RunIds |-> NoRun]
    /\ polls = 0 /\ switches = 0 /\ tk = "free"
    /\ confirmed = {}

-----------------------------------------------------------------------------
(* What the stores answer.                                                 *)

\* save_budget: an identity that is known keeps its place.
SaveBudget(store, b) ==
    LET kept == store[b.context]
        entry == [preset |-> b.preset, status |-> b.status]
    IN [store EXCEPT ![b.context] =
            IF \E i \in DOMAIN kept : kept[i].preset = b.preset
            THEN [i \in DOMAIN kept |-> IF kept[i].preset = b.preset THEN entry ELSE kept[i]]
            ELSE Append(kept, entry)]

\* get_for_selection: the last identity of the selection, locked or not.
BudgetFor(context) ==
    LET kept == budgets[context] IN
    IF kept = <<>> THEN None
    ELSE [context |-> context, preset |-> kept[Len(kept)].preset, status |-> kept[Len(kept)].status]

\* get_for_plan: a repaired selection is saved after the first.
ContextFor(task) ==
    IF contexts[task] = {} THEN None
    ELSE [task |-> task, repaired |-> CHOOSE r \in contexts[task] : TRUE \in contexts[task] => r]

GraphFor(budget) == IF Id(budget) \in graphs THEN Id(budget) ELSE None

-----------------------------------------------------------------------------
(* What a page shows, which fills in what is missing and falls back to the *)
(* page before when there is nothing to show.                              *)

PlanPage(d) == [d EXCEPT !.page = IF d.plan = None \/ d.task = None THEN "project-home" ELSE "plan-preview"]

ContextPage(d) ==
    LET c == IF d.context = None /\ d.plan # None THEN ContextFor(d.plan) ELSE d.context IN
    IF c = None THEN PlanPage(d) ELSE [d EXCEPT !.page = "context-preview", !.context = c]

BudgetPage(d) ==
    LET b == IF d.budget = None /\ d.context # None THEN BudgetFor(d.context) ELSE d.budget IN
    IF b = None THEN ContextPage(d) ELSE [d EXCEPT !.page = "token-budget", !.budget = b]

GraphPage(d) ==
    LET g == IF d.graph = None /\ d.budget # None THEN GraphFor(d.budget) ELSE d.graph IN
    IF g = None THEN BudgetPage(d) ELSE [d EXCEPT !.page = "agent-run-graph", !.graph = g]

\* A click on a page that changes what is shown and nothing else.
Click(d) ==
    /\ tk = "free"
    /\ desk' = d
    /\ UNCHANGED <<stores, controllers, runs, polls, tk, confirmed>>

\* The user turns to something else.
Switch == switches < MaxSwitches /\ switches' = switches + 1

OpenProject(p) == Switch /\ Click([desk EXCEPT !.project = p, !.page = "project-home"])

Back ==
    \/ desk.page = "context-preview" /\ Click(PlanPage(desk)) /\ UNCHANGED switches
    \/ desk.page = "token-budget" /\ Click(ContextPage(desk)) /\ UNCHANGED switches
    \/ desk.page = "agent-run-graph" /\ Click(BudgetPage(desk)) /\ UNCHANGED switches
    \/ desk.page = "codex-run" /\ Click(GraphPage(desk)) /\ UNCHANGED switches

\* The runs of the project are listed on a page of the sidebar.
OpenRun(r) ==
    /\ runs[r].state \in {"completed", "failed", "cancelled"}
    /\ desk.project \in {None, runs[r].project}
    /\ UNCHANGED switches
    /\ Click([desk EXCEPT !.run = r, !.page = "codex-run"])

-----------------------------------------------------------------------------
(* From a task to a graph.                                                 *)

\* _preview_task: what the user wrote is the current task from now on, saved or not.
PreviewTask(t) ==
    /\ desk.page = "project-home" /\ desk.project = ProjectOf[t]
    /\ t \notin tasks
    /\ Switch
    /\ Click([desk EXCEPT !.task = t, !.page = "task-preview"])

SaveTask ==
    /\ tk = "free" /\ desk.page = "task-preview"
    /\ tasks' = tasks \cup {desk.task}
    /\ desk' = [desk EXCEPT !.page = "project-home"]
    /\ UNCHANGED <<plans, contexts, budgets, graphs, controllers, runs, polls, switches, tk, confirmed>>

\* _open_task_plan.  When no plan can be generated the task is the current one all the same.
OpenTaskPlan(t) ==
    /\ Switch /\ tk = "free" /\ desk.page = "project-home"
    /\ t \in tasks /\ desk.project = ProjectOf[t]
    /\ LET opened == [desk EXCEPT !.task = t, !.plan = t, !.page = "plan-preview"] IN
       \/ plans[t] # "none" /\ desk' = opened /\ UNCHANGED plans
       \/ plans[t] = "none" /\ desk' = opened /\ plans' = [plans EXCEPT ![t] = "draft"]
       \/ plans[t] = "none" /\ desk' = [desk EXCEPT !.task = t] /\ UNCHANGED plans
    /\ UNCHANGED <<tasks, contexts, budgets, graphs, controllers, runs, polls, tk, confirmed>>

\* _approve_plan: the fingerprint of the current task must be that of the plan.
ApprovePlan ==
    /\ tk = "free" /\ desk.page = "plan-preview"
    /\ plans[desk.plan] = "draft" /\ desk.task = desk.plan
    /\ plans' = [plans EXCEPT ![desk.plan] = "approved"]
    /\ UNCHANGED <<tasks, contexts, budgets, graphs, desk, controllers, runs, polls, switches, tk, confirmed>>

\* build_context_selection accepts them.
Selectable(d) == plans[d.plan] = "approved" /\ d.task = d.plan /\ d.project = ProjectOf[d.plan]

\* _build_or_open_context.
BuildOrOpenContext ==
    /\ tk = "free" /\ desk.page = "plan-preview"
    /\ plans[desk.plan] = "approved" /\ desk.project # None
    /\ LET existing == ContextFor(desk.plan)
           first == [task |-> desk.plan, repaired |-> FALSE]
       IN \/ /\ existing # None
             /\ desk' = [desk EXCEPT !.context = existing, !.page = "context-preview"]
             /\ UNCHANGED contexts
          \/ /\ existing = None /\ Selectable(desk)
             /\ desk' = [desk EXCEPT !.context = first, !.page = "context-preview"]
             /\ contexts' = [contexts EXCEPT ![desk.plan] = @ \cup {FALSE}]
    /\ UNCHANGED <<tasks, plans, budgets, graphs, controllers, runs, polls, switches, tk, confirmed>>

\* build_token_budget accepts plan and selection.
Budgetable(plan, context) == plans[plan] = "approved" /\ context.task = plan

Draft(preset) == [context |-> desk.context, preset |-> preset, status |-> "draft"]

\* A budget is saved and shown.
KeepBudget(b) ==
    /\ budgets' = SaveBudget(budgets, b)
    /\ desk' = [desk EXCEPT !.budget = b, !.page = "token-budget"]
    /\ UNCHANGED <<tasks, plans, contexts, graphs, controllers, runs, polls, switches, tk>>

\* _build_or_open_budget.
BuildOrOpenBudget ==
    /\ tk = "free" /\ desk.page = "context-preview" /\ desk.plan # None
    /\ LET existing == BudgetFor(desk.context) IN
       \/ existing # None /\ Click([desk EXCEPT !.budget = existing, !.page = "token-budget"]) /\ UNCHANGED switches
       \/ existing = None /\ Budgetable(desk.plan, desk.context)
          /\ KeepBudget(Draft("economy")) /\ UNCHANGED confirmed

\* _rebuild_token_budget: for the current selection, whatever budget the page shows.
RebuildTokenBudget(preset) ==
    /\ tk = "free" /\ desk.page = "token-budget" /\ desk.budget.status = "draft"
    /\ desk.plan # None /\ desk.context # None /\ Budgetable(desk.plan, desk.context)
    /\ preset \in Presets[desk.plan]
    /\ KeepBudget(Draft(preset)) /\ UNCHANGED confirmed

\* _lock_token_budget.
LockTokenBudget ==
    /\ tk = "free" /\ desk.page = "token-budget" /\ desk.budget.status = "draft"
    /\ KeepBudget([desk.budget EXCEPT !.status = "locked"])
    /\ confirmed' = confirmed \cup {Id(desk.budget)}

-----------------------------------------------------------------------------
(* The agent run graph.                                                    *)

\* build_agent_run_graph accepts plan, selection and budget.
Dispatchable(plan, context, budget) ==
    /\ plans[plan] = "approved" /\ context.task = plan
    /\ budget.status = "locked" /\ budget.context = context

GraphShown(d, budget) == [d EXCEPT !.budget = budget, !.graph = Id(budget), !.page = "agent-run-graph"]

\* Every writing node owns a file.
DispatchAgents ==
    /\ Dispatchable(desk.plan, desk.context, desk.budget)
    /\ Scope[desk.plan] = "owned" \/ desk.context.repaired
    /\ graphs' = graphs \cup {Id(desk.budget)}
    /\ desk' = GraphShown(desk, desk.budget)
    /\ UNCHANGED <<contexts, budgets>>

\* ScopeContractError: the context is repaired, and an economy budget for it is locked with it.
RepairScope ==
    LET repaired == [task |-> desk.plan, repaired |-> TRUE]
        budget == [context |-> repaired, preset |-> "economy", status |-> "locked"]
    IN /\ Dispatchable(desk.plan, desk.context, desk.budget)
       /\ Scope[desk.plan] = "repairable" /\ ~desk.context.repaired
       /\ Selectable(desk)
       /\ contexts' = [contexts EXCEPT ![desk.plan] = @ \cup {TRUE}]
       /\ budgets' = SaveBudget(budgets, budget)
       /\ graphs' = graphs \cup {Id(budget)}
       /\ desk' = GraphShown([desk EXCEPT !.context = repaired], budget)

\* _build_or_open_agent_run_graph.
BuildOrOpenAgentRunGraph ==
    /\ tk = "free" /\ desk.page = "token-budget" /\ desk.budget.status = "locked"
    /\ None \notin {desk.plan, desk.context, desk.project, desk.task}
    /\ IF GraphFor(desk.budget) # None
       THEN desk' = GraphShown(desk, desk.budget) /\ UNCHANGED <<contexts, budgets, graphs>>
       ELSE DispatchAgents \/ RepairScope
    /\ UNCHANGED <<tasks, plans, controllers, runs, polls, switches, tk, confirmed>>

-----------------------------------------------------------------------------
(* Runs.                                                                   *)

Current == Len(controllers)
Alive(c) == controllers[c].thread # "none"

\* _start_codex_run: the worker is handed what the page shows.
StartCodexRun(r) ==
    /\ tk = "free" /\ desk.page = "agent-run-graph"
    /\ None \notin {desk.project, desk.context, desk.budget}
    /\ ~Alive(Current)
    /\ runs[r] = NoRun /\ \A q \in RunIds : q < r => runs[q] # NoRun
    /\ runs' = [runs EXCEPT ![r] = [state |-> "begun", project |-> desk.project, graph |-> desk.graph,
                                    context |-> desk.context, budget |-> desk.budget, asked |-> FALSE]]
    /\ controllers' = [controllers EXCEPT ![Current].run = r, ![Current].thread = "begun"]
    /\ desk' = [desk EXCEPT !.run = None, !.page = "codex-run"]
    /\ polls' = polls + 1
    /\ UNCHANGED <<stores, switches, tk, confirmed>>

\* _cancel_codex_run: of the controller the desktop has now.
CancelCodexRun ==
    /\ tk = "free" /\ desk.page = "codex-run" /\ Alive(Current)
    /\ controllers' = [controllers EXCEPT ![Current].cancel = TRUE]
    /\ runs' = [runs EXCEPT ![controllers[Current].run].asked = TRUE]
    /\ UNCHANGED <<stores, desk, polls, switches, tk, confirmed>>

\* _save_driver_settings: a controller with a runtime of its own, whatever the last one is doing.
SaveDriverSettings ==
    /\ Switch /\ tk = "free" /\ Len(controllers) < MaxControllers
    /\ controllers' = Append(controllers, NewController)
    /\ desk' = [desk EXCEPT !.page = "settings"]
    /\ UNCHANGED <<stores, runs, polls, tk, confirmed>>

\* Mutant of Accepted: the runtime takes any project.
AcceptedAnywhere(run) ==
    /\ run.budget.status = "locked"
    /\ run.graph.context = run.context /\ run.graph = Id(run.budget)

\* CodexGraphRuntime._validate_inputs: graph, selection and budget match, in the graph's project.
Accepted(run) ==
    /\ run.budget.status = "locked"
    /\ run.graph.context = run.context /\ run.graph = Id(run.budget)
    /\ run.project = ProjectOf[run.graph.context.task]

\* The worker puts its last message, and its thread is still to end.
Tell(c, state) ==
    LET r == controllers[c].run IN
    /\ runs' = [runs EXCEPT ![r].state = state]
    /\ controllers' = [controllers EXCEPT ![c].thread = "ending", ![c].messages = Append(@, r)]

\* CodexGraphRuntime.run up to its first node.
RunBegins(c) ==
    /\ controllers[c].thread = "begun"
    /\ LET r == controllers[c].run IN
       IF ~Accepted(runs[r]) THEN Tell(c, "rejected")
       ELSE IF controllers[c].cancel THEN Tell(c, "cancelled")
       ELSE /\ runs' = [runs EXCEPT ![r].state = "working"]
            /\ controllers' = [controllers EXCEPT ![c].thread = "working"]
    /\ UNCHANGED <<stores, desk, polls, switches, tk, confirmed>>

\* It ends, and the result is saved.
RunEnds(c) ==
    /\ controllers[c].thread = "working"
    /\ \/ Tell(c, "completed") \/ Tell(c, "failed")
       \/ controllers[c].cancel /\ Tell(c, "cancelled")
    /\ UNCHANGED <<stores, desk, polls, switches, tk, confirmed>>

ThreadEnds(c) ==
    /\ controllers[c].thread = "ending"
    /\ controllers' = [controllers EXCEPT ![c].thread = "none"]
    /\ UNCHANGED <<stores, desk, runs, polls, switches, tk, confirmed>>

\* _poll_codex_execution drains the queue of the desktop's controller; the last result is shown.
PollDrains ==
    LET taken == controllers[Current].messages IN
    /\ tk = "free" /\ polls > 0
    /\ controllers' = [controllers EXCEPT ![Current].messages = <<>>]
    /\ tk' = IF taken = <<>> THEN "drained" ELSE "told"
    /\ LET results == {i \in DOMAIN taken : runs[taken[i]].state # "rejected"} IN
       desk' = IF results = {} THEN desk
               ELSE [desk EXCEPT !.run = taken[CHOOSE i \in results : \A j \in results : j <= i]]
    /\ UNCHANGED <<stores, runs, polls, switches, confirmed>>

\* Mutant of PollAgain: a callback only follows while the worker lives.
PollWhileAlive == Alive(Current)

\* Whether another callback follows.
PollAgain == Alive(Current) \/ tk = "drained"

PollEnds ==
    /\ tk # "free"
    /\ polls' = IF PollAgain THEN polls ELSE polls - 1
    /\ tk' = "free"
    /\ UNCHANGED <<stores, desk, controllers, runs, switches, confirmed>>

\* The desktop is closed and opened again; its threads end with it.
Reopen ==
    /\ Switch /\ tk = "free"
    /\ desk' = Entered
    /\ controllers' = <<NewController>>
    /\ runs' = [r \in RunIds |-> IF runs[r].state \in {"begun", "working"} THEN [runs[r] EXCEPT !.state = "lost"]
                                 ELSE runs[r]]
    /\ polls' = 0
    /\ UNCHANGED <<stores, tk, confirmed>>

Worker(c) == RunBegins(c) \/ RunEnds(c) \/ ThreadEnds(c)

Next ==
    \/ \E p \in Projects : OpenProject(p)
    \/ Back
    \/ \E r \in RunIds : OpenRun(r) \/ StartCodexRun(r)
    \/ \E t \in Tasks : PreviewTask(t) \/ OpenTaskPlan(t)
    \/ SaveTask \/ ApprovePlan \/ BuildOrOpenContext \/ BuildOrOpenBudget \/ LockTokenBudget
    \/ \E preset \in UNION {Presets[t] : t \in Tasks} : RebuildTokenBudget(preset)
    \/ BuildOrOpenAgentRunGraph
    \/ CancelCodexRun \/ SaveDriverSettings
    \/ \E c \in DOMAIN controllers : Worker(c)
    \/ PollDrains \/ PollEnds
    \/ Reopen

Spec == Init /\ [][Next]_vars

-----------------------------------------------------------------------------
(* Properties.                                                             *)

\* The user locked these limits, or those a repair of the scope replaced.
Authorized(id) ==
    \/ id \in confirmed
    \/ /\ id.context.repaired /\ id.preset = "economy"
       /\ \E c \in confirmed : c.context = [task |-> id.context.task, repaired |-> FALSE]

\* Whatever the user opened before, and in whatever order, a run that gets to work carries out a
\* stored graph of an approved plan, with the selection it was built from, under limits the user
\* locked, in the project of its task (_start_codex_run, _validate_inputs).
RunIsAuthorized ==
    \A r \in RunIds : runs[r].state \in {"working", "completed", "failed"} =>
        LET run == runs[r] IN
        /\ run.graph \in graphs /\ Authorized(run.graph)
        /\ plans[run.graph.context.task] = "approved"
        /\ run.context = run.graph.context /\ run.context.repaired \in contexts[run.context.task]
        /\ run.project = ProjectOf[run.context.task]

\* Whatever runs, callbacks and saved settings came before, a callback is due as long as the worker of
\* the desktop's controller lives or its last message was not taken, so no run ends unseen
\* (_poll_codex_execution against CodexExecutionController).
ResultIsAwaited ==
    Alive(Current) \/ controllers[Current].messages # <<>> => polls > 0
=============================================================================
