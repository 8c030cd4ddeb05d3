---------------------------- MODULE Desktop_proof ----------------------------
(* Proof that a run of the native desktop carries out what the user locked, *)
(* for any number of tasks, projects, presets, runs and controllers.        *)
EXTENDS Desktop, TLAPS

AllPresets == UNION {Presets[t] : t \in Tasks}
Entries == [preset : AllPresets, status : Statuses]
States == {"none", "begun", "working", "completed", "failed", "cancelled", "rejected", "lost"}
Runs == [state : States, project : Projects \cup {None}, graph : BudgetIds \cup {None},
         context : Selections \cup {None}, budget : Budgets \cup {None}, asked : BOOLEAN]
Controllers == [run : RunIds \cup {None}, thread : {"none", "begun", "working", "ending"},
                cancel : BOOLEAN, messages : Seq(RunIds)]

-----------------------------------------------------------------------------
(* The inductive invariant.                                                 *)

StoreTypes ==
    /\ plans \in [Tasks -> {"none", "draft", "approved"}]
    /\ contexts \in [Tasks -> SUBSET BOOLEAN]
    /\ budgets \in [Selections -> Seq(Entries)]
    /\ graphs \subseteq BudgetIds
    /\ confirmed \subseteq BudgetIds

\* Limits that are locked in the store were locked by the user, or follow from a repair.
LockedIsAuthorized ==
    \A s \in Selections : \A i \in 1..Len(budgets[s]) :
        budgets[s][i].status = "locked" => Authorized([context |-> s, preset |-> budgets[s][i].preset])

GraphIsAuthorized ==
    \A g \in graphs : /\ Authorized(g)
                      /\ plans[g.context.task] = "approved"
                      /\ g.context.repaired \in contexts[g.context.task]

\* What is shown, d, is what the stores hold or held, and a page has its object.
Shows(d) ==
    /\ d = [page |-> d.page, project |-> d.project, task |-> d.task, plan |-> d.plan,
            context |-> d.context, budget |-> d.budget, graph |-> d.graph, run |-> d.run]
    /\ d.project \in Projects \cup {None}
    /\ {d.task, d.plan} \subseteq Tasks \cup {None}
    /\ d.context \in Selections \cup {None}
    /\ d.context \in Selections => d.context.repaired \in contexts[d.context.task]
    /\ d.budget \in Budgets \cup {None}
    /\ d.budget \in Budgets /\ d.budget.status = "locked" => Authorized(Id(d.budget))
    /\ d.graph \in graphs \cup {None}
    /\ d.page = "plan-preview" => d.plan \in Tasks
    /\ d.page = "context-preview" => d.context \in Selections
    /\ d.page = "token-budget" => d.budget \in Budgets
    /\ d.page = "agent-run-graph" => d.graph \in graphs

RunTypes == runs \in [RunIds -> Runs] /\ controllers \in Seq(Controllers) /\ Len(controllers) > 0

RunHasGraph == \A r \in RunIds : runs[r].state # "none" => runs[r].graph \in graphs

WorkIsAccepted ==
    \A r \in RunIds : runs[r].state \in {"working", "completed", "failed"} => Accepted(runs[r])

ThreadHasRun ==
    \A c \in 1..Len(controllers) :
        /\ controllers[c].thread # "none" => /\ controllers[c].run \in RunIds
                                             /\ runs[controllers[c].run].state # "none"
        /\ controllers[c].thread = "working" => Accepted(runs[controllers[c].run])

StoreInv == StoreTypes /\ LockedIsAuthorized /\ GraphIsAuthorized
RunInv == RunTypes /\ RunHasGraph /\ WorkIsAccepted /\ ThreadHasRun
Inv == StoreInv /\ Shows(desk) /\ RunInv

\* Nothing that was saved, approved or locked is forgotten.
Grows ==
    /\ graphs \subseteq graphs' /\ confirmed \subseteq confirmed'
    /\ \A t \in Tasks : /\ contexts[t] \subseteq contexts'[t]
                        /\ plans[t] = "approved" => plans'[t] = "approved"

-----------------------------------------------------------------------------
LEMMA AuthorizedGrows ==
  ASSUME confirmed \subseteq confirmed', NEW id, Authorized(id)
  PROVE  Authorized(id)'
  BY DEF Authorized

LEMMA ShowsGrows ==
  ASSUME NEW d, Shows(d), Grows
  PROVE  /\ {d.task, d.plan} \subseteq Tasks \cup {None}
         /\ d.context \in Selections => d.context.repaired \in contexts'[d.context.task]
         /\ d.budget \in Budgets /\ d.budget.status = "locked" => Authorized(Id(d.budget))'
         /\ d.graph \in graphs' \cup {None}
         /\ d.page = "agent-run-graph" => d.graph \in graphs'
  <1>1. d.context \in Selections => d.context.repaired \in contexts'[d.context.task]
    BY DEF Shows, Grows, Selections
  <1>2. d.budget \in Budgets /\ d.budget.status = "locked" => Authorized(Id(d.budget))'
    BY AuthorizedGrows DEF Shows, Grows, Authorized, Id
  <1> QED BY <1>1, <1>2 DEF Shows, Grows

LEMMA GraphsGrow ==
  ASSUME StoreInv, Grows, StoreTypes', NEW g \in graphs
  PROVE  /\ Authorized(g)'
         /\ plans'[g.context.task] = "approved"
         /\ g.context.repaired \in contexts'[g.context.task]
  <1>1. g \in BudgetIds /\ g.context.task \in Tasks
    BY DEF StoreInv, StoreTypes, BudgetIds, Selections
  <1>2. Authorized(g)'
    BY AuthorizedGrows DEF StoreInv, GraphIsAuthorized, Grows, Authorized
  <1> QED BY <1>1, <1>2 DEF StoreInv, GraphIsAuthorized, Grows

-----------------------------------------------------------------------------
(* The stores.                                                              *)

LEMMA BudgetForSound ==
  ASSUME StoreInv, NEW s \in Selections, BudgetFor(s) # None
  PROVE  BudgetFor(s) \in Budgets /\ (BudgetFor(s).status = "locked" => Authorized(Id(BudgetFor(s))))
  <1> DEFINE kept == budgets[s]  n == Len(kept)
  <1>1. kept \in Seq(Entries) /\ kept # <<>>
    BY DEF StoreInv, StoreTypes, BudgetFor
  <1>2. n \in 1..Len(kept) /\ kept[n] \in Entries
    BY <1>1
  <1>3. BudgetFor(s) = [context |-> s, preset |-> kept[n].preset, status |-> kept[n].status]
    BY <1>1 DEF BudgetFor
  <1>4. BudgetFor(s) \in Budgets /\ Id(BudgetFor(s)) = [context |-> s, preset |-> kept[n].preset]
    BY <1>2, <1>3 DEF Budgets, AllPresets, Entries, Id
  <1>5. kept[n].status = "locked" => Authorized([context |-> s, preset |-> kept[n].preset])
    BY <1>2 DEF StoreInv, LockedIsAuthorized
  <1> QED BY <1>3, <1>4, <1>5

LEMMA ContextForSound ==
  ASSUME StoreInv, NEW t \in Tasks, ContextFor(t) # None
  PROVE  ContextFor(t) \in Selections /\ ContextFor(t).repaired \in contexts[ContextFor(t).task]
  <1>1. contexts[t] \in SUBSET BOOLEAN /\ contexts[t] # {}
    BY DEF StoreInv, StoreTypes, ContextFor
  <1> DEFINE r == CHOOSE x \in contexts[t] : TRUE \in contexts[t] => x
  <1>2. \E x \in contexts[t] : TRUE \in contexts[t] => x
    BY <1>1
  <1>3. r \in contexts[t]
    BY <1>2
  <1>4. ContextFor(t) = [task |-> t, repaired |-> r]
    BY <1>1 DEF ContextFor
  <1> QED BY <1>1, <1>3, <1>4 DEF Selections

LEMMA GraphForSound ==
  ASSUME NEW b, GraphFor(b) # None
  PROVE  GraphFor(b) \in graphs
  BY DEF GraphFor

\* What is saved is an entry, and a locked one is authorized.
LEMMA SaveBudgetSound ==
  ASSUME StoreInv, NEW b \in Budgets, budgets' = SaveBudget(budgets, b), confirmed \subseteq confirmed',
         b.status = "locked" => Authorized(Id(b))'
  PROVE  budgets' \in [Selections -> Seq(Entries)] /\ LockedIsAuthorized'
  <1> DEFINE kept == budgets[b.context]
             entry == [preset |-> b.preset, status |-> b.status]
             known == \E i \in DOMAIN kept : kept[i].preset = b.preset
             replaced == [i \in DOMAIN kept |-> IF kept[i].preset = b.preset THEN entry ELSE kept[i]]
             new == IF known THEN replaced ELSE Append(kept, entry)
  <1>1. b.context \in Selections /\ kept \in Seq(Entries) /\ entry \in Entries
    BY DEF StoreInv, StoreTypes, Budgets, AllPresets, Entries
  <1>2. budgets' = [budgets EXCEPT ![b.context] = new]
    BY DEF SaveBudget
  <1>3. new \in Seq(Entries)
    <2>1. replaced \in Seq(Entries)
      BY <1>1
    <2>2. Append(kept, entry) \in Seq(Entries)
      BY <1>1
    <2> QED BY <2>1, <2>2
  <1>4. ASSUME NEW i \in 1..Len(new)
        PROVE  new[i] = entry \/ (i \in 1..Len(kept) /\ new[i] = kept[i])
    BY <1>1
  <1>5. budgets' \in [Selections -> Seq(Entries)]
    BY <1>1, <1>2, <1>3 DEF StoreInv, StoreTypes
  <1> HIDE DEF new
  <1>6. ASSUME NEW s \in Selections, NEW i \in 1..Len(budgets'[s]), budgets'[s][i].status = "locked"
        PROVE  Authorized([context |-> s, preset |-> budgets[s][i].preset])'
    <2>1. CASE budgets'[s] = budgets[s]
      <3> DEFINE id == [context |-> s, preset |-> budgets[s][i].preset]
      <3>1. Authorized(id)
        BY <1>6, <2>1 DEF StoreInv, LockedIsAuthorized
      <3> HIDE DEF id
      <3>2. id \in confirmed' \/ (id.context.repaired /\ id.preset = "economy"
               /\ \E c \in confirmed' : c.context = [task |-> id.context.task, repaired |-> FALSE])
        BY <3>1 DEF Authorized
      <3> QED BY <2>1, <3>2 DEF Authorized, id
    <2>2. CASE s = b.context /\ budgets'[s] = new /\ new[i] = entry
      <3>1. b.status = "locked" /\ Id(b) = [context |-> s, preset |-> budgets'[s][i].preset]
        BY <1>6, <2>2 DEF Id
      <3> QED BY <3>1 DEF Authorized, Id
    <2>3. CASE s = b.context /\ budgets'[s] = new /\ i \in 1..Len(kept) /\ new[i] = kept[i]
      <3> DEFINE id == [context |-> s, preset |-> kept[i].preset]
      <3>1. Authorized(id)
        BY <1>6, <2>3 DEF StoreInv, LockedIsAuthorized
      <3> HIDE DEF id
      <3>2. id \in confirmed' \/ (id.context.repaired /\ id.preset = "economy"
               /\ \E c \in confirmed' : c.context = [task |-> id.context.task, repaired |-> FALSE])
        BY <3>1 DEF Authorized
      <3>3. id = [context |-> s, preset |-> budgets'[s][i].preset]
        BY <2>3 DEF id
      <3> QED BY <3>2, <3>3 DEF Authorized
    <2>4. s = b.context => budgets'[s] = new
      BY <1>1, <1>2 DEF StoreInv, StoreTypes
    <2>5. s # b.context => budgets'[s] = budgets[s]
      BY <1>1, <1>2 DEF StoreInv, StoreTypes
    <2> QED BY <1>4, <2>1, <2>2, <2>3, <2>4, <2>5
  <1> QED BY <1>5, <1>6 DEF LockedIsAuthorized

-----------------------------------------------------------------------------
(* What a page shows.                                                       *)

LEMMA PlanPageShows ==
  ASSUME NEW d, Shows(d)
  PROVE  Shows(PlanPage(d))
  BY DEF Shows, PlanPage

LEMMA ContextPageShows ==
  ASSUME StoreInv, NEW d, Shows(d)
  PROVE  Shows(ContextPage(d))
  <1> DEFINE c == IF d.context = None /\ d.plan # None THEN ContextFor(d.plan) ELSE d.context
  <1>1. CASE c = None
    BY <1>1, PlanPageShows DEF ContextPage
  <1>2. CASE c # None
    <2>1. c \in Selections /\ c.repaired \in contexts[c.task]
      BY <1>2, ContextForSound DEF Shows
    <2>2. ContextPage(d) = [d EXCEPT !.page = "context-preview", !.context = c]
      BY <1>2 DEF ContextPage
    <2> HIDE DEF c
    <2> QED BY <2>1, <2>2 DEF Shows
  <1> QED BY <1>1, <1>2

LEMMA BudgetPageShows ==
  ASSUME StoreInv, NEW d, Shows(d)
  PROVE  Shows(BudgetPage(d))
  <1> DEFINE b == IF d.budget = None /\ d.context # None THEN BudgetFor(d.context) ELSE d.budget
  <1>1. CASE b = None
    BY <1>1, ContextPageShows DEF BudgetPage
  <1>2. CASE b # None
    <2>1. b \in Budgets /\ (b.status = "locked" => Authorized(Id(b)))
      BY <1>2, BudgetForSound DEF Shows
    <2>2. BudgetPage(d) = [d EXCEPT !.page = "token-budget", !.budget = b]
      BY <1>2 DEF BudgetPage
    <2> HIDE DEF b
    <2> QED BY <2>1, <2>2 DEF Shows
  <1> QED BY <1>1, <1>2

LEMMA GraphPageShows ==
  ASSUME StoreInv, NEW d, Shows(d)
  PROVE  Shows(GraphPage(d))
  <1> DEFINE g == IF d.graph = None /\ d.budget # None THEN GraphFor(d.budget) ELSE d.graph
  <1>1. CASE g = None
    BY <1>1, BudgetPageShows DEF GraphPage
  <1>2. CASE g # None
    <2>1. g \in graphs
      BY <1>2, GraphForSound DEF Shows
    <2>2. GraphPage(d) = [d EXCEPT !.page = "agent-run-graph", !.graph = g]
      BY <1>2 DEF GraphPage
    <2> HIDE DEF g
    <2> QED BY <2>1, <2>2 DEF Shows
  <1> QED BY <1>1, <1>2

-----------------------------------------------------------------------------
(* Frames.                                                                  *)

LEMMA StoresKept ==
  ASSUME StoreInv, UNCHANGED <<stores, confirmed>>
  PROVE  StoreInv' /\ Grows
  <1> USE DEF stores
  <1>1. StoreTypes' /\ Grows
    BY DEF StoreInv, StoreTypes, Grows
  <1>2. LockedIsAuthorized'
    BY DEF StoreInv, LockedIsAuthorized, Authorized
  <1>3. GraphIsAuthorized'
    BY DEF StoreInv, GraphIsAuthorized, Authorized
  <1> QED BY <1>1, <1>2, <1>3 DEF StoreInv

LEMMA ShownKept ==
  ASSUME NEW d, Shows(d), UNCHANGED <<stores, confirmed>>, desk' = d
  PROVE  Shows(desk)'
  BY DEF Shows, stores, Authorized

LEMMA RunsKept ==
  ASSUME RunInv, Grows, UNCHANGED <<runs, controllers>>
  PROVE  RunInv'
  <1>1. RunTypes' /\ RunHasGraph'
    BY DEF RunInv, RunTypes, RunHasGraph, Grows
  <1>2. WorkIsAccepted' /\ ThreadHasRun'
    BY DEF RunInv, WorkIsAccepted, ThreadHasRun
  <1> QED BY <1>1, <1>2 DEF RunInv

LEMMA ClickKeeps ==
  ASSUME Inv, NEW d, Shows(d), Click(d)
  PROVE  Inv'
  <1>1. UNCHANGED <<stores, confirmed>> /\ UNCHANGED <<runs, controllers>> /\ desk' = d
    BY DEF Click
  <1>2. StoreInv' /\ Grows
    BY <1>1, StoresKept DEF Inv
  <1>3. Shows(desk)'
    BY <1>1, ShownKept
  <1>4. RunInv'
    BY <1>1, <1>2, RunsKept DEF Inv
  <1> QED BY <1>2, <1>3, <1>4 DEF Inv

\* A callback that touches neither the stores nor what is shown.
LEMMA DeskKept ==
  ASSUME Inv, UNCHANGED <<stores, desk, confirmed>>
  PROVE  StoreInv' /\ Shows(desk)' /\ Grows
  <1>1. StoreInv' /\ Grows
    BY StoresKept DEF Inv
  <1>2. Shows(desk)'
    BY DEF Inv, Shows, stores, Authorized
  <1> QED BY <1>1, <1>2

-----------------------------------------------------------------------------
(* Clicks that change what is shown.                                        *)

LEMMA OpenProjectStep ==
  ASSUME Inv, NEW p \in Projects, OpenProject(p)
  PROVE  Inv'
  <1> DEFINE d == [desk EXCEPT !.project = p, !.page = "project-home"]
  <1>1. d = [desk EXCEPT !.project = p, !.page = "project-home"] /\ Click(d)
    BY DEF OpenProject
  <1> HIDE DEF d
  <1>2. Shows(d)
    BY <1>1 DEF Inv, Shows
  <1> QED BY <1>1, <1>2, ClickKeeps

LEMMA BackStep ==
  ASSUME Inv, Back
  PROVE  Inv'
  <1>1. PICK d \in {PlanPage(desk), ContextPage(desk), BudgetPage(desk), GraphPage(desk)} : Click(d)
    BY DEF Back
  <1>2. Shows(d)
    BY PlanPageShows, ContextPageShows, BudgetPageShows, GraphPageShows DEF Inv
  <1> QED BY <1>1, <1>2, ClickKeeps

LEMMA OpenRunStep ==
  ASSUME Inv, NEW r \in RunIds, OpenRun(r)
  PROVE  Inv'
  <1> DEFINE d == [desk EXCEPT !.run = r, !.page = "codex-run"]
  <1>1. d = [desk EXCEPT !.run = r, !.page = "codex-run"] /\ Click(d)
    BY DEF OpenRun
  <1> HIDE DEF d
  <1>2. Shows(d)
    BY <1>1 DEF Inv, Shows
  <1> QED BY <1>1, <1>2, ClickKeeps

LEMMA PreviewTaskStep ==
  ASSUME Inv, NEW t \in Tasks, PreviewTask(t)
  PROVE  Inv'
  <1> DEFINE d == [desk EXCEPT !.task = t, !.page = "task-preview"]
  <1>1. d = [desk EXCEPT !.task = t, !.page = "task-preview"] /\ Click(d)
    BY DEF PreviewTask
  <1> HIDE DEF d
  <1>2. Shows(d)
    BY <1>1 DEF Inv, Shows
  <1> QED BY <1>1, <1>2, ClickKeeps

-----------------------------------------------------------------------------
(* From a task to a budget.                                                 *)

\* Plans and tasks change, nothing that is authorized does.
LEMMA PlansChange ==
  ASSUME Inv, UNCHANGED <<contexts, budgets, graphs, confirmed>>,
         plans' \in [Tasks -> {"none", "draft", "approved"}],
         \A t \in Tasks : plans[t] = "approved" => plans'[t] = "approved"
  PROVE  StoreInv' /\ Grows
  <1>1. StoreTypes' /\ Grows
    BY DEF Inv, StoreInv, StoreTypes, Grows
  <1>2. LockedIsAuthorized'
    BY DEF Inv, StoreInv, LockedIsAuthorized, Authorized
  <1>3. GraphIsAuthorized'
    BY <1>1, GraphsGrow DEF Inv, GraphIsAuthorized
  <1> QED BY <1>1, <1>2, <1>3 DEF StoreInv

LEMMA SaveTaskStep ==
  ASSUME Inv, SaveTask
  PROVE  Inv'
  <1> USE DEF SaveTask
  <1>1. StoreInv' /\ Grows
    BY PlansChange DEF Inv, StoreInv, StoreTypes
  <1>2. Shows(desk)'
    BY DEF Inv, Shows, Authorized
  <1>3. RunInv'
    BY <1>1, RunsKept DEF Inv
  <1> QED BY <1>1, <1>2, <1>3 DEF Inv

\* What is shown may be replaced by something else that is sound by now.
LEMMA StoresChanged ==
  ASSUME Inv, StoreInv', Grows, UNCHANGED <<runs, controllers>>, Shows(desk)'
  PROVE  Inv'
  BY RunsKept DEF Inv

LEMMA OpenTaskPlanStep ==
  ASSUME Inv, NEW t \in Tasks, OpenTaskPlan(t)
  PROVE  Inv'
  <1> USE DEF OpenTaskPlan
  <1>1. plans' \in [Tasks -> {"none", "draft", "approved"}] /\ \A u \in Tasks : plans[u] = "approved" => plans'[u] = "approved"
    BY DEF Inv, StoreInv, StoreTypes
  <1>2. StoreInv' /\ Grows
    BY <1>1, PlansChange
  <1>3. Shows(desk)'
    <2>1. CASE desk' = [desk EXCEPT !.task = t, !.plan = t, !.page = "plan-preview"]
      BY <2>1 DEF Inv, Shows, Authorized
    <2>2. CASE desk' = [desk EXCEPT !.task = t]
      BY <2>2 DEF Inv, Shows, Authorized
    <2> QED BY <2>1, <2>2
  <1> QED BY <1>2, <1>3, StoresChanged

LEMMA ApprovePlanStep ==
  ASSUME Inv, ApprovePlan
  PROVE  Inv'
  <1> USE DEF ApprovePlan
  <1>1. plans' \in [Tasks -> {"none", "draft", "approved"}] /\ \A u \in Tasks : plans[u] = "approved" => plans'[u] = "approved"
    BY DEF Inv, StoreInv, StoreTypes
  <1>2. StoreInv' /\ Grows
    BY <1>1, PlansChange
  <1>3. Shows(desk)'
    BY DEF Inv, Shows, Authorized
  <1> QED BY <1>2, <1>3, StoresChanged

\* A selection is saved; contexts only grow.
LEMMA ContextsGrow ==
  ASSUME Inv, UNCHANGED <<plans, graphs>>, StoreTypes', LockedIsAuthorized', confirmed \subseteq confirmed',
         \A t \in Tasks : contexts[t] \subseteq contexts'[t]
  PROVE  StoreInv' /\ Grows
  <1>1. Grows
    BY DEF Grows
  <1>2. GraphIsAuthorized'
    BY <1>1, GraphsGrow DEF Inv, GraphIsAuthorized
  <1> QED BY <1>1, <1>2 DEF StoreInv

LEMMA BuildOrOpenContextStep ==
  ASSUME Inv, BuildOrOpenContext
  PROVE  Inv'
  <1> DEFINE existing == ContextFor(desk.plan)
             first == [task |-> desk.plan, repaired |-> FALSE]
  <1> USE DEF BuildOrOpenContext
  <1>1. desk.plan \in Tasks
    BY DEF Inv, Shows
  <1>2. CASE existing # None /\ desk' = [desk EXCEPT !.context = existing, !.page = "context-preview"] /\ UNCHANGED contexts
    <2>1. existing \in Selections /\ existing.repaired \in contexts[existing.task]
      BY <1>1, <1>2, ContextForSound DEF Inv
    <2>2. UNCHANGED <<stores, confirmed>>
      BY <1>2 DEF stores
    <2>3. StoreInv' /\ Grows
      BY <2>2, StoresKept DEF Inv
    <2> HIDE DEF existing
    <2>4. Shows(desk)'
      BY <1>2, <2>1 DEF Inv, Shows, Authorized
    <2> QED BY <2>3, <2>4, StoresChanged
  <1>3. CASE /\ desk' = [desk EXCEPT !.context = first, !.page = "context-preview"]
             /\ contexts' = [contexts EXCEPT ![desk.plan] = @ \cup {FALSE}]
    <2>1. first \in Selections /\ first.task = desk.plan /\ first.repaired = FALSE
      BY <1>1 DEF Selections
    <2>2. /\ contexts' \in [Tasks -> SUBSET BOOLEAN]
          /\ \A t \in Tasks : contexts[t] \subseteq contexts'[t]
          /\ FALSE \in contexts'[desk.plan]
      BY <1>1, <1>3 DEF Inv, StoreInv, StoreTypes
    <2>3. StoreTypes' /\ LockedIsAuthorized'
      BY <2>2 DEF Inv, StoreInv, StoreTypes, LockedIsAuthorized, Authorized
    <2>4. StoreInv' /\ Grows
      BY <2>2, <2>3, ContextsGrow
    <2> HIDE DEF first
    <2>5. Shows(desk)'
      BY <1>3, <2>1, <2>2 DEF Inv, Shows, Authorized
    <2> QED BY <2>4, <2>5, StoresChanged
  <1> QED BY <1>2, <1>3

\* A sound budget is kept and shown.
LEMMA KeepBudgetStep ==
  ASSUME Inv, NEW b \in Budgets, KeepBudget(b), confirmed \subseteq confirmed', confirmed' \subseteq BudgetIds,
         b.status = "locked" => Authorized(Id(b))'
  PROVE  Inv'
  <1> USE DEF KeepBudget
  <1>1. StoreTypes' /\ LockedIsAuthorized'
    BY SaveBudgetSound DEF Inv, StoreInv, StoreTypes
  <1>2. StoreInv' /\ Grows
    BY <1>1, ContextsGrow
  <1>3. Shows(desk)'
    <2>1. desk' = [desk EXCEPT !.budget = b, !.page = "token-budget"]
      OBVIOUS
    <2>2. UNCHANGED <<contexts, graphs>>
      OBVIOUS
    <2> QED BY <2>1, <2>2 DEF Inv, Shows
  <1> QED BY <1>2, <1>3, StoresChanged

LEMMA DraftSound ==
  ASSUME NEW preset \in AllPresets, desk.context \in Selections
  PROVE  Draft(preset) \in Budgets /\ Draft(preset).status = "draft"
  BY DEF Draft, Budgets, AllPresets, Statuses

LEMMA BuildOrOpenBudgetStep ==
  ASSUME Inv, BuildOrOpenBudget
  PROVE  Inv'
  <1>1. desk.context \in Selections
    BY DEF Inv, Shows, BuildOrOpenBudget
  <1>2. CASE BudgetFor(desk.context) # None
    <2> DEFINE b == BudgetFor(desk.context)
               d == [desk EXCEPT !.budget = b, !.page = "token-budget"]
    <2>1. b \in Budgets /\ (b.status = "locked" => Authorized(Id(b)))
      BY <1>1, <1>2, BudgetForSound DEF Inv
    <2>2. Click(d)
      BY <1>2 DEF BuildOrOpenBudget
    <2>3. d = [desk EXCEPT !.budget = b, !.page = "token-budget"]
      OBVIOUS
    <2> HIDE DEF b, d
    <2>4. Shows(d)
      BY <2>1, <2>3 DEF Inv, Shows
    <2> QED BY <2>2, <2>4, ClickKeeps
  <1>3. CASE BudgetFor(desk.context) = None
    <2>1. desk.plan \in Tasks
      BY DEF Inv, Shows, BuildOrOpenBudget
    <2>2. "economy" \in AllPresets
      BY <2>1, DesktopAssumption DEF AllPresets
    <2>3. KeepBudget(Draft("economy")) /\ UNCHANGED confirmed
      BY <1>3 DEF BuildOrOpenBudget
    <2> QED BY <1>1, <2>2, <2>3, DraftSound, KeepBudgetStep DEF Inv, StoreInv, StoreTypes
  <1> QED BY <1>2, <1>3

LEMMA RebuildTokenBudgetStep ==
  ASSUME Inv, NEW preset \in AllPresets, RebuildTokenBudget(preset)
  PROVE  Inv'
  <1>1. desk.context \in Selections
    BY DEF Inv, Shows, RebuildTokenBudget
  <1>2. KeepBudget(Draft(preset)) /\ UNCHANGED confirmed
    BY DEF RebuildTokenBudget
  <1> QED BY <1>1, <1>2, DraftSound, KeepBudgetStep DEF Inv, StoreInv, StoreTypes

LEMMA LockTokenBudgetStep ==
  ASSUME Inv, LockTokenBudget
  PROVE  Inv'
  <1>1. desk.budget \in Budgets
    BY DEF Inv, Shows, LockTokenBudget
  <1>2. PICK b \in Budgets : b = [desk.budget EXCEPT !.status = "locked"]
    BY <1>1 DEF Budgets, AllPresets, Statuses
  <1>3. Id(b) = Id(desk.budget) /\ Id(b) \in BudgetIds
    BY <1>1, <1>2 DEF Budgets, AllPresets, Id, BudgetIds
  <1>4. KeepBudget(b) /\ confirmed' = confirmed \cup {Id(b)}
    BY <1>2, <1>3 DEF LockTokenBudget
  <1>5. Authorized(Id(b))'
    BY <1>4 DEF Authorized, Id
  <1>6. confirmed \subseteq confirmed' /\ confirmed' \subseteq BudgetIds
    BY <1>3, <1>4 DEF Inv, StoreInv, StoreTypes
  <1> QED BY <1>4, <1>5, <1>6, KeepBudgetStep

-----------------------------------------------------------------------------
(* The agent run graph.                                                     *)

\* A graph of authorized limits and a selection that is stored is stored and shown.
LEMMA GraphStored ==
  ASSUME Inv, NEW b \in Budgets, NEW s \in Selections,
         StoreTypes', LockedIsAuthorized', UNCHANGED <<plans, runs, controllers, confirmed>>,
         \A t \in Tasks : contexts[t] \subseteq contexts'[t],
         graphs' = graphs \cup {Id(b)}, Authorized(Id(b)), b.context = s,
         plans[s.task] = "approved", s.repaired \in contexts'[s.task],
         desk' = GraphShown([desk EXCEPT !.context = s], b)
  PROVE  Inv'
  <1>1. Grows
    BY DEF Grows
  <1>2. Authorized(Id(b))'
    BY DEF Authorized, Id
  <1>3. GraphIsAuthorized'
    <2>1. ASSUME NEW g \in graphs
          PROVE  Authorized(g)' /\ plans'[g.context.task] = "approved" /\ g.context.repaired \in contexts'[g.context.task]
      BY <1>1, GraphsGrow DEF Inv
    <2>2. Id(b).context = s
      BY DEF Id
    <2> QED BY <1>2, <2>1, <2>2 DEF GraphIsAuthorized
  <1>4. StoreInv'
    BY <1>3 DEF StoreInv
  <1>5. Shows(desk)'
    <2>1. desk' = [desk EXCEPT !.context = s, !.budget = b, !.graph = Id(b), !.page = "agent-run-graph"]
      BY DEF GraphShown, Inv, Shows
    <2>2. Id(b) \in graphs'
      OBVIOUS
    <2>3. s \in Selections => s.repaired \in contexts'[s.task]
      OBVIOUS
    <2>4. /\ desk = [page |-> desk.page, project |-> desk.project, task |-> desk.task, plan |-> desk.plan,
                     context |-> desk.context, budget |-> desk.budget, graph |-> desk.graph, run |-> desk.run]
          /\ desk.project \in Projects \cup {None} /\ {desk.task, desk.plan} \subseteq Tasks \cup {None}
      BY DEF Inv, Shows
    <2>5. desk' = [page |-> "agent-run-graph", project |-> desk.project, task |-> desk.task, plan |-> desk.plan,
                   context |-> s, budget |-> b, graph |-> Id(b), run |-> desk.run]
      BY <2>1, <2>4
    <2>6. /\ desk'.page = "agent-run-graph" /\ desk'.project = desk.project /\ desk'.task = desk.task
          /\ desk'.plan = desk.plan /\ desk'.context = s /\ desk'.budget = b /\ desk'.graph = Id(b)
          /\ desk'.run = desk.run
      BY <2>5
    <2>7. Authorized(Id(desk.budget))'
      BY <1>2, <2>6
    <2> QED BY <2>2, <2>3, <2>4, <2>5, <2>6, <2>7 DEF Shows
  <1> QED BY <1>1, <1>4, <1>5, StoresChanged

LEMMA DispatchAgentsStep ==
  ASSUME Inv, desk.page = "token-budget", desk.plan # None, desk.context # None, DispatchAgents,
         UNCHANGED <<tasks, plans, controllers, runs, confirmed>>
  PROVE  Inv'
  <1>1. /\ desk.budget \in Budgets /\ desk.context \in Selections /\ desk.plan \in Tasks
        /\ desk.context.repaired \in contexts[desk.context.task]
    BY DEF Inv, Shows
  <1>2. PICK b \in Budgets, s \in Selections : b = desk.budget /\ s = desk.context
    BY <1>1
  <1>3. Dispatchable(desk.plan, s, b) /\ graphs' = graphs \cup {Id(b)} /\ UNCHANGED <<contexts, budgets>>
    BY <1>2 DEF DispatchAgents
  <1>4. /\ plans[s.task] = "approved" /\ b.status = "locked" /\ b.context = s
        /\ s.repaired \in contexts'[s.task]
    BY <1>1, <1>2, <1>3 DEF Dispatchable
  <1>5. Authorized(Id(b))
    BY <1>1, <1>2, <1>4 DEF Inv, Shows
  <1>6. Id(b) \in BudgetIds
    BY DEF Id, Budgets, BudgetIds, AllPresets
  <1>7. StoreTypes' /\ LockedIsAuthorized'
    BY <1>3, <1>6 DEF Inv, StoreInv, StoreTypes, LockedIsAuthorized, Authorized
  <1>8. desk' = GraphShown([desk EXCEPT !.context = s], b)
    <2>1. desk = [desk EXCEPT !.context = s]
      BY <1>2 DEF Inv, Shows
    <2>2. desk' = GraphShown(desk, b)
      BY <1>2 DEF DispatchAgents
    <2> QED BY <2>1, <2>2
  <1> QED BY <1>3, <1>4, <1>5, <1>7, <1>8, GraphStored

LEMMA RepairScopeStep ==
  ASSUME Inv, desk.page = "token-budget", desk.plan # None, desk.context # None, RepairScope,
         UNCHANGED <<tasks, plans, controllers, runs, confirmed>>
  PROVE  Inv'
  <1>1. desk.budget \in Budgets /\ desk.context \in Selections /\ desk.plan \in Tasks
    BY DEF Inv, Shows
  <1>2. "economy" \in AllPresets
    BY <1>1, DesktopAssumption DEF AllPresets
  <1>3. PICK s \in Selections : s = [task |-> desk.plan, repaired |-> TRUE]
    BY <1>1 DEF Selections
  <1>4. PICK b \in Budgets : b = [context |-> s, preset |-> "economy", status |-> "locked"]
    BY <1>2 DEF Budgets, AllPresets, Statuses
  <1>5. /\ Dispatchable(desk.plan, desk.context, desk.budget)
        /\ ~desk.context.repaired
        /\ contexts' = [contexts EXCEPT ![desk.plan] = @ \cup {TRUE}]
        /\ budgets' = SaveBudget(budgets, b)
        /\ graphs' = graphs \cup {Id(b)}
        /\ desk' = GraphShown([desk EXCEPT !.context = s], b)
    BY <1>3, <1>4 DEF RepairScope
  <1>6. plans[s.task] = "approved" /\ b.context = s
    BY <1>3, <1>4, <1>5 DEF Dispatchable
  <1>7. Authorized(Id(b))
    <2>1. Authorized(Id(desk.budget)) /\ desk.budget.context = desk.context /\ desk.context.task = desk.plan
      BY <1>1, <1>5 DEF Inv, Shows, Dispatchable
    <2>2. Id(desk.budget) \in confirmed
      BY <1>5, <2>1 DEF Authorized, Id
    <2>3. Id(desk.budget).context = [task |-> desk.plan, repaired |-> FALSE]
      BY <1>1, <1>5, <2>1 DEF Id, Selections
    <2>4. /\ Id(b).context.repaired /\ Id(b).preset = "economy"
          /\ Id(b).context.task = desk.plan
      BY <1>3, <1>4 DEF Id
    <2> QED BY <2>2, <2>3, <2>4 DEF Authorized
  <1>8. Id(b) \in BudgetIds
    BY DEF Id, Budgets, BudgetIds, AllPresets
  <1>9. /\ contexts' \in [Tasks -> SUBSET BOOLEAN]
        /\ \A t \in Tasks : contexts[t] \subseteq contexts'[t]
        /\ s.repaired \in contexts'[s.task]
    BY <1>1, <1>3, <1>5 DEF Inv, StoreInv, StoreTypes
  <1>10. Authorized(Id(b))'
    BY <1>7 DEF Authorized, Id
  <1>11. StoreTypes' /\ LockedIsAuthorized'
    BY <1>5, <1>8, <1>9, <1>10, SaveBudgetSound DEF Inv, StoreInv, StoreTypes
  <1> QED BY <1>5, <1>6, <1>7, <1>9, <1>11, GraphStored

LEMMA BuildOrOpenAgentRunGraphStep ==
  ASSUME Inv, BuildOrOpenAgentRunGraph
  PROVE  Inv'
  <1>1. /\ desk.page = "token-budget" /\ desk.plan # None /\ desk.context # None
        /\ UNCHANGED <<tasks, plans, controllers, runs, confirmed>>
    BY DEF BuildOrOpenAgentRunGraph
  <1>2. CASE GraphFor(desk.budget) # None
    <2>1. desk' = GraphShown(desk, desk.budget) /\ UNCHANGED <<contexts, budgets, graphs>>
      BY <1>2 DEF BuildOrOpenAgentRunGraph
    <2>2. StoreInv' /\ Grows
      BY <1>1, <2>1, StoresKept DEF Inv, stores
    <2>3. Id(desk.budget) \in graphs
      BY <1>2 DEF GraphFor
    <2>4. Shows(desk)'
      BY <1>1, <2>1, <2>3 DEF Inv, Shows, GraphShown, Authorized
    <2> QED BY <1>1, <2>2, <2>4, StoresChanged
  <1>3. CASE GraphFor(desk.budget) = None
    BY <1>1, <1>3, DispatchAgentsStep, RepairScopeStep DEF BuildOrOpenAgentRunGraph
  <1> QED BY <1>2, <1>3

-----------------------------------------------------------------------------
(* Runs.                                                                    *)

\* Acceptance is about what a run is made of.
LEMMA SameAccepted ==
  ASSUME NEW run \in Runs, NEW other \in Runs, Accepted(run), other.project = run.project,
         other.graph = run.graph, other.context = run.context, other.budget = run.budget
  PROVE  Accepted(other)
  BY DEF Accepted

LEMMA OneController ==
  ASSUME RunTypes, NEW c \in 1..Len(controllers), NEW k \in Controllers,
         controllers' = [controllers EXCEPT ![c] = k]
  PROVE  /\ controllers' \in Seq(Controllers) /\ Len(controllers') = Len(controllers)
         /\ controllers'[c] = k
         /\ \A d \in 1..Len(controllers) : d # c => controllers'[d] = controllers[d]
  BY DEF RunTypes

\* The thread of a controller, or its user, changes one run.
LEMMA OneRun ==
  ASSUME RunInv, Grows, NEW c \in 1..Len(controllers), NEW r \in RunIds, NEW k \in Controllers, NEW run \in Runs,
         runs' = [runs EXCEPT ![r] = run], controllers' = [controllers EXCEPT ![c] = k],
         run.state # "none", run.graph \in graphs',
         run.state \in {"working", "completed", "failed"} => Accepted(run),
         runs[r].state # "none" /\ Accepted(runs[r]) => Accepted(run),
         k.thread # "none" => k.run = r, k.thread = "working" => Accepted(run)
  PROVE  RunInv'
  <1>1. /\ controllers' \in Seq(Controllers) /\ Len(controllers') = Len(controllers) /\ controllers'[c] = k
        /\ \A d \in 1..Len(controllers) : d # c => controllers'[d] = controllers[d]
    BY OneController DEF RunInv
  <1>2. /\ runs' \in [RunIds -> Runs] /\ runs'[r] = run
        /\ \A q \in RunIds : q # r => runs'[q] = runs[q]
    BY DEF RunInv, RunTypes
  <1>3. RunTypes'
    BY <1>1, <1>2 DEF RunInv, RunTypes
  <1>4. RunHasGraph'
    BY <1>2 DEF RunInv, RunHasGraph, Grows
  <1>5. ASSUME NEW q \in RunIds, runs'[q].state \in {"working", "completed", "failed"}
        PROVE  Accepted(runs'[q])
    <2>1. CASE q = r
      BY <1>2, <1>5, <2>1
    <2>2. CASE q # r
      BY <1>2, <1>5, <2>2 DEF RunInv, WorkIsAccepted
    <2> QED BY <2>1, <2>2
  <1>6. ASSUME NEW d \in 1..Len(controllers')
        PROVE  /\ controllers'[d].thread # "none" => /\ controllers'[d].run \in RunIds
                                                     /\ runs'[controllers'[d].run].state # "none"
               /\ controllers'[d].thread = "working" => Accepted(runs'[controllers'[d].run])
    <2>1. CASE d = c
      BY <1>1, <1>2, <2>1
    <2>2. CASE d # c
      <3>1. controllers'[d] = controllers[d] /\ d \in 1..Len(controllers)
        BY <1>1, <2>2
      <3>2. controllers[d].thread # "none" => controllers[d].run \in RunIds /\ runs[controllers[d].run].state # "none"
        BY <3>1 DEF RunInv, ThreadHasRun
      <3>3. controllers[d].thread = "working" => Accepted(runs[controllers[d].run])
        BY <3>1 DEF RunInv, ThreadHasRun
      <3>4. CASE controllers[d].run = r
        BY <1>2, <3>1, <3>2, <3>3, <3>4
      <3>5. CASE controllers[d].run # r
        BY <1>2, <3>1, <3>2, <3>3, <3>5
      <3> QED BY <3>4, <3>5
    <2> QED BY <2>1, <2>2
  <1>7. WorkIsAccepted'
    BY <1>5 DEF WorkIsAccepted
  <1>8. ThreadHasRun'
    BY <1>6 DEF ThreadHasRun
  <1> QED BY <1>3, <1>4, <1>7, <1>8 DEF RunInv

\* Controllers change in nothing but their messages, or end their thread.
LEMMA ControllersChange ==
  ASSUME RunInv, Grows, UNCHANGED runs, controllers' \in Seq(Controllers), Len(controllers') > 0,
         \A c \in 1..Len(controllers') :
            \/ controllers'[c].thread = "none"
            \/ /\ c \in 1..Len(controllers) /\ controllers'[c].thread = controllers[c].thread
               /\ controllers'[c].run = controllers[c].run
  PROVE  RunInv'
  <1>1. RunTypes' /\ RunHasGraph'
    BY DEF RunInv, RunTypes, RunHasGraph, Grows
  <1>2. WorkIsAccepted'
    BY DEF RunInv, WorkIsAccepted
  <1>3. ThreadHasRun'
    BY DEF RunInv, ThreadHasRun
  <1> QED BY <1>1, <1>2, <1>3 DEF RunInv

LEMMA StartCodexRunStep ==
  ASSUME Inv, NEW r \in RunIds, StartCodexRun(r)
  PROVE  Inv'
  <1>1. UNCHANGED <<stores, confirmed>> /\ desk' = [desk EXCEPT !.run = None, !.page = "codex-run"]
    BY DEF StartCodexRun
  <1>2. StoreInv' /\ Grows
    BY <1>1, StoresKept DEF Inv
  <1>3. Shows(desk)'
    BY <1>1 DEF Inv, Shows, Authorized, stores
  <1>4. /\ desk.project \in Projects /\ desk.graph \in graphs /\ desk.graph \in BudgetIds
        /\ desk.context \in Selections /\ desk.budget \in Budgets
    BY DEF Inv, Shows, StartCodexRun, StoreInv, StoreTypes
  <1> DEFINE run == [state |-> "begun", project |-> desk.project, graph |-> desk.graph,
                     context |-> desk.context, budget |-> desk.budget, asked |-> FALSE]
             k == [controllers[Current] EXCEPT !.run = r, !.thread = "begun"]
  <1>5. run \in Runs /\ run.state = "begun" /\ run.graph \in graphs'
    BY <1>1, <1>4 DEF Runs, States, stores
  <1>6. Current \in 1..Len(controllers) /\ controllers[Current] \in Controllers
    BY DEF Inv, RunInv, RunTypes, Current
  <1>7. k \in Controllers /\ k.thread = "begun" /\ k.run = r
    BY <1>6 DEF Controllers
  <1>8. /\ runs' = [runs EXCEPT ![r] = run] /\ controllers' = [controllers EXCEPT ![Current] = k]
        /\ runs[r].state = "none"
    <2>1. runs' = [runs EXCEPT ![r] = run] /\ runs[r] = NoRun
      BY DEF StartCodexRun
    <2>2. controllers' = [controllers EXCEPT ![Current].run = r, ![Current].thread = "begun"]
      BY DEF StartCodexRun
    <2>3. controllers' = [controllers EXCEPT ![Current] = k]
      BY <1>6, <2>2 DEF Inv, RunInv, RunTypes
    <2> QED BY <2>1, <2>3 DEF NoRun
  <1> HIDE DEF run, k
  <1>9. RunInv'
    BY <1>2, <1>5, <1>6, <1>7, <1>8, OneRun DEF Inv
  <1> QED BY <1>2, <1>3, <1>9 DEF Inv

LEMMA CancelCodexRunStep ==
  ASSUME Inv, CancelCodexRun
  PROVE  Inv'
  <1>1. StoreInv' /\ Shows(desk)' /\ Grows
    BY DeskKept DEF CancelCodexRun
  <1>2. Current \in 1..Len(controllers) /\ controllers[Current] \in Controllers
    BY DEF Inv, RunInv, RunTypes, Current
  <1> DEFINE r == controllers[Current].run
             run == [runs[r] EXCEPT !.asked = TRUE]
             k == [controllers[Current] EXCEPT !.cancel = TRUE]
  <1>3. r \in RunIds /\ runs[r].state # "none" /\ runs[r] \in Runs /\ runs[r].graph \in graphs
    <2>1. controllers[Current].thread # "none"
      BY DEF CancelCodexRun, Alive
    <2>2. r \in RunIds /\ runs[r].state # "none"
      BY <1>2, <2>1 DEF Inv, RunInv, ThreadHasRun
    <2> HIDE DEF r
    <2> QED BY <2>2 DEF Inv, RunInv, RunTypes, RunHasGraph
  <1>4. /\ run \in Runs /\ run.state = runs[r].state /\ run.graph = runs[r].graph /\ run.project = runs[r].project
        /\ run.context = runs[r].context /\ run.budget = runs[r].budget
    BY <1>3 DEF Runs
  <1>5. k \in Controllers /\ k.run = r /\ k.thread = controllers[Current].thread
    BY <1>2 DEF Controllers
  <1>6. runs' = [runs EXCEPT ![r] = run] /\ controllers' = [controllers EXCEPT ![Current] = k]
    BY DEF CancelCodexRun
  <1>7. Accepted(runs[r]) => Accepted(run)
    BY <1>3, <1>4, SameAccepted
  <1>8. run.state \in {"working", "completed", "failed"} => Accepted(run)
    BY <1>3, <1>4, <1>7 DEF Inv, RunInv, WorkIsAccepted
  <1>9. k.thread = "working" => Accepted(run)
    BY <1>2, <1>5, <1>7 DEF Inv, RunInv, ThreadHasRun
  <1>10. run.graph \in graphs'
    BY <1>1, <1>3, <1>4 DEF Grows
  <1> HIDE DEF run, k, r
  <1>11. RunInv'
    BY <1>1, <1>2, <1>3, <1>4, <1>5, <1>6, <1>7, <1>8, <1>9, <1>10, OneRun DEF Inv
  <1> QED BY <1>1, <1>11 DEF Inv

LEMMA SaveDriverSettingsStep ==
  ASSUME Inv, SaveDriverSettings
  PROVE  Inv'
  <1>1. /\ UNCHANGED <<stores, confirmed>> /\ UNCHANGED runs
        /\ desk' = [desk EXCEPT !.page = "settings"] /\ controllers' = Append(controllers, NewController)
    BY DEF SaveDriverSettings
  <1>2. StoreInv' /\ Grows
    BY <1>1, StoresKept DEF Inv
  <1>3. Shows(desk)'
    BY <1>1 DEF Inv, Shows, Authorized, stores
  <1>4. NewController \in Controllers /\ NewController.thread = "none"
    BY DEF NewController, Controllers
  <1>5. /\ controllers' \in Seq(Controllers) /\ Len(controllers') = Len(controllers) + 1
        /\ \A c \in 1..Len(controllers') : \/ controllers'[c] = NewController
                                           \/ c \in 1..Len(controllers) /\ controllers'[c] = controllers[c]
    BY <1>1, <1>4 DEF Inv, RunInv, RunTypes
  <1>6. RunInv'
    BY <1>1, <1>2, <1>4, <1>5, ControllersChange DEF Inv, RunInv, RunTypes
  <1> QED BY <1>2, <1>3, <1>6 DEF Inv

\* The worker tells the end of its run, or gets to work.
LEMMA WorkerTells ==
  ASSUME RunInv, Grows, NEW c \in 1..Len(controllers), NEW state \in States, Tell(c, state),
         controllers[c].thread # "none", state # "none",
         state \in {"working", "completed", "failed"} => Accepted(runs[controllers[c].run])
  PROVE  RunInv'
  <1>1. PICK r \in RunIds : r = controllers[c].run /\ runs[r].state # "none"
    BY DEF RunInv, ThreadHasRun
  <1>2. controllers[c] \in Controllers /\ runs[r] \in Runs /\ runs[r].graph \in graphs
    BY <1>1 DEF RunInv, RunTypes, RunHasGraph
  <1>3. PICK run \in Runs : run = [runs[r] EXCEPT !.state = state]
    BY <1>2 DEF Runs
  <1>4. PICK k \in Controllers : k = [controllers[c] EXCEPT !.thread = "ending", !.messages = Append(@, r)]
    <2>1. controllers[c].messages \in Seq(RunIds)
      BY <1>2 DEF Controllers
    <2>2. Append(controllers[c].messages, r) \in Seq(RunIds)
      BY <2>1
    <2> QED BY <1>2, <2>2 DEF Controllers
  <1>5. /\ run.state = state /\ run.graph = runs[r].graph /\ run.project = runs[r].project
        /\ run.context = runs[r].context /\ run.budget = runs[r].budget
        /\ k.run = r /\ k.thread = "ending"
    BY <1>1, <1>2, <1>3, <1>4 DEF Runs, Controllers
  <1>6. Accepted(runs[r]) => Accepted(run)
    BY <1>2, <1>5, SameAccepted
  <1>7. runs' = [runs EXCEPT ![r] = run]
    BY <1>1, <1>2, <1>3 DEF Tell, RunInv, RunTypes
  <1>8. controllers' = [controllers EXCEPT ![c] = k]
    BY <1>1, <1>2, <1>4 DEF Tell, RunInv, RunTypes
  <1>9. run.graph \in graphs'
    BY <1>2, <1>5 DEF Grows
  <1>10. run.state \in {"working", "completed", "failed"} => Accepted(run)
    BY <1>1, <1>5, <1>6
  <1> QED BY <1>5, <1>6, <1>7, <1>8, <1>9, <1>10, OneRun

LEMMA RunBeginsStep ==
  ASSUME Inv, NEW c \in DOMAIN controllers, RunBegins(c)
  PROVE  Inv'
  <1>1. StoreInv' /\ Shows(desk)' /\ Grows
    BY DeskKept DEF RunBegins
  <1>2. c \in 1..Len(controllers) /\ controllers[c].thread = "begun"
    BY DEF RunBegins, Inv, RunInv, RunTypes
  <1>3. CASE Tell(c, "rejected") \/ Tell(c, "cancelled")
    BY <1>1, <1>2, <1>3, WorkerTells DEF Inv, States
  <1>4. CASE /\ Accepted(runs[controllers[c].run])
             /\ runs' = [runs EXCEPT ![controllers[c].run].state = "working"]
             /\ controllers' = [controllers EXCEPT ![c].thread = "working"]
    <2>1. PICK r \in RunIds : r = controllers[c].run /\ runs[r].state # "none"
      BY <1>2 DEF Inv, RunInv, ThreadHasRun
    <2>2. controllers[c] \in Controllers /\ runs[r] \in Runs /\ runs[r].graph \in graphs
      BY <1>2, <2>1 DEF Inv, RunInv, RunTypes, RunHasGraph
    <2>3. PICK run \in Runs : run = [runs[r] EXCEPT !.state = "working"]
      BY <2>2 DEF Runs, States
    <2>4. PICK k \in Controllers : k = [controllers[c] EXCEPT !.thread = "working"]
      BY <2>2 DEF Controllers
    <2>5. /\ run.state = "working" /\ run.graph = runs[r].graph /\ run.project = runs[r].project
          /\ run.context = runs[r].context /\ run.budget = runs[r].budget
          /\ k.run = r /\ k.thread = "working"
      BY <2>1, <2>2, <2>3, <2>4 DEF Runs, Controllers
    <2>6. Accepted(run)
      BY <1>4, <2>1, <2>2, <2>5, SameAccepted
    <2>7. runs' = [runs EXCEPT ![r] = run] /\ controllers' = [controllers EXCEPT ![c] = k]
      BY <1>2, <1>4, <2>1, <2>2, <2>3, <2>4 DEF Inv, RunInv, RunTypes
    <2>8. run.graph \in graphs'
      BY <1>1, <2>2, <2>5 DEF Grows
    <2>9. RunInv'
      BY <1>1, <1>2, <2>5, <2>6, <2>7, <2>8, OneRun DEF Inv
    <2> QED BY <1>1, <2>9 DEF Inv
  <1> QED BY <1>3, <1>4 DEF RunBegins

LEMMA RunEndsStep ==
  ASSUME Inv, NEW c \in DOMAIN controllers, RunEnds(c)
  PROVE  Inv'
  <1>1. StoreInv' /\ Shows(desk)' /\ Grows
    BY DeskKept DEF RunEnds
  <1>2. c \in 1..Len(controllers) /\ controllers[c].thread = "working"
    BY DEF RunEnds, Inv, RunInv, RunTypes
  <1>3. Accepted(runs[controllers[c].run])
    BY <1>2 DEF Inv, RunInv, ThreadHasRun
  <1>4. PICK state \in {"completed", "failed", "cancelled"} : Tell(c, state)
    BY DEF RunEnds
  <1>5. RunInv'
    BY <1>1, <1>2, <1>3, <1>4, WorkerTells DEF Inv, States
  <1> QED BY <1>1, <1>5 DEF Inv

LEMMA ThreadEndsStep ==
  ASSUME Inv, NEW c \in DOMAIN controllers, ThreadEnds(c)
  PROVE  Inv'
  <1>1. StoreInv' /\ Shows(desk)' /\ Grows
    BY DeskKept DEF ThreadEnds
  <1>2. c \in 1..Len(controllers) /\ controllers[c] \in Controllers
    BY DEF Inv, RunInv, RunTypes
  <1>3. PICK k \in Controllers : k = [controllers[c] EXCEPT !.thread = "none"]
    BY <1>2 DEF Controllers
  <1>4. k.thread = "none" /\ controllers' = [controllers EXCEPT ![c] = k]
    BY <1>2, <1>3 DEF ThreadEnds, Controllers, Inv, RunInv, RunTypes
  <1>5. /\ controllers' \in Seq(Controllers) /\ Len(controllers') = Len(controllers) /\ controllers'[c] = k
        /\ \A d \in 1..Len(controllers) : d # c => controllers'[d] = controllers[d]
    BY <1>2, <1>4, OneController DEF Inv, RunInv
  <1>6. RunInv'
    BY <1>1, <1>4, <1>5, ControllersChange DEF Inv, RunInv, RunTypes, ThreadEnds
  <1> QED BY <1>1, <1>6 DEF Inv

LEMMA PollDrainsStep ==
  ASSUME Inv, PollDrains
  PROVE  Inv'
  <1>1. UNCHANGED <<stores, confirmed>> /\ UNCHANGED runs
    BY DEF PollDrains
  <1>2. StoreInv' /\ Grows
    BY <1>1, StoresKept DEF Inv
  <1>3. Shows(desk)'
    <2>1. PICK u : desk' = desk \/ desk' = [desk EXCEPT !.run = u]
      BY DEF PollDrains
    <2> QED BY <1>1, <2>1 DEF Inv, Shows, Authorized, stores
  <1>4. Current \in 1..Len(controllers) /\ controllers[Current] \in Controllers
    BY DEF Inv, RunInv, RunTypes, Current
  <1>5. PICK k \in Controllers : k = [controllers[Current] EXCEPT !.messages = <<>>]
    <2>1. <<>> \in Seq(RunIds)
      OBVIOUS
    <2> QED BY <1>4, <2>1 DEF Controllers
  <1>6. /\ controllers' = [controllers EXCEPT ![Current] = k]
        /\ k.run = controllers[Current].run /\ k.thread = controllers[Current].thread
    BY <1>4, <1>5 DEF PollDrains, Controllers, Inv, RunInv, RunTypes
  <1>7. /\ controllers' \in Seq(Controllers) /\ Len(controllers') = Len(controllers) /\ controllers'[Current] = k
        /\ \A d \in 1..Len(controllers) : d # Current => controllers'[d] = controllers[d]
    BY <1>4, <1>6, OneController DEF Inv, RunInv
  <1>8. RunInv'
    BY <1>1, <1>2, <1>4, <1>6, <1>7, ControllersChange DEF Inv, RunInv, RunTypes
  <1> QED BY <1>2, <1>3, <1>8 DEF Inv

LEMMA ReopenStep ==
  ASSUME Inv, Reopen
  PROVE  Inv'
  <1>1. /\ UNCHANGED <<stores, confirmed>> /\ desk' = Entered /\ controllers' = <<NewController>>
        /\ runs' = [r \in RunIds |-> IF runs[r].state \in {"begun", "working"}
                                     THEN [runs[r] EXCEPT !.state = "lost"] ELSE runs[r]]
    BY DEF Reopen
  <1>2. StoreInv' /\ Grows
    BY <1>1, StoresKept DEF Inv
  <1>3. Shows(desk)'
    BY <1>1, NoneIsNoObject DEF Shows, Entered
  <1>4. ASSUME NEW r \in RunIds
        PROVE  /\ runs'[r] \in Runs /\ runs'[r].graph = runs[r].graph
               /\ runs'[r].state \in {runs[r].state, "lost"}
               /\ runs'[r].state = "lost" => runs[r].state # "none"
               /\ runs'[r].state # "lost" => runs'[r] = runs[r]
    <2>1. runs[r] \in Runs
      BY DEF Inv, RunInv, RunTypes
    <2>2. CASE runs[r].state \in {"begun", "working"}
      <3>1. runs'[r] = [runs[r] EXCEPT !.state = "lost"]
        BY <1>1, <2>2
      <3> QED BY <2>1, <2>2, <3>1 DEF Runs, States
    <2>3. CASE runs[r].state \notin {"begun", "working"}
      <3>1. runs'[r] = runs[r]
        BY <1>1, <2>3
      <3> QED BY <2>1, <2>3, <3>1
    <2> QED BY <2>2, <2>3
  <1>5. controllers' \in Seq(Controllers) /\ Len(controllers') = 1 /\ controllers'[1].thread = "none"
    BY <1>1 DEF NewController, Controllers
  <1>6. RunTypes'
    BY <1>1, <1>4, <1>5 DEF RunTypes
  <1>7. RunHasGraph'
    BY <1>2, <1>4 DEF Inv, RunInv, RunHasGraph, Grows
  <1>8. WorkIsAccepted'
    BY <1>4 DEF Inv, RunInv, WorkIsAccepted
  <1>9. ThreadHasRun'
    BY <1>5 DEF ThreadHasRun
  <1> QED BY <1>2, <1>3, <1>6, <1>7, <1>8, <1>9 DEF Inv, RunInv

-----------------------------------------------------------------------------
LEMMA InvInit == Init => Inv
  <1> SUFFICES ASSUME Init PROVE Inv
    OBVIOUS
  <1> USE DEF Init
  <1>1. StoreTypes
    <2>1. <<>> \in Seq(Entries)
      OBVIOUS
    <2> QED BY <2>1 DEF StoreTypes
  <1>2. LockedIsAuthorized /\ GraphIsAuthorized
    BY DEF LockedIsAuthorized, GraphIsAuthorized
  <1>3. Shows(desk)
    BY NoneIsNoObject DEF Shows, Entered
  <1>4. NoRun \in Runs /\ NoRun.state = "none"
    BY DEF NoRun, Runs, States
  <1>5. NewController \in Controllers /\ NewController.thread = "none"
    BY DEF NewController, Controllers
  <1>6. RunTypes
    BY <1>4, <1>5 DEF RunTypes
  <1>7. RunHasGraph /\ WorkIsAccepted /\ ThreadHasRun
    BY <1>4, <1>5 DEF RunHasGraph, WorkIsAccepted, ThreadHasRun
  <1> QED BY <1>1, <1>2, <1>3, <1>6, <1>7 DEF Inv, StoreInv, RunInv

(* One step per click, callback and step of a worker.                       *)
LEMMA InvStep == Inv /\ [Next]_vars => Inv'
  <1> SUFFICES ASSUME Inv, [Next]_vars PROVE Inv'
    OBVIOUS
  <1>1. CASE UNCHANGED vars
    <2>1. StoreInv' /\ Shows(desk)' /\ Grows
      BY <1>1, DeskKept DEF vars
    <2>2. RunInv'
      BY <1>1, <2>1, RunsKept DEF Inv, vars
    <2> QED BY <2>1, <2>2 DEF Inv
  <1>2. ASSUME NEW p \in Projects, OpenProject(p) PROVE Inv'
    BY <1>2, OpenProjectStep
  <1>3. CASE Back
    BY <1>3, BackStep
  <1>4. ASSUME NEW r \in RunIds, OpenRun(r) \/ StartCodexRun(r) PROVE Inv'
    BY <1>4, OpenRunStep, StartCodexRunStep
  <1>5. ASSUME NEW t \in Tasks, PreviewTask(t) \/ OpenTaskPlan(t) PROVE Inv'
    BY <1>5, PreviewTaskStep, OpenTaskPlanStep
  <1>6. CASE SaveTask \/ ApprovePlan \/ BuildOrOpenContext
    BY <1>6, SaveTaskStep, ApprovePlanStep, BuildOrOpenContextStep
  <1>7. CASE BuildOrOpenBudget \/ LockTokenBudget
    BY <1>7, BuildOrOpenBudgetStep, LockTokenBudgetStep
  <1>8. ASSUME NEW preset \in AllPresets, RebuildTokenBudget(preset) PROVE Inv'
    BY <1>8, RebuildTokenBudgetStep
  <1>9. CASE BuildOrOpenAgentRunGraph
    BY <1>9, BuildOrOpenAgentRunGraphStep
  <1>10. CASE CancelCodexRun \/ SaveDriverSettings
    BY <1>10, CancelCodexRunStep, SaveDriverSettingsStep
  <1>11. ASSUME NEW c \in DOMAIN controllers, Worker(c) PROVE Inv'
    BY <1>11, RunBeginsStep, RunEndsStep, ThreadEndsStep DEF Worker
  <1>12. CASE PollDrains \/ Reopen
    BY <1>12, PollDrainsStep, ReopenStep
  <1>13. CASE PollEnds
    <2>1. StoreInv' /\ Shows(desk)' /\ Grows
      BY <1>13, DeskKept DEF PollEnds
    <2>2. RunInv'
      BY <1>13, <2>1, RunsKept DEF Inv, PollEnds
    <2> QED BY <2>1, <2>2 DEF Inv
  <1> QED BY <1>1, <1>2, <1>3, <1>4, <1>5, <1>6, <1>7, <1>8, <1>9, <1>10, <1>11, <1>12, <1>13
          DEF Next, AllPresets

LEMMA InvAuthorizes == Inv => RunIsAuthorized
  <1> SUFFICES ASSUME Inv, NEW r \in RunIds, runs[r].state \in {"working", "completed", "failed"}
               PROVE  LET run == runs[r] IN
                      /\ run.graph \in graphs /\ Authorized(run.graph)
                      /\ plans[run.graph.context.task] = "approved"
                      /\ run.context = run.graph.context /\ run.context.repaired \in contexts[run.context.task]
                      /\ run.project = ProjectOf[run.context.task]
    BY DEF RunIsAuthorized
  <1>1. runs[r].graph \in graphs /\ Accepted(runs[r])
    BY DEF Inv, RunInv, RunHasGraph, WorkIsAccepted
  <1>2. /\ Authorized(runs[r].graph) /\ plans[runs[r].graph.context.task] = "approved"
        /\ runs[r].graph.context.repaired \in contexts[runs[r].graph.context.task]
    BY <1>1 DEF Inv, StoreInv, GraphIsAuthorized
  <1>3. runs[r].context = runs[r].graph.context /\ runs[r].project = ProjectOf[runs[r].graph.context.task]
    BY <1>1 DEF Accepted
  <1> QED BY <1>1, <1>2, <1>3

(* Whatever was opened before, and in whatever order, a run that gets to    *)
(* work carries out a stored graph of an approved plan, under limits the    *)
(* user locked, in the project of its task (desktop/shell.py,               *)
(* CodexGraphRuntime._validate_inputs).                                     *)
THEOREM AuthorizedRunsHold == Spec => []RunIsAuthorized
  <1> QED BY InvInit, InvStep, InvAuthorizes, PTL DEF Spec

-----------------------------------------------------------------------------
(* The callbacks of the desktop against the worker of its controller.       *)

\* The messages that were not taken, and the one a worker still has to put.
Owed(k) == Len(k.messages) + (IF k.thread \in {"begun", "working"} THEN 1 ELSE 0)

\* More callbacks are due than that while one is about to go that took a message: it may be the
\* last.  A worker that has told its result, and is still to end, has one as well.
AwaitInv ==
    /\ polls \in Nat /\ tk \in {"free", "drained", "told"}
    /\ polls >= Owed(controllers[Current])
    /\ tk = "told" => polls > Owed(controllers[Current])
    /\ tk # "free" \/ Alive(Current) => polls > 0

LEMMA OwedBounds ==
  ASSUME NEW k, Len(k.messages) \in Nat
  PROVE  Owed(k) \in Nat /\ Owed(k) >= Len(k.messages)
  <1>1. CASE k.thread \in {"begun", "working"}
    <2>1. Owed(k) = Len(k.messages) + 1
      BY <1>1, Zenon DEF Owed
    <2> QED BY <2>1
  <1>2. CASE k.thread \notin {"begun", "working"}
    <2>1. Owed(k) = Len(k.messages) + 0
      BY <1>2, Zenon DEF Owed
    <2> QED BY <2>1
  <1> QED BY <1>1, <1>2

LEMMA CurrentTyped ==
  ASSUME RunTypes
  PROVE  /\ Current \in 1..Len(controllers) /\ controllers[Current] \in Controllers
         /\ controllers[Current].messages \in Seq(RunIds)
         /\ Len(controllers[Current].messages) \in Nat
         /\ Owed(controllers[Current]) \in Nat
  <1>1. Current \in 1..Len(controllers) /\ controllers[Current] \in Controllers
    BY DEF RunTypes, Current
  <1>2. controllers[Current].messages \in Seq(RunIds)
    BY <1>1 DEF Controllers
  <1>3. Len(controllers[Current].messages) \in Nat
    BY <1>2
  <1> QED BY <1>1, <1>2, <1>3, OwedBounds

LEMMA AwaitInit == Init => AwaitInv
  <1> SUFFICES ASSUME Init PROVE AwaitInv
    OBVIOUS
  <1>1. Current = 1 /\ controllers[Current] = NewController
    BY DEF Init, Current
  <1>2. Owed(NewController) = 0 /\ NewController.thread = "none"
    BY DEF Owed, NewController
  <1> QED BY <1>1, <1>2 DEF Init, AwaitInv, Alive

LEMMA AwaitKept ==
  ASSUME AwaitInv, UNCHANGED <<controllers, polls, tk>>
  PROVE  AwaitInv'
  BY DEF AwaitInv, Current, Alive

\* A controller other than the desktop's, or nothing a callback waits for.
LEMMA AwaitSame ==
  ASSUME AwaitInv, UNCHANGED <<polls, tk>>, Current' = Current,
         Owed(controllers'[Current]) = Owed(controllers[Current]),
         controllers'[Current].thread # "none" => controllers[Current].thread # "none"
  PROVE  AwaitInv'
  <1>1. Owed(controllers[Current])' = Owed(controllers[Current])
    BY DEF Owed
  <1>2. Alive(Current)' => Alive(Current)
    BY DEF Alive
  <1> QED BY <1>1, <1>2 DEF AwaitInv

\* One controller is replaced.
LEMMA Replaced ==
  ASSUME RunTypes, NEW c \in 1..Len(controllers), NEW k, controllers' = [controllers EXCEPT ![c] = k]
  PROVE  /\ Current' = Current
         /\ controllers'[c] = k
         /\ \A d \in 1..Len(controllers) : d # c => controllers'[d] = controllers[d]
  <1>1. Len(controllers') = Len(controllers)
    BY DEF RunTypes
  <1> QED BY <1>1 DEF RunTypes, Current

LEMMA AwaitWorker ==
  ASSUME RunTypes, AwaitInv, NEW c \in DOMAIN controllers, Worker(c)
  PROVE  AwaitInv'
  <1>1. c \in 1..Len(controllers) /\ controllers[c] \in Controllers
    BY DEF RunTypes
  <1>2. controllers[c].messages \in Seq(RunIds)
    BY <1>1 DEF Controllers
  <1>3. UNCHANGED <<polls, tk>>
    BY DEF Worker, RunBegins, RunEnds, ThreadEnds
  <1>4. ASSUME NEW k, controllers' = [controllers EXCEPT ![c] = k], Owed(k) = Owed(controllers[c]),
               k.thread # "none" => controllers[c].thread # "none"
        PROVE  AwaitInv'
    <2>1. /\ Current' = Current /\ controllers'[c] = k
          /\ \A d \in 1..Len(controllers) : d # c => controllers'[d] = controllers[d]
      BY <1>1, <1>4, Replaced
    <2>2. controllers'[Current] = controllers[Current] \/ Current = c
      BY <2>1, CurrentTyped
    <2> QED BY <1>3, <1>4, <2>1, <2>2, AwaitSame
  <1>5. ASSUME NEW state, Tell(c, state), controllers[c].thread \in {"begun", "working"}
        PROVE  AwaitInv'
    <2> DEFINE r == controllers[c].run
               k == [controllers[c] EXCEPT !.thread = "ending", !.messages = Append(@, r)]
    <2>1. controllers' = [controllers EXCEPT ![c] = k]
      BY <1>1, <1>5 DEF Tell, RunTypes, Controllers
    <2>2. k.thread = "ending" /\ k.messages = Append(controllers[c].messages, r)
      BY <1>1 DEF Controllers
    <2>3. Len(k.messages) = Len(controllers[c].messages) + 1 /\ Len(controllers[c].messages) \in Nat
      BY <1>2, <2>2
    <2>4. Owed(k) = Owed(controllers[c])
      BY <1>5, <2>2, <2>3 DEF Owed
    <2> HIDE DEF k
    <2> QED BY <1>4, <1>5, <2>1, <2>4
  <1>6. CASE RunBegins(c)
    <2>1. CASE controllers' = [controllers EXCEPT ![c].thread = "working"]
      <3> DEFINE k == [controllers[c] EXCEPT !.thread = "working"]
      <3>1. controllers' = [controllers EXCEPT ![c] = k]
        BY <1>1, <2>1 DEF RunTypes
      <3>2. k.thread = "working" /\ k.messages = controllers[c].messages
        BY <1>1 DEF Controllers
      <3>3. controllers[c].thread = "begun"
        BY <1>6 DEF RunBegins
      <3>4. Owed(k) = Owed(controllers[c])
        BY <3>2, <3>3 DEF Owed
      <3> HIDE DEF k
      <3> QED BY <1>4, <3>1, <3>3, <3>4
    <2> QED BY <1>5, <1>6, <2>1 DEF RunBegins
  <1>7. CASE RunEnds(c)
    BY <1>5, <1>7 DEF RunEnds
  <1>8. CASE ThreadEnds(c)
    <2> DEFINE k == [controllers[c] EXCEPT !.thread = "none"]
    <2>1. controllers' = [controllers EXCEPT ![c] = k]
      BY <1>1, <1>8 DEF RunTypes, ThreadEnds
    <2>2. k.thread = "none" /\ k.messages = controllers[c].messages
      BY <1>1 DEF Controllers
    <2>3. Owed(k) = Owed(controllers[c])
      BY <1>8, <2>2 DEF Owed, ThreadEnds
    <2> HIDE DEF k
    <2> QED BY <1>4, <2>1, <2>2, <2>3
  <1> QED BY <1>6, <1>7, <1>8 DEF Worker

\* The Tk thread's own steps on its controller and its callbacks.
LEMMA AwaitDesk ==
  ASSUME RunTypes, AwaitInv,
         \/ \E r \in RunIds : StartCodexRun(r)
         \/ CancelCodexRun \/ SaveDriverSettings \/ PollDrains \/ PollEnds \/ Reopen
  PROVE  AwaitInv'
  <1> DEFINE now == controllers[Current]
  <1>1. /\ Current \in 1..Len(controllers) /\ now \in Controllers
        /\ now.messages \in Seq(RunIds) /\ Len(now.messages) \in Nat /\ Owed(now) \in Nat
    BY CurrentTyped
  <1>2. ASSUME NEW k, controllers' = [controllers EXCEPT ![Current] = k]
        PROVE  Current' = Current /\ controllers'[Current] = k
               /\ Owed(controllers[Current])' = Owed(k)
               /\ (Alive(Current)' <=> k.thread # "none")
    <2>1. Current' = Current /\ controllers'[Current] = k
      BY <1>1, <1>2, Replaced
    <2>2. controllers[Current]' = k
      BY <2>1
    <2> QED BY <2>1, <2>2 DEF Owed, Alive
  <1>3. ASSUME NEW r \in RunIds, StartCodexRun(r)
        PROVE  AwaitInv'
    <2> DEFINE k == [now EXCEPT !.run = r, !.thread = "begun"]
    <2>1. controllers' = [controllers EXCEPT ![Current].run = r, ![Current].thread = "begun"]
      BY <1>3 DEF StartCodexRun
    <2>2. controllers' = [controllers EXCEPT ![Current] = k]
      BY <1>1, <2>1 DEF RunTypes
    <2>3. k.thread = "begun" /\ k.messages = now.messages
      BY <1>1 DEF Controllers
    <2>4. tk = "free" /\ tk' = tk /\ polls' = polls + 1 /\ now.thread = "none"
      BY <1>3 DEF StartCodexRun, Alive
    <2>5. Owed(k) = Owed(now) + 1
      BY <1>1, <2>3, <2>4 DEF Owed
    <2> HIDE DEF k, now
    <2>6. Owed(controllers[Current])' = Owed(now) + 1
      BY <1>2, <2>2, <2>5
    <2> QED BY <1>1, <2>4, <2>6 DEF AwaitInv, now
  <1>4. CASE CancelCodexRun
    <2> DEFINE k == [now EXCEPT !.cancel = TRUE]
    <2>1. controllers' = [controllers EXCEPT ![Current] = k] /\ UNCHANGED <<polls, tk>>
      BY <1>1, <1>4 DEF CancelCodexRun, RunTypes
    <2>2. k.thread = now.thread /\ k.messages = now.messages
      BY <1>1 DEF Controllers
    <2>3. Owed(k) = Owed(now)
      BY <2>2 DEF Owed
    <2> HIDE DEF k
    <2> QED BY <1>2, <2>1, <2>2, <2>3, AwaitSame
  <1>5. CASE SaveDriverSettings
    <2>1. /\ controllers' = Append(controllers, NewController)
          /\ tk = "free" /\ UNCHANGED <<polls, tk>>
      BY <1>5 DEF SaveDriverSettings
    <2>2. controllers'[Current'] = NewController
      BY <2>1 DEF RunTypes, Current
    <2>3. Owed(controllers[Current])' = 0 /\ ~Alive(Current)'
      BY <2>2 DEF Owed, Alive, NewController
    <2> QED BY <2>1, <2>3 DEF AwaitInv
  <1>6. CASE PollDrains
    <2> DEFINE k == [now EXCEPT !.messages = <<>>]
    <2>1. /\ controllers' = [controllers EXCEPT ![Current] = k]
          /\ tk = "free" /\ polls > 0 /\ polls' = polls
          /\ tk' = IF now.messages = <<>> THEN "drained" ELSE "told"
      BY <1>1, <1>6 DEF PollDrains, RunTypes
    <2>2. k.thread = now.thread /\ k.messages = <<>>
      BY <1>1 DEF Controllers
    <2>3. Owed(k) = Owed(now) - Len(now.messages) /\ Owed(k) \in Nat
      BY <1>1, <2>2 DEF Owed
    <2>4. now.messages = <<>> \/ Len(now.messages) > 0
      BY <1>1
    <2> HIDE DEF k, now
    <2>5. Owed(controllers[Current])' = Owed(k)
      BY <1>2, <2>1
    <2> QED BY <1>1, <2>1, <2>3, <2>4, <2>5 DEF AwaitInv, now
  <1>7. CASE PollEnds
    <2>1. /\ tk # "free" /\ tk' = "free" /\ UNCHANGED controllers
          /\ polls' = IF PollAgain THEN polls ELSE polls - 1
      BY <1>7 DEF PollEnds
    <2>2. Owed(controllers[Current])' = Owed(now) /\ (Alive(Current)' <=> Alive(Current))
      BY <2>1 DEF Owed, Alive, Current
    <2>3. polls > 0 /\ polls \in Nat
      BY <2>1 DEF AwaitInv
    <2>4. CASE PollAgain
      BY <2>1, <2>2, <2>3, <2>4 DEF AwaitInv
    <2>5. CASE ~PollAgain
      <3>1. tk # "drained" /\ ~Alive(Current) /\ polls' = polls - 1
        BY <2>1, <2>5 DEF PollAgain
      <3>2. polls > Owed(now)
        BY <2>1, <3>1 DEF AwaitInv
      <3> QED BY <1>1, <2>1, <2>2, <2>3, <3>1, <3>2 DEF AwaitInv
    <2> QED BY <2>4, <2>5
  <1>8. CASE Reopen
    <2>1. controllers' = <<NewController>> /\ polls' = 0 /\ tk' = tk /\ tk = "free"
      BY <1>8 DEF Reopen
    <2>2. controllers'[Current'] = NewController
      BY <2>1 DEF Current
    <2>3. Owed(controllers[Current])' = 0 /\ ~Alive(Current)'
      BY <2>2 DEF Owed, Alive, NewController
    <2> QED BY <2>1, <2>3 DEF AwaitInv
  <1> QED BY <1>3, <1>4, <1>5, <1>6, <1>7, <1>8

LEMMA AwaitStep == RunTypes /\ AwaitInv /\ [Next]_vars => AwaitInv'
  <1> SUFFICES ASSUME RunTypes, AwaitInv, [Next]_vars PROVE AwaitInv'
    OBVIOUS
  <1>1. ASSUME NEW d, Click(d) PROVE AwaitInv'
    BY <1>1, AwaitKept DEF Click
  <1>2. ASSUME NEW p, OpenProject(p) PROVE AwaitInv'
    BY <1>1, <1>2 DEF OpenProject
  <1>3. CASE Back
    BY <1>1, <1>3 DEF Back
  <1>4. ASSUME NEW r, OpenRun(r) PROVE AwaitInv'
    BY <1>1, <1>4 DEF OpenRun
  <1>5. ASSUME NEW t, PreviewTask(t) \/ OpenTaskPlan(t) PROVE AwaitInv'
    BY <1>1, <1>5, AwaitKept DEF PreviewTask, OpenTaskPlan
  <1>6. CASE SaveTask \/ ApprovePlan \/ BuildOrOpenContext
    BY <1>6, AwaitKept DEF SaveTask, ApprovePlan, BuildOrOpenContext
  <1>7. ASSUME NEW b, KeepBudget(b) PROVE AwaitInv'
    BY <1>7, AwaitKept DEF KeepBudget
  <1>8. CASE BuildOrOpenBudget \/ LockTokenBudget
    BY <1>1, <1>7, <1>8 DEF BuildOrOpenBudget, LockTokenBudget
  <1>9. ASSUME NEW preset, RebuildTokenBudget(preset) PROVE AwaitInv'
    BY <1>7, <1>9 DEF RebuildTokenBudget
  <1>10. CASE BuildOrOpenAgentRunGraph \/ UNCHANGED vars
    BY <1>10, AwaitKept DEF BuildOrOpenAgentRunGraph, vars
  <1>11. ASSUME NEW c \in DOMAIN controllers, Worker(c) PROVE AwaitInv'
    BY <1>11, AwaitWorker
  <1> QED BY <1>2, <1>3, <1>4, <1>5, <1>6, <1>8, <1>9, <1>10, <1>11, AwaitDesk DEF Next

(* With any number of runs, controllers and callbacks, started and replaced *)
(* in any order: as long as the worker of the desktop's controller lives,   *)
(* or a message of it was not taken, a callback is due that will take it,   *)
(* although a callback reads "is it alive" only after it took the messages  *)
(* (_poll_codex_execution).                                                 *)
THEOREM ResultIsAwaitedHolds == Spec => []ResultIsAwaited
  <1>1. Inv => RunTypes
    BY DEF Inv, RunInv
  <1>2. RunTypes /\ AwaitInv => ResultIsAwaited
    <2> SUFFICES ASSUME RunTypes, AwaitInv, controllers[Current].messages # <<>>
                 PROVE  polls > 0
      BY DEF ResultIsAwaited, AwaitInv
    <2>1. Len(controllers[Current].messages) > 0
      BY CurrentTyped
    <2>2. Owed(controllers[Current]) > 0
      BY <2>1, CurrentTyped, OwedBounds
    <2> QED BY <2>2, CurrentTyped DEF AwaitInv
  <1> QED BY <1>1, <1>2, InvInit, InvStep, AwaitInit, AwaitStep, PTL DEF Spec
=============================================================================
