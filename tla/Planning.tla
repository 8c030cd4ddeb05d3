------------------------------ MODULE Planning -------------------------------
(***************************************************************************)
(* From a ticket to an agent run graph (planner.py, context_selector.py,   *)
(* token_budget.py, agent_dispatcher.py, _materialize_workflow of          *)
(* web_desktop.py): the plan and its approval, the context packs of its    *)
(* steps, the locked budget, who may write which file, and the one repair  *)
(* of a graph in which a writer was left without a file.                   *)
(*                                                                         *)
(* The words of a ticket and the names of files enter as what the          *)
(* classifiers make of them: the fields of a ticket, and per file the      *)
(* roles that may edit it.  The score of a file for a step is an order.    *)
(***************************************************************************)
EXTENDS Naturals, Sequences, FiniteSets, SequencesExt

Writers == {"frontend", "backend", "coordinator", "release"}
Domains == {"frontend", "backend", "security", "release"}
RoleSet == Writers \cup Domains \cup {"discovery", "quality"}
Scope   == "verification root"      \* the directory scope a writer may be given

CONSTANTS
  File,          \* paths of the project, existing or to be created
  Sensitive,     \* secrets and links: no agent may see them
  DataModel,     \* schema, migration and SQL files
  Binary,        \* files no pack can carry
  Below,         \* files under the nested verification root
  Editable,      \* per file: roles that may edit a file of this name
  Pattern,       \* per file and role: how specific the role's pattern for it is
  Fits,          \* per file: roles a ticket that names it can mean
  Target,        \* per role: the conventional file to create
  Feed,          \* the endpoint created for live prices
  Cases,         \* tickets with the project they are for
  Scorings,      \* per role: the files with a positive score, best first
  WriterFiles,   \* bound: files in the pack of a writer
  ReaderFiles    \* bound: files in any other pack

ASSUME PlanningAssumption ==
  /\ Sensitive \cup DataModel \cup Binary \cup Below \subseteq File
  /\ Editable \in [File -> SUBSET (Writers \ {"coordinator"})]
  /\ Pattern \in [File -> [Writers -> Nat]]
  /\ Fits \in [File -> SUBSET Writers]
  /\ Target \in [Writers -> File] /\ Feed \in File /\ Scope \notin File
  /\ \A s \in Scorings : \A r \in DOMAIN s : IsInjective(s[r])
  /\ WriterFiles \in Nat \ {0} /\ ReaderFiles \in Nat \ {0}

\* The domains of a ticket are listed once each, and security never alone: each word that
\* adds it adds the backend, and what takes the backend away again adds the frontend.
ASSUME CasesAssumption ==
  \A c \in Cases :
     LET listed == c.ticket.domains
     IN /\ listed \in Seq(Domains) /\ IsInjective(listed)
        /\ "security" \in ToSet(listed) => {"frontend", "backend"} \cap ToSet(listed) # {}
        /\ c.project.files \subseteq File

VARIABLES
  case,        \* the ticket and its project
  phase,       \* how far the ticket came
  plan,        \* the roles of the steps in order, what each step depends on, its status
  packs,       \* per step: the files of its context pack
  budget,      \* per step: what it was allotted; draft or locked
  forced,      \* the packs were rebuilt to repair a missing scope
  graph,       \* per node: what it owns, what it reads, its wave
  refusal      \* why there is no graph

vars == <<case, phase, plan, packs, budget, forced, graph, refusal>>

NoPlan == [roles |-> <<>>, deps |-> <<>>, status |-> "none"]
NoBudget == [limits |-> <<>>, packs |-> <<>>, status |-> "none"]
NoGraph == [owned |-> <<>>, reads |-> <<>>, wave |-> <<>>]

-----------------------------------------------------------------------------
(* The plan. *)

Requested(t) == t.kind \in {"bug_fix", "feature", "ui_improvement"} \/ t.asks

\* likely_paths is never empty, so a ticket that asks for a change needs no discovery.
SkipDiscovery(t) ==
  \/ Requested(t)
  \/ t.handoff /\ t.kind # "audit"
  \/ t.risk = "low" /\ t.named # {} /\ ~t.study

SkipQuality(t, p) == Requested(t) /\ p.verifiable

Extend(s, r) == IF r \in ToSet(s) THEN s ELSE Append(s, r)

\* Mutant: no fallback for a ticket without a domain word.
ImplementersNamed(t) ==
  IF t.kind = "release" THEN Extend(t.domains, "release") ELSE t.domains

\* Who implements: the domains of the text, live data, the release template, a fallback.
Implementers(t) ==
  LET data  == IF t.live THEN Extend(t.domains, "backend") ELSE t.domains
      named == IF t.kind = "release" THEN Extend(data, "release") ELSE data
      all   == IF named = <<>> /\ Requested(t) THEN <<"backend">> ELSE named
  IN IF Len(all) >= 3 /\ t.risk # "high" /\ ~t.separate THEN <<"coordinator">> ELSE all

Roles(t, p) ==
  (IF SkipDiscovery(t) THEN <<>> ELSE <<"discovery">>)
    \o (IF t.kind = "audit" THEN <<>> ELSE Implementers(t))
    \o (IF SkipQuality(t, p) THEN <<>> ELSE <<"quality">>)

\* Mutant: the implementing steps wait for the first step only.
DependsOnFirst(roles) == [r \in ToSet(roles) |-> IF r = roles[1] THEN {} ELSE {roles[1]}]

\* Each step waits for the one before it.
Depends(roles) ==
  [r \in ToSet(roles) |->
     {roles[i] : i \in {j \in 1..Len(roles) - 1 : roles[j + 1] = r}}]

DraftPlan(t, p) ==
  [roles |-> Roles(t, p), deps |-> Depends(Roles(t, p)), status |-> "draft"]

-----------------------------------------------------------------------------
(* The context packs. *)

Candidates(p) == p.files \ Sensitive
Protected(p)  == p.files \cap Sensitive
MayEdit(f, r) == r = "coordinator" \/ r \in Editable[f]

Only(s, S)  == SelectSeq(s, LAMBDA f : f \in S)
First(s, S) == Only(s, S) \o SelectSeq(s, LAMBDA f : f \notin S)

Related(p, S) == UNION {pair : pair \in {q \in p.related : q \cap S # {}}} \ S

\* The file a ticket names for a role, and else the conventional one.
Meant(t, r) == {f \in t.named : r \in Fits[f]}
CreationTarget(t, r) == IF Meant(t, r) # {} THEN CHOOSE f \in Meant(t, r) : TRUE ELSE Target[r]

Targets(p, r) == {f \in Candidates(p) : MayEdit(f, r)}

\* Files the writer is to create; the text of a writer's step always asks for a change.
VirtualTarget(t, p, r, force) ==
  {f \in {CreationTarget(t, w) : w \in Writers \cap {r}} :
     /\ f \notin p.files
     /\ \/ t.named # {} \/ Targets(p, r) = {} \/ force
        \/ r = "frontend" /\ t.page # "none"}

Created(t, p, r, force) ==
  VirtualTarget(t, p, r, force)
    \cup {f \in {Feed} : t.live /\ r = "backend" /\ f \notin p.files}

\* Mutant: what scored is all there is.
GuaranteedNothing(s, p, r) == s

\* An existing file for every writer that has one, whatever the scores say.
Guaranteed(s, p, r) ==
  IF r \notin Writers \/ Targets(p, r) = {} \/ ToSet(s) \cap Targets(p, r) # {}
  THEN s
  ELSE Append(s, CHOOSE f \in Targets(p, r) : TRUE)

Chosen(t, p, r, scored) ==
  LET named    == t.named \cap Candidates(p)
      ranked   == First(Only(scored, Candidates(p)), named)
      exact    == r \in Writers \cup {"quality"} /\ Only(ranked, named) # <<>>
      narrowed == IF exact THEN Only(ranked, named) ELSE ranked
      editable == IF r \in Writers
                  THEN Only(narrowed, named \cup Targets(p, r)) ELSE narrowed
  IN Guaranteed(editable, p, r)

Primary(t, p, chosen) ==
  LET named == t.named \cap Candidates(p)
  IN IF named # {} THEN named ELSE {Head(chosen)}

\* Mutant: only those that were not chosen anyway are marked.
DependenciesAdded(t, p, chosen) ==
  IF chosen = <<>> THEN {}
  ELSE (Related(p, Primary(t, p, chosen)) \cap Candidates(p)) \ ToSet(chosen)

\* What the primary files import and who imports them, for reading only.
Dependencies(t, p, chosen) ==
  IF chosen = <<>> THEN {}
  ELSE {f \in Related(p, Primary(t, p, chosen)) \cap Candidates(p) :
          ~(t.data /\ f \in DataModel)}

Ordered(t, p, chosen) ==
  IF chosen = <<>> THEN chosen
  ELSE LET extra == SetToSeq(Dependencies(t, p, chosen) \ ToSet(chosen))
           prime == Primary(t, p, chosen)
       IN First(First(chosen \o extra, Related(p, prime)), prime)

Limit(t, p, r, target) ==
  IF \/ r = "frontend" /\ t.page = "home" /\ t.named = {}
     \/ t.named # {} /\ target # {} /\ t.named \cap Candidates(p) = {}
  THEN 1
  ELSE IF r \in Writers THEN WriterFiles ELSE ReaderFiles

Pack(t, p, r, scored, force) ==
  LET chosen  == Chosen(t, p, r, scored)
      created == Created(t, p, r, force)
      room    == Limit(t, p, r, VirtualTarget(t, p, r, force))
      carried == SelectSeq(Ordered(t, p, chosen), LAMBDA f : f \notin Binary)
      kept    == IF chosen = <<>> \/ Cardinality(created) >= room THEN {}
                 ELSE ToSet(SubSeq(carried, 1, Min({Len(carried), room - Cardinality(created)})))
      edits(f) == /\ r \in Writers /\ f \notin Dependencies(t, p, chosen)
                  /\ f \in t.named \/ MayEdit(f, r)
  IN {[file |-> f, edit |-> edits(f), named |-> f \in t.named,
       data |-> t.data /\ r \in {"backend", "coordinator"} /\ f \in DataModel] : f \in kept}
     \cup
     {[file |-> f, edit |-> TRUE, named |-> FALSE, data |-> FALSE] : f \in created}

-----------------------------------------------------------------------------
(* The graph. *)

WritingSteps == ToSet(plan.roles) \cap Writers

\* Mutant: as the selection offered it.
ContractedEdit(e) == e.edit

Contracted(e) == e.edit /\ (e.file \in DataModel => e.data \/ e.named)

Claims(f) == {r \in WritingSteps : \E e \in packs[r] : e.file = f /\ Contracted(e)}

\* The claimants with the most specific pattern; the score and the order decide among them.
Best(f) == {r \in Claims(f) : \A q \in Claims(f) : Pattern[f][q] <= Pattern[f][r]}

Claimed == {f \in File : Claims(f) # {}}

OwnedBy(owner, r) == {f \in Claimed : owner[f] = r}

\* Mutant: beside other writers too.
CreationScopeOfAll(owner, r) ==
  IF /\ case.project.nested /\ r \in {"backend", "coordinator"}
     /\ OwnedBy(owner, r) \cap Below # {}
  THEN {Scope} ELSE {}

\* One backend or coordinator writer of a nested application may add files beside its own.
CreationScope(owner, r) ==
  IF /\ case.project.nested
     /\ WritingSteps = {r} /\ r \in {"backend", "coordinator"}
     /\ OwnedBy(owner, r) \cap Below # {}
  THEN {Scope} ELSE {}

Overlap(p, q) == (p = q) \/ (p = Scope /\ q \in Below) \/ (q = Scope /\ p \in Below)

\* The steps of the first n waves.
Done(deps) ==
  LET done[n \in 0..Cardinality(DOMAIN deps)] ==
        IF n = 0 THEN {} ELSE {r \in DOMAIN deps : deps[r] \subseteq done[n - 1]}
  IN done

\* _execution_waves: a step runs in the wave after the last of its dependencies.
Waves(deps) ==
  [r \in DOMAIN deps |-> CHOOSE n \in 1..Cardinality(DOMAIN deps) :
                            r \in Done(deps)[n] /\ r \notin Done(deps)[n - 1]]

Graph(owner) ==
  LET owns(r) == OwnedBy(owner, r) \cup CreationScope(owner, r)
  IN [owned |-> [r \in ToSet(plan.roles) |-> IF r \in Writers THEN owns(r) ELSE {}],
      reads |-> [r \in ToSet(plan.roles) |-> {e.file : e \in packs[r]} \ owns(r)],
      wave  |-> Waves(plan.deps)]

ScopeMissing(g) == \E r \in WritingSteps : g.owned[r] = {}

ProtectedReached(g) ==
  \E f \in Protected(case.project), r \in DOMAIN g.owned :
     \E q \in g.owned[r] \cup g.reads[r] : Overlap(f, q)

-----------------------------------------------------------------------------
(* The steps of _materialize_workflow. *)

Init ==
  /\ case \in Cases /\ phase = "ready_for_planning" /\ plan = NoPlan /\ packs = <<>>
  /\ budget = NoBudget /\ forced = FALSE /\ graph = NoGraph /\ refusal = "none"

Refuse(why) == phase' = "refused" /\ refusal' = why

\* A plan needs at least one agent.
GeneratePlan ==
  /\ phase = "ready_for_planning"
  /\ IF Roles(case.ticket, case.project) = <<>>
     THEN Refuse("plan") /\ UNCHANGED plan
     ELSE /\ plan' = DraftPlan(case.ticket, case.project)
          /\ phase' = "planned" /\ UNCHANGED refusal
  /\ UNCHANGED <<case, packs, budget, forced, graph>>

ApprovePlan ==
  /\ phase = "planned" /\ plan.status = "draft"
  /\ plan' = [plan EXCEPT !.status = "approved"]
  /\ phase' = "approved"
  /\ UNCHANGED <<case, packs, budget, forced, graph, refusal>>

BuildContext ==
  /\ phase = "approved" /\ plan.status = "approved"
  /\ \E s \in Scorings :
       packs' = [r \in ToSet(plan.roles) |-> Pack(case.ticket, case.project, r, s[r], forced)]
  /\ phase' = "selected"
  /\ UNCHANGED <<case, plan, budget, forced, graph, refusal>>

\* An allocation grows with the files of the pack; the limit is their sum.
BuildBudget ==
  /\ phase = "selected"
  /\ budget' = [limits |-> [r \in ToSet(plan.roles) |-> 1 + Cardinality(packs[r])],
                packs |-> packs, status |-> "locked"]
  /\ phase' = "locked"
  /\ UNCHANGED <<case, plan, packs, forced, graph, refusal>>

Dispatchable == phase = "locked" /\ budget.status = "locked" /\ budget.packs = packs

Owners == {owner \in [Claimed -> WritingSteps] : \A f \in Claimed : owner[f] \in Best(f)}

\* The scope of a writer is missing: rebuild the packs once, in the same request.
RepairScope ==
  /\ Dispatchable /\ ~forced
  /\ \E owner \in Owners : ScopeMissing(Graph(owner))
  /\ forced' = TRUE /\ phase' = "approved" /\ packs' = <<>> /\ budget' = NoBudget
  /\ UNCHANGED <<case, plan, graph, refusal>>

RefuseGraph ==
  /\ Dispatchable
  /\ \E owner \in Owners :
       \/ forced /\ ScopeMissing(Graph(owner)) /\ Refuse("scope")
       \/ ~ScopeMissing(Graph(owner)) /\ ProtectedReached(Graph(owner)) /\ Refuse("protected")
  /\ UNCHANGED <<case, plan, packs, budget, forced, graph>>

Dispatch ==
  /\ Dispatchable
  /\ \E owner \in Owners :
       /\ ~ScopeMissing(Graph(owner)) /\ ~ProtectedReached(Graph(owner))
       /\ graph' = Graph(owner)
  /\ phase' = "dispatched"
  /\ UNCHANGED <<case, plan, packs, budget, forced, refusal>>

Next ==
  \/ GeneratePlan \/ ApprovePlan \/ BuildContext \/ BuildBudget
  \/ RepairScope \/ RefuseGraph \/ Dispatch

Spec == Init /\ [][Next]_vars

-----------------------------------------------------------------------------
(* Properties. *)

Dispatched == phase = "dispatched"

\* Two writers are never in one wave, whatever steps the plan left out, and no path is in
\* the write scope of both, a directory scope and the files below it counted as one: they
\* change one worktree without a lock, and the changes of a node are judged by its scope
\* (_build_steps, _execution_waves, _build_ownership).
WritersApart ==
  Dispatched =>
    \A r, q \in DOMAIN graph.owned : r # q =>
       /\ {r, q} \subseteq Writers => graph.wave[r] # graph.wave[q]
       /\ \A f \in graph.owned[r], g \in graph.owned[q] : ~Overlap(f, g)

\* What no writer owns, whichever of classification, selection and dispatch would let it:
\* a schema or migration without a request for data work or its name in the ticket; an
\* existing file that only imports, or is imported by, the files a ticket without data work
\* names; a secret, owned or read, as a file or below a directory scope.
OffLimits ==
  Dispatched =>
    LET t == case.ticket  p == case.project
        dependencies == Related(p, t.named \cap Candidates(p)) \cap p.files
    IN \A r \in DOMAIN graph.owned :
         /\ graph.owned[r] \cap DataModel \subseteq
              IF t.data /\ r \in {"backend", "coordinator"} THEN DataModel ELSE t.named
         /\ ~t.data => graph.owned[r] \cap dependencies = {}
         /\ \A f \in Protected(p), q \in graph.owned[r] \cup graph.reads[r] : ~Overlap(f, q)

\* An audit changes nothing; a ticket that asks for a change has a writer when it is
\* dispatched, and every writer a file: the plan decides who may write, the packs what.
ChangesHaveAWriter ==
  Dispatched =>
    LET writes == {r \in DOMAIN graph.owned : graph.owned[r] # {}}
    IN /\ case.ticket.kind = "audit" => writes = {}
       /\ Requested(case.ticket) /\ case.ticket.kind # "audit" => writes # {}
       /\ writes = ToSet(plan.roles) \cap Writers

\* The data models a project has and the files tied to one by an import.
AroundDataModels(p) == Candidates(p) \cap (DataModel \cup Related(p, DataModel))

\* A ticket with one writer is refused for want of a file, after the repair, only because of
\* data models: the ticket names one that is not there, or every file the writer could edit
\* is one, is tied to one by an import, or cannot be carried, or those files may fill the
\* pack.  The scores and the narrowing to named files, which drop files too, do not starve a
\* writer (_build_pack, the repair in _materialize_workflow).
RefusedForACause ==
  refusal = "scope" =>
    LET t == case.ticket  p == case.project
    IN \A r \in WritingSteps : WritingSteps = {r} =>
         \/ (t.named \cap DataModel) \ p.files # {}
         \/ Targets(p, r) \subseteq AroundDataModels(p) \cup Binary
         \/ Cardinality(AroundDataModels(p)) >= Limit(t, p, r, VirtualTarget(t, p, r, TRUE))
=============================================================================
