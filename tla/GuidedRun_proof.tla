--------------------------- MODULE GuidedRun_proof ---------------------------
(***************************************************************************)
(* Proofs about GuidedRun, for every number of requests, runs and tickets  *)
(* and every recovery policy.                                              *)
(***************************************************************************)
EXTENDS GuidedRun, FiniteSetTheorems, TLAPS

-----------------------------------------------------------------------------
(* The inductive invariant of the ownership of the worktree.               *)

Preparing == {"s_admit", "s_inspect", "s_launch"}
Spawning  == {"s_mark", "s_spawn"}

\* What the program counters and the one local of a thread need to be read.
Shape ==
  /\ pc \in [Threads -> Labels]
  /\ DOMAIN arg = Threads
  /\ DOMAIN row = Runs
  /\ DOMAIN origin = Runs

\* One thread is inside start_run(), and _starting_run says so.
OneStarter ==
  \A t \in Threads : pc[t] \in StartLabels =>
    /\ starting
    /\ \A u \in Threads : pc[u] \in StartLabels => u = t

\* Until the launch there is no current run.
NoRunYet == \A t \in Threads : pc[t] \in Preparing => ~running

\* After it the run is current, recorded, and has no worker yet; no other works.
LaunchedOwner ==
  \A t \in Threads : pc[t] \in Spawning =>
    /\ running /\ runtime = arg[t]
    /\ arg[t] \in Runs /\ pc[arg[t]] = "none" /\ row[arg[t]] # "none"
    /\ \A g \in Runs : pc[g] \notin WorkerLabels

\* A worker at work is the worker of the current run.
WorkerOwner == \A g \in Runs : pc[g] \in WorkerLabels => running /\ runtime = g

\* A run that was never recorded has no worker.
Unborn == \A g \in Runs : row[g] = "none" => pc[g] = "none"

Control ==
  Shape /\ OneStarter /\ NoRunYet /\ LaunchedOwner /\ WorkerOwner /\ Unborn

\* The route is fixed from the inspection of the provider to the end of the run.
RouteFixed ==
  /\ \A t \in Threads : pc[t] = "s_launch" => inspected = route
  /\ RouteLocked

LEMMA ControlInit == Init => Control /\ RouteFixed
  BY DEF Init, Control, Shape, OneStarter, NoRunYet, LaunchedOwner, WorkerOwner,
         Unborn, RouteFixed, RouteLocked, Owners, Threads, Labels, StartLabels,
         WorkerLabels, RepairLabels, PlanLabels, Preparing, Spawning

-----------------------------------------------------------------------------
(* Steps that neither enter nor leave start_run() or the worker.           *)

\* What such a step does to the variables Control speaks of.
Elsewhere(x, l) ==
  /\ pc[x] \notin StartLabels \cup WorkerLabels \cup {"none"}
  /\ l \in Labels \ (StartLabels \cup WorkerLabels \cup {"none"})
  /\ pc' = [pc EXCEPT ![x] = l]
  /\ DOMAIN arg' = Threads /\ \A t \in Threads : t # x => arg'[t] = arg[t]
  /\ UNCHANGED <<controlVars, routeVars, row, origin>>

LEMMA ElsewhereKeeps ==
  ASSUME Control, RouteFixed, NEW x \in Threads, NEW l, Elsewhere(x, l)
  PROVE  Control' /\ RouteFixed'
<1> USE DEF Control, Elsewhere, controlVars, routeVars
<1>1. Shape' BY DEF Shape
<1>2. OneStarter' BY DEF Shape, OneStarter
<1>3. NoRunYet' BY DEF Shape, NoRunYet, Preparing, StartLabels
<1>4. LaunchedOwner' BY DEF Shape, LaunchedOwner, Spawning, StartLabels, WorkerLabels, Threads
<1>5. WorkerOwner' BY DEF Shape, WorkerOwner, Threads
<1>6. Unborn' BY DEF Shape, Unborn, Threads
<1>7. RouteFixed' BY DEF Shape, RouteFixed, RouteLocked, Owners, StartLabels, WorkerLabels, Threads
<1> QED BY <1>1, <1>2, <1>3, <1>4, <1>5, <1>6, <1>7

LEMMA RequestKeeps ==
  ASSUME Control, RouteFixed, NEW t \in Requests,
         RequestPlan(t) \/ RequestStart(t) \/ RequestRepair(t) \/ RequestCancel(t)
  PROVE  Control' /\ RouteFixed'
<1> SUFFICES \E l \in Labels : Elsewhere(t, l)
  BY ElsewhereKeeps DEF Threads
<1> USE DEF Elsewhere, Issue, Goto, Control, Shape, controlVars, routeVars, ghostVars,
            rowVars, Labels, StartLabels, WorkerLabels, RepairLabels, PlanLabels, Threads
<1>1. CASE RequestPlan(t) BY <1>1 DEF RequestPlan
<1>2. CASE RequestStart(t) BY <1>2 DEF RequestStart
<1>3. CASE RequestRepair(t) BY <1>3 DEF RequestRepair
<1>4. CASE RequestCancel(t) BY <1>4 DEF RequestCancel
<1> QED BY <1>1, <1>2, <1>3, <1>4

LEMMA SignalKeeps ==
  ASSUME Control, RouteFixed, NEW t \in Threads,
         CancelStop(t) \/ CancelSignal(t) \/ (t = Clock /\ DeadlineFires)
  PROVE  Control' /\ RouteFixed'
<1> SUFFICES \E l \in Labels : Elsewhere(t, l)
  BY ElsewhereKeeps
<1> USE DEF Elsewhere, Step, Goto, Leave, Rest, Control, Shape, controlVars, routeVars,
            rowVars, Labels, StartLabels, WorkerLabels, RepairLabels, PlanLabels, Threads
<1>1. CASE CancelStop(t) BY <1>1 DEF CancelStop
<1>2. CASE CancelSignal(t) BY <1>2 DEF CancelSignal
<1>3. CASE t = Clock /\ DeadlineFires BY <1>3 DEF DeadlineFires, ghostVars
<1> QED BY <1>1, <1>2, <1>3

LEMMA PlanKeeps ==
  ASSUME Control, RouteFixed, NEW t \in Threads,
         CheckPlan(t) \/ PlanFails(t) \/ CommitPlan(t)
  PROVE  Control' /\ RouteFixed'
<1> SUFFICES \E l \in Labels : Elsewhere(t, l)
  BY ElsewhereKeeps
<1> USE DEF Elsewhere, Step, Goto, Leave, Raise, Rest, Control, Shape, controlVars, routeVars,
            ghostVars, rowVars, Labels, StartLabels, WorkerLabels, RepairLabels,
            PlanLabels, Threads
<1>1. CASE CheckPlan(t) BY <1>1 DEF CheckPlan
<1>2. CASE PlanFails(t) BY <1>2 DEF PlanFails
<1>3. CASE CommitPlan(t) BY <1>3 DEF CommitPlan
<1> QED BY <1>1, <1>2, <1>3

LEMMA RepairKeeps ==
  ASSUME Control, RouteFixed, NEW t \in Threads,
         CheckRepair(t) \/ RecordRepair(t) \/ ReserveRepair(t) \/ MaybeRepair(t)
  PROVE  Control' /\ RouteFixed'
<1> SUFFICES \E l \in Labels : Elsewhere(t, l)
  BY ElsewhereKeeps
<1> USE DEF Elsewhere, Step, Goto, Leave, Raise, Rest, Control, Shape, controlVars, routeVars,
            ghostVars, rowVars, Labels, StartLabels, WorkerLabels, RepairLabels,
            PlanLabels, Threads
<1>1. CASE CheckRepair(t) BY <1>1 DEF CheckRepair
<1>2. CASE RecordRepair(t) BY <1>2 DEF RecordRepair
<1>3. CASE ReserveRepair(t) BY <1>3 DEF ReserveRepair
<1>4. CASE MaybeRepair(t) BY <1>4 DEF MaybeRepair
<1> QED BY <1>1, <1>2, <1>3, <1>4

LEMMA AdmitRepairKeeps ==
  ASSUME Control, RouteFixed, NEW t \in Threads, AdmitRepair(t)
  PROVE  Control' /\ RouteFixed'
<1> \E l \in Labels : Elsewhere(t, l)
  BY DEF AdmitRepair, Elsewhere, Step, Goto, Leave, Raise, Rest, Control, Shape, controlVars,
         routeVars, ghostVars, rowVars, Labels, StartLabels, WorkerLabels,
         RepairLabels, PlanLabels, Threads
<1> QED BY ElsewhereKeeps

-----------------------------------------------------------------------------
(* Steps of start_run().                                                   *)

LEMMA BeginStartKeeps ==
  ASSUME Control, RouteFixed, NEW t \in Threads, BeginStart(t)
  PROVE  Control' /\ RouteFixed'
<1> USE DEF BeginStart, Step, Goto, Control, Shape, controlVars, routeVars, rowVars,
            ghostVars, Labels, StartLabels, WorkerLabels, RepairLabels, PlanLabels
<1>1. CASE running \/ starting
  <2>1. \E l \in Labels : Elsewhere(t, l)
    BY <1>1 DEF Elsewhere, Leave, Raise, Rest, Threads
  <2> QED BY <2>1, ElsewhereKeeps
<1>2. CASE ~(running \/ starting)
  <2>1. Shape' BY <1>2
  <2>2. OneStarter' BY <1>2 DEF OneStarter
  <2>3. NoRunYet' BY <1>2 DEF NoRunYet, Preparing
  <2>4. LaunchedOwner' BY <1>2 DEF LaunchedOwner, Spawning, Threads
  <2>5. WorkerOwner' BY <1>2 DEF WorkerOwner, Threads
  <2>6. Unborn' BY <1>2 DEF Unborn, Threads
  <2>7. RouteFixed' BY <1>2 DEF RouteFixed, RouteLocked, Owners, Threads
  <2> QED BY <2>1, <2>2, <2>3, <2>4, <2>5, <2>6, <2>7
<1> QED BY <1>1, <1>2

\* The starter gives up, or is done: it leaves start_run() and frees the start.
LeavesStart(t) ==
  /\ pc[t] \in StartLabels \ Spawning
  /\ pc' = [pc EXCEPT ![t] = Rest(t)]
  /\ DOMAIN arg' = Threads
  /\ starting' = FALSE
  /\ inspected' \in {inspected, route}
  /\ UNCHANGED <<running, runtime, route, row, origin>>

LEMMA LeavesStartKeeps ==
  ASSUME Control, RouteFixed, NEW t \in Threads, LeavesStart(t)
  PROVE  Control' /\ RouteFixed'
<1> USE DEF LeavesStart, Rest, Control, Labels, StartLabels, Spawning, WorkerLabels
<1>1. Shape' BY DEF Shape, Threads
<1>2. OneStarter' BY DEF Shape, OneStarter
<1>3. NoRunYet' BY DEF Shape, NoRunYet, Preparing
<1>4. LaunchedOwner' BY DEF Shape, LaunchedOwner, OneStarter, Threads
<1>5. WorkerOwner' BY DEF Shape, WorkerOwner, Threads
<1>6. Unborn' BY DEF Shape, Unborn, Threads
<1>7. RouteFixed'
  BY DEF Shape, RouteFixed, RouteLocked, Owners, OneStarter, Threads
<1> QED BY <1>1, <1>2, <1>3, <1>4, <1>5, <1>6, <1>7

LEMMA AdmitStartKeeps ==
  ASSUME Control, RouteFixed, NEW t \in Threads, AdmitStart(t)
  PROVE  Control' /\ RouteFixed'
<1> USE DEF AdmitStart, AbortStart, Raise, Leave, Step, Goto, Control, Shape, routeVars,
            rowVars, ghostVars, Labels, StartLabels, WorkerLabels, RepairLabels, PlanLabels
<1>1. CASE pc' = [pc EXCEPT ![t] = "s_inspect"] /\ UNCHANGED <<starting, arg>>
  <2>1. Shape' BY <1>1
  <2>2. OneStarter' BY <1>1 DEF OneStarter
  <2>3. NoRunYet' BY <1>1 DEF NoRunYet, Preparing
  <2>4. LaunchedOwner' BY <1>1 DEF LaunchedOwner, Spawning, Threads
  <2>5. WorkerOwner' BY <1>1 DEF WorkerOwner, Threads
  <2>6. Unborn' BY <1>1 DEF Unborn, Threads
  <2>7. RouteFixed' BY <1>1 DEF RouteFixed, RouteLocked, Owners, Threads
  <2> QED BY <2>1, <2>2, <2>3, <2>4, <2>5, <2>6, <2>7
<1>2. CASE pc' # [pc EXCEPT ![t] = "s_inspect"] \/ ~ UNCHANGED <<starting, arg>>
  <2>1. LeavesStart(t) BY <1>2 DEF LeavesStart, Spawning
  <2> QED BY <2>1, LeavesStartKeeps
<1> QED BY <1>1, <1>2

LEMMA InspectStartKeeps ==
  ASSUME Control, RouteFixed, NEW t \in Threads, InspectStart(t)
  PROVE  Control' /\ RouteFixed'
<1> USE DEF InspectStart, AbortStart, Raise, Leave, Step, Goto, Control, Shape,
            rowVars, ghostVars, Labels, StartLabels, WorkerLabels, RepairLabels, PlanLabels
<1>1. CASE pc' = [pc EXCEPT ![t] = "s_launch"] /\ UNCHANGED <<starting, arg>>
  <2>1. Shape' BY <1>1
  <2>2. OneStarter' BY <1>1 DEF OneStarter
  <2>3. NoRunYet' BY <1>1 DEF NoRunYet, Preparing
  <2>4. LaunchedOwner' BY <1>1 DEF LaunchedOwner, Spawning, Threads
  <2>5. WorkerOwner' BY <1>1 DEF WorkerOwner, Threads
  <2>6. Unborn' BY <1>1 DEF Unborn, Threads
  <2>7. RouteFixed' BY <1>1 DEF RouteFixed, RouteLocked, Owners, Threads
  <2> QED BY <2>1, <2>2, <2>3, <2>4, <2>5, <2>6, <2>7
<1>2. CASE pc' # [pc EXCEPT ![t] = "s_launch"] \/ ~ UNCHANGED <<starting, arg>>
  <2>1. LeavesStart(t) BY <1>2 DEF LeavesStart, Spawning
  <2> QED BY <2>1, LeavesStartKeeps
<1> QED BY <1>1, <1>2

LEMMA LaunchStartKeeps ==
  ASSUME Control, RouteFixed, NEW t \in Threads, LaunchStart(t)
  PROVE  Control' /\ RouteFixed'
<1>1. PICK g \in Runs :
        /\ g \notin Launched
        /\ row' = [row EXCEPT ![g] = "running"]
        /\ runtime' = g
        /\ arg' = [arg EXCEPT ![t] = g]
        /\ origin' = [origin EXCEPT ![g] =
                         [ticket |-> ticket, route |-> route,
                          by |-> IF Automatic(t) THEN t ELSE 0, repair |-> Repairing(t)]]
  BY DEF LaunchStart, IsNext
<1> USE DEF Goto, Control, Shape
<1>2. /\ pc[t] = "s_launch" /\ pc' = [pc EXCEPT ![t] = "s_mark"]
      /\ running' = TRUE /\ UNCHANGED <<starting, route, inspected>>
  BY DEF LaunchStart, routeVars
<1>3. row[g] = "none" /\ pc[g] = "none" /\ g # t /\ g \in Threads
  BY <1>1, <1>2 DEF Launched, Unborn, Threads
\* No run is current, so no worker works and no other thread is launching.
<1>4. \A h \in Runs : pc[h] \notin WorkerLabels
  BY <1>2 DEF WorkerOwner, NoRunYet, Preparing
<1>5. \A u \in Threads : u # t => pc[u] \notin StartLabels
  BY <1>2 DEF OneStarter, StartLabels
<1>6. Shape'
  BY <1>1, <1>2 DEF Labels, StartLabels
<1>7. OneStarter'
  BY <1>2, <1>5 DEF OneStarter, StartLabels
<1>8. NoRunYet'
  BY <1>2, <1>5 DEF NoRunYet, Preparing, StartLabels
<1>9. LaunchedOwner'
  BY <1>1, <1>2, <1>3, <1>4, <1>5
     DEF LaunchedOwner, Spawning, StartLabels, WorkerLabels, Threads
<1>10. WorkerOwner'
  BY <1>2, <1>4 DEF WorkerOwner, WorkerLabels, Threads
<1>11. Unborn'
  BY <1>1, <1>2, <1>3 DEF Unborn, Threads
<1>12. RouteFixed'
  <2>1. inspected = route
    BY <1>2 DEF RouteFixed
  <2>2. Owners' = {g}
    BY <1>1, <1>2, <1>3, <1>4, <1>5 DEF Owners, WorkerLabels, StartLabels, Threads
  <2>3. origin'[g].route = route
    BY <1>1
  <2> QED BY <1>2, <1>5, <2>1, <2>2, <2>3 DEF RouteFixed, RouteLocked, StartLabels
<1> QED BY <1>6, <1>7, <1>8, <1>9, <1>10, <1>11, <1>12

LEMMA MarkStartKeeps ==
  ASSUME Control, RouteFixed, NEW t \in Threads, MarkStart(t)
  PROVE  Control' /\ RouteFixed'
<1> USE DEF MarkStart, Step, Goto, Control, Shape, controlVars, routeVars,
            rowVars, ghostVars, Labels, StartLabels, WorkerLabels
<1>1. Shape' OBVIOUS
<1>2. OneStarter' BY DEF OneStarter
<1>3. NoRunYet' BY DEF NoRunYet, Preparing
<1>4. LaunchedOwner' BY DEF LaunchedOwner, Spawning, Threads
<1>5. WorkerOwner' BY DEF WorkerOwner, Threads
<1>6. Unborn' BY DEF Unborn, Threads
<1>7. RouteFixed' BY DEF RouteFixed, RouteLocked, Owners, Threads
<1> QED BY <1>1, <1>2, <1>3, <1>4, <1>5, <1>6, <1>7

LEMMA SpawnStartKeeps ==
  ASSUME Control, RouteFixed, NEW t \in Threads, SpawnStart(t)
  PROVE  Control' /\ RouteFixed'
<1> DEFINE g == arg[t]
<1>1. /\ pc[t] = "s_spawn"
      /\ pc' = [pc EXCEPT ![t] = "s_finish", ![g] = "w_begin"]
      /\ UNCHANGED <<arg, running, starting, runtime, route, inspected, row, origin>>
  BY DEF SpawnStart, controlVars, routeVars, rowVars, ghostVars
<1>2. /\ running /\ runtime = g /\ g \in Runs /\ pc[g] = "none" /\ row[g] # "none"
      /\ \A h \in Runs : pc[h] \notin WorkerLabels
  BY <1>1 DEF Control, LaunchedOwner, Spawning
<1>3. \A u \in Threads : u # t => pc[u] \notin StartLabels
  BY <1>1 DEF Control, OneStarter, StartLabels
<1>4. g # t /\ g \in Threads
  BY <1>1, <1>2 DEF Threads
<1> HIDE DEF g
<1> USE DEF Control, Shape
<1>5. Shape'
  BY <1>1, <1>2, <1>4 DEF Labels, WorkerLabels, StartLabels
<1>6. OneStarter'
  BY <1>1, <1>2, <1>3, <1>4 DEF OneStarter, StartLabels
<1>7. NoRunYet'
  BY <1>1, <1>3, <1>4 DEF NoRunYet, Preparing, StartLabels
<1>8. LaunchedOwner'
  BY <1>1, <1>3, <1>4 DEF LaunchedOwner, Spawning, StartLabels
<1>9. WorkerOwner'
  BY <1>1, <1>2, <1>4 DEF WorkerOwner, WorkerLabels, Threads
<1>10. Unborn'
  BY <1>1, <1>2, <1>4 DEF Unborn, Threads
<1>11. RouteFixed'
  <2>1. g \in Owners
    BY <1>1 DEF Owners, g
  <2>2. Owners' = {g}
    BY <1>1, <1>2, <1>3, <1>4 DEF Owners, WorkerLabels, StartLabels, Threads
  <2> QED BY <1>1, <1>3, <1>4, <2>1, <2>2 DEF RouteFixed, RouteLocked, StartLabels
<1> QED BY <1>5, <1>6, <1>7, <1>8, <1>9, <1>10, <1>11

LEMMA FinishStartKeeps ==
  ASSUME Control, RouteFixed, NEW t \in Threads, FinishStart(t)
  PROVE  Control' /\ RouteFixed'
<1>1. LeavesStart(t)
  BY DEF FinishStart, LeavesStart, Leave, Goto, StartLabels, Spawning, Control, Shape,
         routeVars, rowVars, ghostVars
<1> QED BY <1>1, LeavesStartKeeps

-----------------------------------------------------------------------------
(* Steps of the worker.                                                    *)

\* The worker goes on with its run.
Works(g, l) ==
  /\ pc[g] \in WorkerLabels /\ l \in WorkerLabels
  /\ pc' = [pc EXCEPT ![g] = l]
  /\ DOMAIN arg' = Threads /\ \A t \in Threads : t # g => arg'[t] = arg[t]
  /\ UNCHANGED <<controlVars, routeVars, row, origin>>

LEMMA WorksKeeps ==
  ASSUME Control, RouteFixed, NEW g \in Runs, NEW l, Works(g, l)
  PROVE  Control' /\ RouteFixed'
<1> USE DEF Control, Works, controlVars, routeVars, WorkerLabels
<1>1. Shape' BY DEF Shape, Labels, Threads
<1>2. OneStarter' BY DEF Shape, OneStarter, StartLabels, Threads
<1>3. NoRunYet' BY DEF Shape, NoRunYet, Preparing, Threads
<1>4. LaunchedOwner' BY DEF Shape, LaunchedOwner, Spawning, Threads
<1>5. WorkerOwner' BY DEF Shape, WorkerOwner, Threads
<1>6. Unborn' BY DEF Shape, Unborn, Threads
<1>7. RouteFixed' BY DEF Shape, RouteFixed, RouteLocked, Owners, Threads
<1> QED BY <1>1, <1>2, <1>3, <1>4, <1>5, <1>6, <1>7

LEMMA WorkKeeps ==
  ASSUME Control, RouteFixed, NEW g \in Runs,
         WorkerBegin(g) \/ ProviderBegin(g) \/ ProviderEnd(g) \/ ProviderRaises(g)
           \/ VerifyBreaks(g) \/ VerifyEnds(g) \/ WorkerCommit(g)
           \/ TerminalRecord(g) \/ FailureRecord(g)
  PROVE  Control' /\ RouteFixed'
<1> SUFFICES \E l \in WorkerLabels : Works(g, l)
  BY WorksKeeps
<1> USE DEF Works, Step, Goto, Control, Shape, controlVars, routeVars, rowVars, ghostVars,
            WorkerLabels
<1>1. CASE WorkerBegin(g) BY <1>1 DEF WorkerBegin
<1>2. CASE ProviderBegin(g) BY <1>2 DEF ProviderBegin
<1>3. CASE ProviderEnd(g) BY <1>3 DEF ProviderEnd
<1>4. CASE ProviderRaises(g) BY <1>4 DEF ProviderRaises
<1>5. CASE VerifyBreaks(g) BY <1>5 DEF VerifyBreaks
<1>6. CASE VerifyEnds(g) BY <1>6 DEF VerifyEnds
<1>7. CASE WorkerCommit(g) BY <1>7 DEF WorkerCommit
<1>8. CASE TerminalRecord(g) BY <1>8 DEF TerminalRecord
<1>9. CASE FailureRecord(g) BY <1>9 DEF FailureRecord
<1> QED BY <1>1, <1>2, <1>3, <1>4, <1>5, <1>6, <1>7, <1>8, <1>9

LEMMA CloseKeeps ==
  ASSUME Control, RouteFixed, NEW g \in Runs,
         WorkerRelease(g) \/ TerminalClose(g) \/ FailureClose(g)
  PROVE  Control' /\ RouteFixed'
<1>1. \E l \in {"w_maybe", "done"}, state \in RowStates \ {"none"} :
        /\ pc[g] \in WorkerLabels
        /\ pc' = [pc EXCEPT ![g] = l]
        /\ row' = [row EXCEPT ![g] = state]
        /\ DOMAIN arg' = Threads /\ \A t \in Threads : t # g => arg'[t] = arg[t]
        /\ running' = FALSE
        /\ UNCHANGED <<starting, route, inspected, origin>>
  BY DEF WorkerRelease, TerminalClose, FailureClose, Close, Step, Leave, Rest, Goto,
         WorkerLabels, RowStates, Control, Shape, routeVars, ghostVars
\* Nobody else works or has launched.
<1>2. \A t \in Threads : pc[t] \notin Spawning
  BY <1>1 DEF Control, LaunchedOwner
<1>3. \A h \in Runs : h # g => pc[h] \notin WorkerLabels
  BY <1>1 DEF Control, WorkerOwner
<1> USE <1>1, <1>2, <1>3 DEF Control
<1>4. Shape' BY DEF Shape, Threads, Labels, RepairLabels
<1>5. OneStarter' BY DEF Shape, OneStarter, StartLabels, Threads
<1>6. NoRunYet' BY DEF NoRunYet
<1>7. LaunchedOwner' BY DEF Shape, LaunchedOwner, Spawning, Threads
<1>8. WorkerOwner' BY DEF Shape, WorkerOwner, WorkerLabels, Threads
<1>9. Unborn' BY DEF Shape, Unborn, RowStates, WorkerLabels, Threads
<1>10. RouteFixed'
  <2>1. Owners' = {}
    BY DEF Shape, Owners, Spawning, WorkerLabels, Threads
  <2> QED BY <2>1 DEF Shape, RouteFixed, RouteLocked, Threads
<1> QED BY <1>4, <1>5, <1>6, <1>7, <1>8, <1>9, <1>10

-----------------------------------------------------------------------------
(* Steps outside the threads' programs.                                    *)

LEMMA SetRouteKeeps ==
  ASSUME Control, RouteFixed, NEW t \in Requests, SetRoute(t)
  PROVE  Control' /\ RouteFixed'
<1>1. /\ ~running /\ ~starting
      /\ UNCHANGED <<pc, arg, running, starting, runtime, row, origin>>
  BY DEF SetRoute, controlVars, rowVars, ghostVars
<1>2. Control'
  BY <1>1 DEF Control, Shape, OneStarter, NoRunYet, LaunchedOwner, WorkerOwner, Unborn
<1>3. Owners' = {} /\ \A u \in Threads : pc'[u] # "s_launch"
  BY <1>1 DEF Owners, Control, OneStarter, LaunchedOwner, WorkerOwner, Spawning, StartLabels
<1> QED BY <1>2, <1>3 DEF RouteFixed, RouteLocked

LEMMA RestartKeeps ==
  ASSUME Control, RouteFixed, Restart
  PROVE  Control' /\ RouteFixed'
<1>1. /\ pc' = [t \in Threads |-> IF t \notin Runs THEN "idle"
                                  ELSE IF row[t] = "none" THEN "none" ELSE "done"]
      /\ arg' = [t \in Threads |-> 0]
      /\ UNCHANGED <<row, origin>>
  BY DEF Restart, rowVars, ghostVars
<1>2. \A t \in Threads : pc'[t] \in {"idle", "none", "done"}
  BY <1>1
<1>3. Shape' /\ Unborn'
  BY <1>1 DEF Control, Shape, Unborn, Threads, Labels
<1>4. Control'
  BY <1>2, <1>3 DEF Control, OneStarter, NoRunYet, LaunchedOwner, WorkerOwner, Threads,
                    StartLabels, WorkerLabels, Preparing, Spawning
<1>5. Owners' = {}
  BY <1>2 DEF Owners, Threads, WorkerLabels
<1> QED BY <1>2, <1>4, <1>5 DEF RouteFixed, RouteLocked

LEMMA OthersKeep ==
  ASSUME Control, RouteFixed,
         UNCHANGED <<pc, arg, controlVars, routeVars, row, origin>>
  PROVE  Control' /\ RouteFixed'
  BY DEF Control, Shape, OneStarter, NoRunYet, LaunchedOwner, WorkerOwner, Unborn,
         RouteFixed, RouteLocked, Owners, controlVars, routeVars

LEMMA ServeKeeps ==
  ASSUME Control, RouteFixed, NEW t \in Threads, Serve(t)
  PROVE  Control' /\ RouteFixed'
  BY PlanKeeps, RepairKeeps, AdmitRepairKeeps, BeginStartKeeps, AdmitStartKeeps,
     InspectStartKeeps, LaunchStartKeeps, MarkStartKeeps, SpawnStartKeeps,
     FinishStartKeeps
  DEF Serve

LEMMA ControlStep == Control /\ RouteFixed /\ [Next]_vars => Control' /\ RouteFixed'
<1> SUFFICES ASSUME Control, RouteFixed, [Next]_vars
             PROVE  Control' /\ RouteFixed'
  OBVIOUS
<1>1. ASSUME NEW t \in Requests, Request(t)
      PROVE  Control' /\ RouteFixed'
  <2>1. CASE NewTicket(t) \/ ResumeTicket(t)
    BY <2>1, OthersKeep DEF NewTicket, ResumeTicket, rowVars, ghostVars
  <2> QED BY <1>1, <2>1, RequestKeeps, SetRouteKeeps DEF Request
<1>2. ASSUME NEW g \in Runs, Work(g)
      PROVE  Control' /\ RouteFixed'
  <2>1. g \in Threads BY DEF Threads
  <2> QED BY <1>2, <2>1, WorkKeeps, CloseKeeps, RepairKeeps DEF Work
<1>3. ASSUME NEW t \in Threads, Serve(t) \/ Signal(t)
      PROVE  Control' /\ RouteFixed'
  BY <1>3, ServeKeeps, SignalKeeps DEF Signal
<1>4. CASE DeadlineFires
  BY <1>4, SignalKeeps DEF Threads
<1>5. CASE TimePasses
  BY <1>5, OthersKeep DEF TimePasses, threadVars, rowVars, ghostVars
<1>6. CASE Restart
  BY <1>6, RestartKeeps
<1>7. CASE Idle \/ UNCHANGED vars
  BY <1>7, OthersKeep DEF Idle, vars, threadVars, rowVars, ghostVars
<1>8. Requests \subseteq Threads /\ Runs \subseteq Threads /\ Clock \in Threads
  BY DEF Threads
<1> QED BY <1>1, <1>2, <1>3, <1>4, <1>5, <1>6, <1>7, <1>8 DEF Next

-----------------------------------------------------------------------------
(* The theorems.                                                           *)

LEMMA ControlInvariant == Spec => [](Control /\ RouteFixed)
  BY ControlInit, ControlStep, PTL DEF Spec

LEMMA ControlSingle == Control => SingleRun
<1> SUFFICES ASSUME Control PROVE SingleRun
  OBVIOUS
<1>1. Owners \subseteq {runtime}
  BY DEF Owners, Control, LaunchedOwner, WorkerOwner, Spawning
<1>2. Cardinality({runtime}) = 1 /\ IsFiniteSet({runtime})
  BY FS_Singleton
<1>3. Cardinality(Owners) <= 1
  BY <1>1, <1>2, FS_Subset
<1> QED BY <1>1, <1>3 DEF SingleRun

\* However many requests, repairs and restarts interleave, at most one run has
\* the worktree, and it is the one cancel_run() would stop.
THEOREM SingleRunHolds == Spec => []SingleRun
  BY ControlInvariant, ControlSingle, PTL

\* set_model_route() never changes the route under a run: the locked test of
\* "running" and "_starting_run" is enough for it.
THEOREM RouteLockedHolds == Spec => []RouteLocked
<1>1. Control /\ RouteFixed => RouteLocked
  BY DEF RouteFixed
<1> QED BY <1>1, ControlInvariant, PTL

-----------------------------------------------------------------------------
(* Type correctness.                                                       *)

LEMMA FreshType == \A k \in Tickets \cup {0} : Fresh(k) \in RecoveryRecord
  BY DEF Fresh, RecoveryRecord, Statuses, StopReasons, NoCycle

LEMMA StopType ==
  \A r \in RecoveryRecord, reason \in StopReasons : Stop(r, reason) \in RecoveryRecord
  BY DEF Stop, RecoveryRecord, Statuses

LEMMA BeginType == \A r \in RecoveryRecord : Begin(r) \in RecoveryRecord
<1> SUFFICES ASSUME NEW r \in RecoveryRecord PROVE Begin(r) \in RecoveryRecord
  OBVIOUS
<1>1. /\ r.attempts + 1 \in Nat
      /\ DOMAIN r = {"task", "status", "stop", "attempts", "cycle", "started", "late",
                     "accounted"}
  BY DEF RecoveryRecord
<1> QED BY <1>1 DEF Begin, RecoveryRecord, Statuses, StopReasons

LEMMA RecordFailureType == \A r \in RecoveryRecord : RecordFailure(r) \in RecoveryRecord
  BY DEF RecordFailure, RecoveryRecord

LEMMA AccountType ==
  \A r \in RecoveryRecord, id \in RunIds : Account(r, id) \in RecoveryRecord
  BY DEF Account, RecoveryRecord

LEMMA StatusType ==
  \A r \in RecoveryRecord, s \in Statuses : [r EXCEPT !.status = s] \in RecoveryRecord
  BY DEF RecoveryRecord

LEMMA TaskType ==
  \A r \in RecoveryRecord, k \in Tickets \cup {0} : [r EXCEPT !.task = k] \in RecoveryRecord
  BY DEF RecoveryRecord

LEMMA RestoredType == \A r \in RecoveryRecord : Restored(r) \in RecoveryRecord
<1>1. \A r \in RecoveryRecord : Loaded(r) \in RecoveryRecord
  BY FreshType, StopType DEF Loaded, StopReasons
<1> QED BY <1>1, StopType DEF Restored, StopReasons

LEMMA SavedType == \A d \in Disk, r \in RecoveryRecord : Saved(d, r) \in Disk
  BY DEF Saved, Disk

-----------------------------------------------------------------------------
(* What a thread carries between its steps.                                *)

Carries ==
  /\ \A t \in Threads :
       pc[t] \in {"c_stop", "c_signal", "s_mark", "s_spawn"} => arg[t] \in Runs
  /\ \A t \in Threads :
       pc[t] \in {"p_check", "p_commit"} => arg[t] \in Tickets \cup {0}

TypeInv == TypeOK /\ Carries

USE DEF TypeInv, TypeOK, threadVars, controlVars, signalVars, routeVars, planVars,
        outcomeVars, rowVars, ghostVars, Goto, Step, Leave, Rest

LEMMA LabelFacts ==
  /\ {"idle", "none", "done", "c_stop", "c_signal", "s_begin", "p_check", "p_commit",
      "w_maybe", "r_check", "r_record", "r_reserve", "r_admit", "s_admit", "s_inspect",
      "s_launch", "s_mark", "s_spawn", "s_finish"} \subseteq Labels
  /\ {"w_begin", "w_start", "w_provider", "w_verify", "w_commit", "w_release",
      "w_terminal", "w_close", "w_failed", "w_failclose"} \subseteq Labels
  BY DEF Labels, WorkerLabels, RepairLabels, PlanLabels, StartLabels

LEMMA JobFacts == AllOps \cup {"none"} = {"plan", "new", "resume", "start", "repair",
                                          "cancel", "route", "none"}
  BY DEF AllOps

LEMMA RequestPlanType ==
  ASSUME TypeInv, NEW t \in Requests, RequestPlan(t)
  PROVE  TypeInv'
<1> USE DEF RequestPlan
<1>1. ThreadsOK' BY LabelFacts, JobFacts, GuidedAssumption DEF ThreadsOK, Threads, TicketOK, Tickets, Issue
<1>2. ControlOK' BY DEF ControlOK, Issue
<1>3. TicketOK' BY DEF TicketOK, Issue
<1>4. RecordsOK' BY DEF RecordsOK, Issue
<1>5. RowsOK' BY DEF RowsOK, Issue
<1>6. Carries' BY DEF Carries, ThreadsOK, Threads, TicketOK, Issue
<1> QED BY <1>1, <1>2, <1>3, <1>4, <1>5, <1>6

LEMMA RequestsType ==
  ASSUME TypeInv, NEW t \in Requests, RequestStart(t) \/ RequestRepair(t) \/ RequestCancel(t)
  PROVE  TypeInv'
<1> USE DEF RequestStart, RequestRepair, RequestCancel
<1>1. ThreadsOK' BY LabelFacts, JobFacts, GuidedAssumption DEF ThreadsOK, Threads, ControlOK, Runs, Issue
<1>2. ControlOK' BY DEF ControlOK, Issue
<1>3. TicketOK' BY DEF TicketOK, Issue
<1>4. RecordsOK' BY DEF RecordsOK, Issue
<1>5. RowsOK' BY DEF RowsOK, Issue
<1>6. Carries' BY DEF Carries, ThreadsOK, Threads, ControlOK, Issue
<1> QED BY <1>1, <1>2, <1>3, <1>4, <1>5, <1>6

LEMMA TicketRequestsType ==
  ASSUME TypeInv, NEW t \in Requests, NewTicket(t) \/ ResumeTicket(t) \/ SetRoute(t)
  PROVE  TypeInv'
<1> USE DEF NewTicket, ResumeTicket, SetRoute
<1>1. ThreadsOK' BY LabelFacts, JobFacts DEF ThreadsOK, Threads
<1>2. ControlOK' BY DEF ControlOK, Verdicts, Routes
<1>3. TicketOK' BY DEF TicketOK, Verdicts, Routes
<1>4. RecordsOK' 
  <2>1. Fresh(0) \in RecoveryRecord BY FreshType
  <2> QED BY <2>1 DEF RecordsOK, Disk
<1>5. RowsOK' BY DEF RowsOK
<1>6. Carries' BY DEF Carries, ThreadsOK, Threads
<1> QED BY <1>1, <1>2, <1>3, <1>4, <1>5, <1>6

LEMMA SignalType ==
  ASSUME TypeInv, NEW t \in Threads, CancelStop(t) \/ CancelSignal(t)
  PROVE  TypeInv'
<1> USE DEF CancelStop, CancelSignal
<1>1. ThreadsOK' BY LabelFacts, JobFacts DEF ThreadsOK, Threads
<1>2. ControlOK' BY DEF ControlOK, Carries
<1>3. TicketOK' BY DEF TicketOK, Carries
<1>4. RecordsOK' BY StopType, SavedType DEF RecordsOK, StopWith, Keep, StopReasons
<1>5. RowsOK' BY DEF RowsOK, Carries, ThreadsOK, Threads
<1>6. Carries' BY DEF Carries, ThreadsOK, Threads
<1> QED BY <1>1, <1>2, <1>3, <1>4, <1>5, <1>6

LEMMA ClockType ==
  ASSUME TypeInv, DeadlineFires \/ TimePasses
  PROVE  TypeInv'
<1> USE DEF DeadlineFires, TimePasses
<1>1. ThreadsOK' BY LabelFacts, JobFacts, GuidedAssumption DEF ThreadsOK, Threads, ControlOK, Runs
<1>2. ControlOK' BY DEF ControlOK
<1>3. TicketOK' BY DEF TicketOK
<1>4. RecordsOK' BY DEF RecordsOK, RecoveryRecord
<1>5. RowsOK' BY DEF RowsOK
<1>6. Carries' BY DEF Carries, ThreadsOK, Threads, ControlOK, Runs
<1> QED BY <1>1, <1>2, <1>3, <1>4, <1>5, <1>6

LEMMA CheckPlanType ==
  ASSUME TypeInv, NEW t \in Threads, CheckPlan(t)
  PROVE  TypeInv'
<1> USE DEF CheckPlan
<1>1. ThreadsOK' BY LabelFacts, JobFacts DEF ThreadsOK, Threads, Raise
<1>2. ControlOK' BY DEF ControlOK
<1>3. TicketOK' BY DEF TicketOK
<1>4. RecordsOK' BY StopType, FreshType, SavedType DEF RecordsOK, Raise, StopWith, Keep, StopReasons
<1>5. RowsOK' BY DEF RowsOK
<1>6. Carries' BY DEF Carries, ThreadsOK, Threads, Raise
<1> QED BY <1>1, <1>2, <1>3, <1>4, <1>5, <1>6

LEMMA PlanFailsType ==
  ASSUME TypeInv, NEW t \in Threads, PlanFails(t)
  PROVE  TypeInv'
<1> USE DEF PlanFails
<1>1. ThreadsOK' BY LabelFacts, JobFacts DEF ThreadsOK, Threads, Raise
<1>2. ControlOK' BY DEF ControlOK, PlanTicket, NoPlan, Verdicts, Tickets
<1>3. TicketOK' BY DEF TicketOK, PlanTicket, NoPlan, Verdicts, Tickets
<1>4. RecordsOK' BY StopType, SavedType DEF RecordsOK, Raise, StopWith, Keep, StopReasons
<1>5. RowsOK' BY DEF RowsOK
<1>6. Carries' BY DEF Carries, ThreadsOK, Threads, Raise
<1> QED BY <1>1, <1>2, <1>3, <1>4, <1>5, <1>6

LEMMA CommitPlanType ==
  ASSUME TypeInv, NEW t \in Threads, CommitPlan(t)
  PROVE  TypeInv'
<1> USE DEF CommitPlan
<1>1. ThreadsOK' BY LabelFacts, JobFacts DEF ThreadsOK, Threads
<1>2. ControlOK' BY DEF ControlOK, PlanTicket, NoPlan, Verdicts, Tickets
<1>3. TicketOK'
  <2>1. /\ ticket' \in Tickets /\ plan' = ticket' /\ made' \in Nat
        /\ cont' = FALSE /\ run' = 0 /\ verification' = "none" /\ UNCHANGED result
    <3>1. PICK k \in Tickets : PlanTicket(t, k) /\ ticket' = k /\ plan' = k
      OBVIOUS
    <3> QED BY <3>1 DEF TicketOK, PlanTicket, Tickets
  <2> QED BY <2>1 DEF TicketOK, Verdicts
<1>4. RecordsOK'
  <2>1. PICK k \in Tickets : /\ rec' = [rec EXCEPT !.task = k]
                            /\ disk' = [Saved(disk, rec') EXCEPT !.ticket = k, !.saved = @ \cup {k}]
    OBVIOUS
  <2>2. rec' \in RecoveryRecord BY <2>1, TaskType DEF RecordsOK
  <2>3. Saved(disk, rec') \in Disk BY <2>2, SavedType DEF RecordsOK
  <2> QED BY <2>1, <2>2, <2>3 DEF RecordsOK, Disk
<1>5. RowsOK' BY DEF RowsOK
<1>6. Carries' BY DEF Carries, ThreadsOK, Threads
<1> QED BY <1>1, <1>2, <1>3, <1>4, <1>5, <1>6

LEMMA CheckRepairType ==
  ASSUME TypeInv, NEW t \in Threads, CheckRepair(t)
  PROVE  TypeInv'
<1> USE DEF CheckRepair
<1>1. ThreadsOK' BY LabelFacts, JobFacts DEF ThreadsOK, Threads
<1>2. ControlOK' BY DEF ControlOK
<1>3. TicketOK' BY DEF TicketOK
<1>4. RecordsOK' BY StopType, StatusType, SavedType DEF RecordsOK, StopWith, Keep, StopReasons, Statuses
<1>5. RowsOK' BY DEF RowsOK
<1>6. Carries' BY DEF Carries, ThreadsOK, Threads
<1> QED BY <1>1, <1>2, <1>3, <1>4, <1>5, <1>6

LEMMA RecordRepairType ==
  ASSUME TypeInv, NEW t \in Threads, RecordRepair(t)
  PROVE  TypeInv'
<1> USE DEF RecordRepair
<1>1. ThreadsOK' BY LabelFacts, JobFacts DEF ThreadsOK, Threads
<1>2. ControlOK' BY DEF ControlOK
<1>3. TicketOK' BY DEF TicketOK
<1>4. RecordsOK' 
  <2> DEFINE acc == IF run = 0 THEN rec ELSE Account(rec, <<"codex", run>>)
             mine == [acc EXCEPT !.task = ticket]
  <2>1. acc \in RecoveryRecord BY AccountType DEF RecordsOK, TicketOK, RunIds
  <2>2. mine \in RecoveryRecord BY <2>1, TaskType DEF TicketOK
  <2>3. RecordFailure(mine) \in RecoveryRecord BY <2>2, RecordFailureType
  <2> HIDE DEF mine, acc
  <2>4. \/ StopWith(acc, "limit") \/ StopWith(acc, "blocked")
        \/ Keep(RecordFailure(mine)) \/ StopWith(RecordFailure(mine), "blocked")
        \/ rec' = mine /\ disk' \in {disk, Saved(disk, acc)}
    BY DEF mine, acc
  <2>5. \/ \E r \in RecoveryRecord : Keep(r)
        \/ rec' = mine /\ disk' \in {disk, Saved(disk, acc)}
    BY <2>1, <2>3, <2>4, StopType DEF StopWith, StopReasons
  <2> QED BY <2>1, <2>2, <2>5, SavedType DEF RecordsOK, Keep
<1>5. RowsOK' BY DEF RowsOK
<1>6. Carries' BY DEF Carries, ThreadsOK, Threads
<1> QED BY <1>1, <1>2, <1>3, <1>4, <1>5, <1>6

LEMMA ReserveRepairType ==
  ASSUME TypeInv, NEW t \in Threads, ReserveRepair(t)
  PROVE  TypeInv'
<1> USE DEF ReserveRepair
<1>1. ThreadsOK' BY LabelFacts, JobFacts, GuidedAssumption DEF ThreadsOK, Threads, TicketOK, Tickets
<1>2. ControlOK' BY DEF ControlOK
<1>3. TicketOK' BY DEF TicketOK
<1>4. RecordsOK' BY BeginType, SavedType DEF RecordsOK, Keep
<1>5. RowsOK' BY DEF RowsOK
<1>6. Carries' BY DEF Carries, ThreadsOK, Threads, TicketOK
<1> QED BY <1>1, <1>2, <1>3, <1>4, <1>5, <1>6

LEMMA AdmitRepairType ==
  ASSUME TypeInv, NEW t \in Threads, AdmitRepair(t)
  PROVE  TypeInv'
<1> USE DEF AdmitRepair
<1>1. ThreadsOK' BY LabelFacts, JobFacts DEF ThreadsOK, Threads, Raise
<1>2. ControlOK' BY DEF ControlOK
<1>3. TicketOK' BY DEF TicketOK
<1>4. RecordsOK' BY StopType, SavedType DEF RecordsOK, Raise, StopWith, Keep, StopReasons
<1>5. RowsOK' BY DEF RowsOK
<1>6. Carries' BY DEF Carries, ThreadsOK, Threads, Raise
<1> QED BY <1>1, <1>2, <1>3, <1>4, <1>5, <1>6

LEMMA StartBeginsType ==
  ASSUME TypeInv, NEW t \in Threads, BeginStart(t) \/ AdmitStart(t)
  PROVE  TypeInv'
<1> USE DEF BeginStart, AdmitStart
<1>1. ThreadsOK' BY LabelFacts, JobFacts DEF ThreadsOK, Threads, Raise, AbortStart
<1>2. ControlOK' BY DEF ControlOK, Raise, AbortStart
<1>3. TicketOK' BY DEF TicketOK, Raise, AbortStart
<1>4. RecordsOK' BY StopType, SavedType DEF RecordsOK, Raise, StopWith, Keep, StopReasons, AbortStart
<1>5. RowsOK' BY DEF RowsOK, Raise, AbortStart
<1>6. Carries' BY DEF Carries, ThreadsOK, Threads, Raise, AbortStart
<1> QED BY <1>1, <1>2, <1>3, <1>4, <1>5, <1>6

LEMMA InspectStartType ==
  ASSUME TypeInv, NEW t \in Threads, InspectStart(t)
  PROVE  TypeInv'
<1> USE DEF InspectStart
<1>1. ThreadsOK' BY LabelFacts, JobFacts DEF ThreadsOK, Threads, Raise, AbortStart
<1>2. ControlOK' BY DEF ControlOK, Raise, AbortStart
<1>3. TicketOK' BY DEF TicketOK, Raise, AbortStart
<1>4. RecordsOK' BY StopType, SavedType DEF RecordsOK, Raise, StopWith, Keep, StopReasons, AbortStart
<1>5. RowsOK' BY DEF RowsOK, Raise, AbortStart
<1>6. Carries' BY DEF Carries, ThreadsOK, Threads, Raise, AbortStart
<1> QED BY <1>1, <1>2, <1>3, <1>4, <1>5, <1>6

LEMMA LaunchStartType ==
  ASSUME TypeInv, NEW t \in Threads, LaunchStart(t)
  PROVE  TypeInv'
<1> USE DEF LaunchStart
<1>1. ThreadsOK' BY LabelFacts, JobFacts, GuidedAssumption DEF ThreadsOK, Threads, Runs
<1>2. ControlOK' BY DEF ControlOK, Runs
<1>3. TicketOK' BY DEF TicketOK, Runs
<1>4. RecordsOK' BY DEF RecordsOK
<1>5. RowsOK' BY DEF RowsOK, Origin, RowStates, Runs, ControlOK, TicketOK, Automatic, Repairing
<1>6. Carries' BY DEF Carries, ThreadsOK, Threads, Runs
<1> QED BY <1>1, <1>2, <1>3, <1>4, <1>5, <1>6

LEMMA MarkStartType ==
  ASSUME TypeInv, NEW t \in Threads, MarkStart(t)
  PROVE  TypeInv'
<1> USE DEF MarkStart
<1>1. ThreadsOK' BY LabelFacts, JobFacts DEF ThreadsOK, Threads
<1>2. ControlOK' BY DEF ControlOK
<1>3. TicketOK' BY DEF TicketOK
<1>4. RecordsOK' 
  <2>1. [rec EXCEPT !.started = TRUE, !.status = "running", !.stop = "none"] \in RecoveryRecord
    BY DEF RecordsOK, RecoveryRecord, Statuses, StopReasons
  <2> QED BY <2>1, SavedType DEF RecordsOK, Keep
<1>5. RowsOK' BY DEF RowsOK
<1>6. Carries' BY DEF Carries, ThreadsOK, Threads
<1> QED BY <1>1, <1>2, <1>3, <1>4, <1>5, <1>6

LEMMA SpawnStartType ==
  ASSUME TypeInv, NEW t \in Threads, SpawnStart(t) \/ FinishStart(t)
  PROVE  TypeInv'
<1> USE DEF SpawnStart, FinishStart
<1>1. ThreadsOK' BY LabelFacts, JobFacts DEF ThreadsOK, Threads, Carries
<1>2. ControlOK' BY DEF ControlOK, Carries
<1>3. TicketOK' BY DEF TicketOK, Carries
<1>4. RecordsOK' BY DEF RecordsOK
<1>5. RowsOK' BY DEF RowsOK
<1>6. Carries' BY DEF Carries, ThreadsOK, Threads
<1> QED BY <1>1, <1>2, <1>3, <1>4, <1>5, <1>6

LEMMA ProviderType ==
  ASSUME TypeInv, NEW g \in Runs, WorkerBegin(g) \/ ProviderBegin(g) \/ ProviderEnd(g) \/ ProviderRaises(g)
  PROVE  TypeInv'
<1> USE DEF WorkerBegin, ProviderBegin, ProviderEnd, ProviderRaises
<1>1. ThreadsOK' BY LabelFacts, JobFacts DEF ThreadsOK, Threads, NoRepair
<1>2. ControlOK' BY DEF ControlOK, Outcomes
<1>3. TicketOK' BY DEF TicketOK, Outcomes
<1>4. RecordsOK' BY DEF RecordsOK
<1>5. RowsOK' BY DEF RowsOK
<1>6. Carries' BY DEF Carries, ThreadsOK, Threads
<1> QED BY <1>1, <1>2, <1>3, <1>4, <1>5, <1>6

LEMMA VerifyType ==
  ASSUME TypeInv, NEW g \in Runs, VerifyBreaks(g) \/ VerifyEnds(g)
  PROVE  TypeInv'
<1> USE DEF VerifyBreaks, VerifyEnds
<1>1. ThreadsOK' BY LabelFacts, JobFacts DEF ThreadsOK, Threads, NoRepair
<1>2. ControlOK' BY DEF ControlOK, Outcomes, Verdicts
<1>3. TicketOK' BY DEF TicketOK, Outcomes, Verdicts
<1>4. RecordsOK' BY DEF RecordsOK
<1>5. RowsOK' BY DEF RowsOK, Evidence, Verdicts
<1>6. Carries' BY DEF Carries, ThreadsOK, Threads
<1> QED BY <1>1, <1>2, <1>3, <1>4, <1>5, <1>6

LEMMA WorkerCommitType ==
  ASSUME TypeInv, NEW g \in Runs, WorkerCommit(g)
  PROVE  TypeInv'
<1> USE DEF WorkerCommit
<1>1. ThreadsOK' BY LabelFacts, JobFacts DEF ThreadsOK, Threads
<1>2. ControlOK' BY DEF ControlOK, Outcomes
<1>3. TicketOK' BY DEF TicketOK, Outcomes
<1>4. RecordsOK' 
  <2>1. Account(rec, <<"codex", g>>) \in RecoveryRecord
    BY AccountType DEF RecordsOK, RunIds
  <2> QED BY <2>1, StatusType, SavedType DEF RecordsOK, Keep, Statuses
<1>5. RowsOK' BY DEF RowsOK
<1>6. Carries' BY DEF Carries, ThreadsOK, Threads
<1> QED BY <1>1, <1>2, <1>3, <1>4, <1>5, <1>6

LEMMA TerminalRecordType ==
  ASSUME TypeInv, NEW g \in Runs, TerminalRecord(g)
  PROVE  TypeInv'
<1> USE DEF TerminalRecord
<1>1. ThreadsOK' BY LabelFacts, JobFacts DEF ThreadsOK, Threads
<1>2. ControlOK' BY DEF ControlOK
<1>3. TicketOK' BY DEF TicketOK
<1>4. RecordsOK' 
  <2>1. Account(rec, <<"codex", g>>) \in RecoveryRecord
    BY AccountType DEF RecordsOK, RunIds
  <2> QED BY <2>1, StopType, StatusType, SavedType
         DEF RecordsOK, Keep, Statuses, StopReasons, ReadyIfRunning
<1>5. RowsOK' BY DEF RowsOK
<1>6. Carries' BY DEF Carries, ThreadsOK, Threads
<1> QED BY <1>1, <1>2, <1>3, <1>4, <1>5, <1>6

LEMMA FailureRecordType ==
  ASSUME TypeInv, NEW g \in Runs, FailureRecord(g)
  PROVE  TypeInv'
<1> USE DEF FailureRecord
<1>1. ThreadsOK' BY LabelFacts, JobFacts DEF ThreadsOK, Threads
<1>2. ControlOK' BY DEF ControlOK
<1>3. TicketOK' BY DEF TicketOK
<1>4. RecordsOK' 
  <2>1. FailureCharge(g) \in RecoveryRecord
    BY AccountType DEF RecordsOK, RunIds, FailureCharge
  <2> QED BY <2>1, StatusType, SavedType DEF RecordsOK, Keep, Statuses, ReadyIfRunning
<1>5. RowsOK' BY DEF RowsOK
<1>6. Carries' BY DEF Carries, ThreadsOK, Threads
<1> QED BY <1>1, <1>2, <1>3, <1>4, <1>5, <1>6

LEMMA CloseType ==
  ASSUME TypeInv, NEW g \in Runs, WorkerRelease(g) \/ TerminalClose(g) \/ FailureClose(g)
  PROVE  TypeInv'
<1> USE DEF WorkerRelease, TerminalClose, FailureClose
<1>1. ThreadsOK' BY LabelFacts, JobFacts DEF ThreadsOK, Threads, Close
<1>2. ControlOK' BY DEF ControlOK, Close
<1>3. TicketOK' BY DEF TicketOK, Close
<1>4. RecordsOK' BY DEF RecordsOK, Close
<1>5. RowsOK' BY DEF RowsOK, Close, RowStates, Evidence, Verdicts
<1>6. Carries' BY DEF Carries, ThreadsOK, Threads, Close
<1> QED BY <1>1, <1>2, <1>3, <1>4, <1>5, <1>6

LEMMA MaybeRepairType ==
  ASSUME TypeInv, NEW g \in Runs, MaybeRepair(g)
  PROVE  TypeInv'
<1> USE DEF MaybeRepair
<1>1. ThreadsOK' BY LabelFacts, JobFacts DEF ThreadsOK, Threads
<1>2. ControlOK' BY DEF ControlOK
<1>3. TicketOK' BY DEF TicketOK
<1>4. RecordsOK' BY StatusType, SavedType DEF RecordsOK, Keep, Statuses
<1>5. RowsOK' BY DEF RowsOK
<1>6. Carries' BY DEF Carries, ThreadsOK, Threads
<1> QED BY <1>1, <1>2, <1>3, <1>4, <1>5, <1>6

LEMMA RestartType ==
  ASSUME TypeInv, Restart
  PROVE  TypeInv'
<1> USE DEF Restart
<1>1. ThreadsOK' BY LabelFacts, JobFacts DEF ThreadsOK, Threads
<1>2. ControlOK' BY DEF ControlOK
<1>3. TicketOK'
  <2>1. ticket' \in Tickets \cup {0} /\ plan' \in Tickets \cup {0} /\ run' \in Runs \cup {0}
    BY DEF RecordsOK, Disk
  <2>2. /\ verification' \in Verdicts
        /\ result' \in [Runs -> Outcomes]
    <3>1. PICK stale \in BOOLEAN :
            /\ stale => run' # 0 /\ evidence[run'] # "none"
            /\ verification' = IF run' = 0 THEN "none" ELSE IF stale THEN "fail"
                                                          ELSE evidence[run']
            /\ result' = IF stale /\ result[run'] = "completed"
                           THEN [result EXCEPT ![run'] = "failed"] ELSE result
      OBVIOUS
    <3>2. run' # 0 => evidence[run'] \in Verdicts
      BY <2>1 DEF RowsOK, Restorable, Evidence
    <3> QED BY <3>1, <3>2, <2>1 DEF TicketOK, Verdicts, Outcomes
  <2> QED BY <2>1, <2>2 DEF TicketOK
<1>4. RecordsOK'
  <2>1. /\ Restored(disk.project) \in RecoveryRecord
        /\ \A k \in Tickets : Restored(disk.tickets[k]) \in RecoveryRecord
        /\ ticket' \in Tickets \cup {0}
    BY RestoredType DEF RecordsOK, Disk
  <2>2. CASE ticket' = 0
    BY <2>1, <2>2 DEF RecordsOK, Disk
  <2>3. CASE ticket' # 0
    BY <2>1, <2>3, SavedType DEF RecordsOK, Keep
  <2> QED BY <2>2, <2>3
<1>5. RowsOK' BY DEF RowsOK
<1>6. Carries' BY DEF Carries, Threads
<1> QED BY <1>1, <1>2, <1>3, <1>4, <1>5, <1>6

LEMMA IdleType ==
  ASSUME TypeInv, UNCHANGED vars
  PROVE  TypeInv'
  BY DEF vars, ThreadsOK, ControlOK, TicketOK, RecordsOK, RowsOK, Carries

-----------------------------------------------------------------------------

LEMMA TypeInit == Init => TypeInv
<1> SUFFICES ASSUME Init PROVE TypeInv
  OBVIOUS
<1> USE DEF Init
<1>1. ThreadsOK BY LabelFacts, JobFacts DEF ThreadsOK, Threads
<1>2. ControlOK BY DEF ControlOK, Routes
<1>3. 1 \in Tickets BY GuidedAssumption DEF Tickets
<1>4. TicketOK BY <1>3 DEF TicketOK, Outcomes, Verdicts
<1>5. RecordsOK
  <2>1. \A k \in Tickets : Fresh(k) \in RecoveryRecord BY FreshType
  <2>2. Fresh(1) \in RecoveryRecord BY <1>3, FreshType
  <2> QED BY <1>3, <2>1, <2>2 DEF RecordsOK, Disk
<1>6. RowsOK BY DEF RowsOK, RowStates, Evidence, Origin, Routes
<1>7. Carries BY DEF Carries, Threads
<1> QED BY <1>1, <1>2, <1>4, <1>5, <1>6, <1>7

LEMMA ServeType ==
  ASSUME TypeInv, NEW t \in Threads, Serve(t)
  PROVE  TypeInv'
<1> USE DEF Serve
<1>1. CASE CheckPlan(t) \/ PlanFails(t) \/ CommitPlan(t)
  BY <1>1, CheckPlanType, PlanFailsType, CommitPlanType
<1>2. CASE CheckRepair(t) \/ RecordRepair(t) \/ ReserveRepair(t) \/ AdmitRepair(t)
  BY <1>2, CheckRepairType, RecordRepairType, ReserveRepairType, AdmitRepairType
<1>3. CASE BeginStart(t) \/ AdmitStart(t) \/ InspectStart(t) \/ LaunchStart(t)
             \/ MarkStart(t) \/ SpawnStart(t) \/ FinishStart(t)
  BY <1>3, StartBeginsType, InspectStartType, LaunchStartType, MarkStartType, SpawnStartType
<1> QED BY <1>1, <1>2, <1>3

LEMMA WorkType ==
  ASSUME TypeInv, NEW g \in Runs, Work(g)
  PROVE  TypeInv'
<1> USE DEF Work
<1>1. CASE WorkerBegin(g) \/ ProviderBegin(g) \/ ProviderEnd(g) \/ ProviderRaises(g)
  BY <1>1, ProviderType
<1>2. CASE VerifyBreaks(g) \/ VerifyEnds(g) \/ WorkerCommit(g) \/ TerminalRecord(g)
             \/ FailureRecord(g)
  BY <1>2, VerifyType, WorkerCommitType, TerminalRecordType, FailureRecordType
<1>3. CASE WorkerRelease(g) \/ TerminalClose(g) \/ FailureClose(g) \/ MaybeRepair(g)
  BY <1>3, CloseType, MaybeRepairType
<1> QED BY <1>1, <1>2, <1>3

LEMMA TypeStep == TypeInv /\ [Next]_vars => TypeInv'
<1> SUFFICES ASSUME TypeInv, [Next]_vars PROVE TypeInv'
  OBVIOUS
<1>1. ASSUME NEW t \in Requests, Request(t) PROVE TypeInv'
  BY <1>1, RequestPlanType, RequestsType, TicketRequestsType DEF Request
<1>2. ASSUME NEW t \in Threads, Serve(t) \/ Signal(t) PROVE TypeInv'
  BY <1>2, ServeType, SignalType DEF Signal
<1>3. CASE DeadlineFires \/ TimePasses BY <1>3, ClockType
<1>4. CASE Restart BY <1>4, RestartType
<1>5. CASE Idle \/ UNCHANGED vars BY <1>5, IdleType DEF Idle
<1>6. Requests \subseteq Threads /\ Runs \subseteq Threads /\ Clock \in Threads
  BY DEF Threads
<1> QED BY <1>1, <1>2, <1>3, <1>4, <1>5, <1>6, WorkType DEF Next

\* Every step of every thread, and a crash anywhere, leaves each variable in its
\* range: no recovery record is written that from_dict() would call malformed.
THEOREM TypeCorrect == Spec => []TypeOK
<1>1. TypeInv => TypeOK OBVIOUS
<1> QED BY <1>1, TypeInit, TypeStep, PTL DEF Spec

-----------------------------------------------------------------------------
(* What a patient user can rely on.  Requests that wait for one another     *)
(* leave one thread at work; the others rest, or carry a stop that may      *)
(* arrive at any moment, as may the deadline and a crash.                   *)

HIDE DEF TypeInv, TypeOK, threadVars, controlVars, signalVars, routeVars, planVars,
         outcomeVars, rowVars, ghostVars, Goto, Step, Leave, Rest

Resting == {"idle", "none", "done", "c_stop", "c_signal", "s_finish"}

OneBusy == \A t, u \in Threads : pc[t] \notin Resting /\ pc[u] \notin Resting => t = u

Repairs(k) == {g \in Launched : origin[g].repair /\ origin[g].ticket = k}

On(k) == disk.tickets[k]

\* Nothing is charged or reserved on a workflow that has not started.
Sound(r) == /\ r.attempts <= MaxAttempts
            /\ r.started \/ (r.accounted = {} /\ r.attempts = 0)

\* Record r holds all that record s holds.
Covers(r, s) == /\ s.accounted \subseteq r.accounted /\ s.attempts <= r.attempts
                /\ s.started => r.started

\* Saving r would lose nothing.
Kept(r) == Sound(r) /\ r.task <= made /\ (r.task # 0 => Covers(r, On(r.task)))

DiskInv ==
  /\ Kept(rec) /\ Kept(disk.project)
  /\ \A k \in Tickets : Sound(On(k)) /\ On(k).task = k /\ (k > made => ~On(k).started)
  /\ ticket <= made /\ disk.ticket \in disk.saved \cup {0} /\ \A k \in disk.saved : k <= made

RunRowInv ==
  /\ \A g \in Launched : origin[g].ticket # 0 /\ origin[g].ticket <= made
  /\ \A k \in Tickets : Cardinality(Repairs(k)) <= On(k).attempts
  /\ RecordedRunsCharged

\* The record in memory is that of the open ticket, except while create_plan() has put a fresh one
\* in its place and has not written it yet.
Agreed ==
  (\A t \in Threads : pc[t] # "p_commit") =>
    /\ ticket # 0 => rec.task = ticket \/ ~On(ticket).started
    /\ plan # 0 => plan = ticket /\ rec.task = ticket
    /\ run # 0 => rec.started

Charged(g, r) == {<<"codex", g>>, <<"workspace", g>>} \cap r.accounted # {}

\* A run at work: its ticket is open, and its record is on disk as it is in memory.
Owned(g) ==
  /\ plan # 0 /\ ticket # 0 /\ rec.task = ticket /\ origin[g].ticket = ticket
  /\ rec.started /\ On(ticket).accounted = rec.accounted

\* A cycle was reserved on disk that no run has used.
Reserved == ticket # 0 /\ Cardinality(Repairs(ticket)) < On(ticket).attempts

\* What a thread has established when it gets to a step.
Stage(t) ==
  /\ pc[t] = "r_reserve" => rec.attempts < MaxAttempts /\ rec.task = ticket
  /\ pc[t] \in PlanLabels =>
       /\ arg[t] \in {0, ticket}
       /\ Repairing(t) => /\ arg[t] = ticket /\ rec.task = ticket /\ cont
                          /\ Cardinality(Repairs(ticket)) < rec.attempts
  /\ pc[t] = "p_commit" /\ arg[t] # 0 =>
       arg[t] \in disk.saved /\ (rec.task = arg[t] \/ ~On(arg[t]).started)
  /\ pc[t] \in {"r_admit", "s_begin", "s_admit", "s_inspect", "s_launch"} /\ Repairing(t) => Reserved
  /\ pc[t] \in {"s_inspect", "s_launch", "s_mark"} => plan # 0
  /\ pc[t] \in {"s_mark", "s_spawn"} => origin[arg[t]].ticket = ticket
  /\ pc[t] = "s_spawn" => Owned(arg[t])

Working(g) ==
  /\ pc[g] \in WorkerLabels => Owned(g)
  /\ pc[g] \in {"w_release", "w_close", "w_failclose"} => Charged(g, rec)
  /\ pc[g] \notin Resting \cup WorkerLabels => Repairing(g) \/ pc[g] = "w_maybe"
  /\ pc[g] \notin Resting => ticket # 0 /\ origin[g].ticket = ticket

StageInv == \A t \in Threads : Stage(t)
WorkInv == \A g \in Runs : Working(g)

StayLabels == {"s_mark", "s_spawn", "s_finish", "done"}
StopLabels == WorkerLabels \cup {"w_maybe", "done"}

\* A run that was followed by its repair was not stopped, and will not be.
Followed ==
  \A g \in Launched : LET b == origin[g].by IN b # 0 =>
    /\ b \in Launched /\ b \notin stopped
    /\ origin[g].ticket = origin[b].ticket /\ pc[b] \in StayLabels

\* A run that was stopped at work still finds the reason when it is about to be repaired.
StopInv ==
  \A g \in stopped :
    /\ g \in Launched /\ pc[g] \in StopLabels
    /\ pc[g] # "done" => rec.stop # "none"

PatientInv ==
  OneBusy /\ DiskInv /\ RunRowInv /\ Agreed /\ StageInv /\ WorkInv /\ Followed /\ StopInv

-----------------------------------------------------------------------------
(* Records.                                                                 *)

SameKey(r, s) == s.task = r.task /\ s.attempts = r.attempts /\ s.started = r.started
                 /\ s.accounted = r.accounted

\* What most steps do to the record: charge a run, or change what is not counted.
Grown(r, s) == /\ s.task = r.task /\ s.attempts = r.attempts /\ r.accounted \subseteq s.accounted
               /\ r.started => s.started
               /\ s.started \/ s.accounted = r.accounted

LEMMA StopFields ==
  \A r \in RecoveryRecord, reason \in StopReasons :
    SameKey(r, Stop(r, reason)) /\ Stop(r, reason).stop = reason
  BY DEF Stop, RecoveryRecord, SameKey

LEMMA StatusFields ==
  \A r \in RecoveryRecord, s \in Statuses :
    SameKey(r, [r EXCEPT !.status = s]) /\ [r EXCEPT !.status = s].stop = r.stop
  BY DEF RecoveryRecord, SameKey

LEMMA AccountFields ==
  \A r \in RecoveryRecord, id \in RunIds :
    LET s == Account(r, id) IN
    /\ s.task = r.task /\ s.attempts = r.attempts /\ s.started = r.started /\ s.stop = r.stop
    /\ s.cycle = r.cycle
    /\ s.accounted = r.accounted \cup {id}
  BY DEF Account, RecoveryRecord

LEMMA SameIsGrown == \A r, s : SameKey(r, s) => Grown(r, s)
  BY DEF SameKey, Grown

LEMMA RestoredFields ==
  ASSUME NEW r \in RecoveryRecord, Sound(r)
  PROVE  SameKey(r, Restored(r))
  <1>1. Loaded(r) = r
    BY RecoveryAssumption DEF Loaded, Sound, RecoveryRecord
  <1> QED BY <1>1, StopFields DEF Restored, StopReasons, SameKey

LEMMA SavedFields ==
  ASSUME NEW d \in Disk, NEW r \in RecoveryRecord
  PROVE  /\ Saved(d, r) \in Disk
         /\ Saved(d, r).project = r /\ Saved(d, r).ticket = d.ticket /\ Saved(d, r).saved = d.saved
         /\ \A k \in Tickets : Saved(d, r).tickets[k] = IF k = r.task THEN r ELSE d.tickets[k]
  BY SavedType DEF Saved, Disk

\* Saving a record that loses nothing, up to ticket m, loses nothing on disk.
LEMMA SaveCovers ==
  ASSUME TypeInv, DiskInv, NEW m \in Nat, made <= m, NEW r \in RecoveryRecord,
         Sound(r), r.task <= m, r.task # 0 => Covers(r, On(r.task)), NEW k \in Tickets
  PROVE  LET s == Saved(disk, r).tickets[k] IN
         /\ s \in RecoveryRecord /\ Sound(s) /\ s.task = k /\ Covers(s, On(k))
         /\ k > m => ~s.started
         /\ k = r.task => s = r
         /\ k # r.task => s = On(k)
  <1>1. disk \in Disk /\ On(k) \in RecoveryRecord
    BY DEF TypeInv, TypeOK, RecordsOK, Disk, On
  <1>2. Saved(disk, r).tickets[k] = IF k = r.task THEN r ELSE On(k)
    BY <1>1, SavedFields DEF On
  <1>3. Sound(On(k)) /\ On(k).task = k /\ (k > made => ~On(k).started) /\ Covers(On(k), On(k))
    BY <1>1 DEF DiskInv, Covers, RecoveryRecord
  <1>4. CASE k = r.task
    <2>1. k # 0 /\ k <= m
      BY <1>4 DEF Tickets
    <2>2. Covers(r, On(k)) /\ ~(k > m)
      BY <1>4, <2>1 DEF Tickets
    <2> QED BY <1>2, <1>4, <2>2
  <1>5. CASE k # r.task
    <2>1. k > m => k > made
      BY DEF TypeInv, TypeOK, TicketOK, Tickets
    <2> QED BY <1>1, <1>2, <1>3, <1>5, <2>1
  <1> QED BY <1>4, <1>5

LEMMA RepairsFinite ==
  \A k : IsFiniteSet(Repairs(k)) /\ Cardinality(Repairs(k)) \in Nat
  <1>1. IsFiniteSet(Runs)
    BY FS_Interval, GuidedAssumption DEF Runs
  <1>2. \A k : Repairs(k) \subseteq Runs
    BY DEF Repairs, Launched
  <1> QED BY <1>1, <1>2, FS_Subset, FS_CardinalityType

-----------------------------------------------------------------------------
(* Steps that keep the key of the record.                                   *)

LEMMA RowsFollow ==
  ASSUME TypeInv, RunRowInv, disk' \in Disk, UNCHANGED <<row, origin>>,
         made' \in Nat, made <= made', \A k \in Tickets : Covers(On(k)', On(k))
  PROVE  RunRowInv'
  <1>1. Launched' = Launched /\ \A k \in Tickets : Repairs(k)' = Repairs(k)
    BY DEF Launched, Repairs
  <1>2. \A g \in Launched' : origin'[g].ticket # 0 /\ origin'[g].ticket <= made'
    BY <1>1 DEF RunRowInv, TypeInv, TypeOK, TicketOK, RowsOK, Origin, Tickets, Launched
  <1>3. ASSUME NEW k \in Tickets
        PROVE  Cardinality(Repairs(k))' <= On(k)'.attempts
    <2>1. On(k)'.attempts \in Nat /\ On(k).attempts \in Nat
      BY DEF TypeInv, TypeOK, RecordsOK, Disk, On, RecoveryRecord
    <2>2. Cardinality(Repairs(k)) <= On(k).attempts /\ On(k).attempts <= On(k)'.attempts
      BY DEF RunRowInv, Covers
    <2> QED BY <1>1, <2>1, <2>2, RepairsFinite
  <1>4. RecordedRunsCharged'
    <2> SUFFICES ASSUME NEW g \in Launched, row[g] # "running"
                 PROVE  {<<"codex", g>>, <<"workspace", g>>}
                          \cap On(origin[g].ticket)'.accounted # {}
      BY <1>1 DEF RecordedRunsCharged, On
    <2>1. origin[g].ticket \in Tickets
      BY DEF RunRowInv, TypeInv, TypeOK, RowsOK, Origin, Launched
    <2>2. {<<"codex", g>>, <<"workspace", g>>} \cap On(origin[g].ticket).accounted # {}
      BY DEF RunRowInv, RecordedRunsCharged, On
    <2>3. On(origin[g].ticket).accounted \subseteq On(origin[g].ticket)'.accounted
      BY <2>1 DEF Covers
    <2> QED BY <2>2, <2>3
  <1> QED BY <1>2, <1>3, <1>4 DEF RunRowInv

Touched ==
  /\ rec' \in RecoveryRecord /\ Grown(rec, rec')
  /\ \/ disk' = Saved(disk, rec')
     \/ SameKey(rec, rec') /\ disk' = disk

LEMMA TouchedKeeps ==
  ASSUME TypeInv, DiskInv, RunRowInv, Touched, UNCHANGED <<ticket, made, row, origin>>
  PROVE  /\ DiskInv' /\ RunRowInv' /\ disk' \in Disk
         /\ disk'.saved = disk.saved
         /\ \A k \in Tickets : /\ Covers(On(k)', On(k))
                               /\ k # rec.task => On(k)' = On(k)
         /\ rec.task # 0 /\ On(rec.task).accounted = rec.accounted
              => On(rec.task)'.accounted = rec'.accounted
  <1>1. /\ disk \in Disk /\ rec \in RecoveryRecord /\ rec' \in RecoveryRecord /\ made \in Nat
        /\ \A k \in Tickets : On(k) \in RecoveryRecord
        /\ rec.task \in Tickets \cup {0} /\ rec.task <= made
    BY DEF TypeInv, TypeOK, RecordsOK, TicketOK, Disk, On, Touched, RecoveryRecord, DiskInv, Kept
  <1>2. Sound(rec')
    BY <1>1 DEF Touched, Grown, DiskInv, Kept, Sound
  <1>3. rec'.task = rec.task /\ (rec.task # 0 => Covers(rec', On(rec.task)))
    BY <1>1 DEF Touched, Grown, DiskInv, Kept, Covers
  <1>4. CASE disk' = Saved(disk, rec')
    <2>1. /\ disk' \in Disk /\ disk'.project = rec' /\ disk'.ticket = disk.ticket
          /\ disk'.saved = disk.saved
      BY <1>1, <1>4, SavedFields
    <2>2. \A k \in Tickets :
            /\ Sound(On(k)') /\ On(k)'.task = k /\ Covers(On(k)', On(k))
            /\ k > made => ~On(k)'.started
            /\ k = rec.task => On(k)' = rec'
            /\ k # rec.task => On(k)' = On(k)
      BY <1>1, <1>2, <1>3, <1>4, SaveCovers DEF On
    <2>3. Covers(rec', rec')
      BY <1>1 DEF Covers, RecoveryRecord
    <2>4. Kept(rec)' /\ Kept(disk.project)'
      BY <1>1, <1>2, <1>3, <2>1, <2>2, <2>3 DEF Kept
    <2>5. DiskInv'
      BY <2>1, <2>2, <2>4 DEF DiskInv
    <2>6. RunRowInv'
      BY <1>1, <2>1, <2>2, RowsFollow
    <2> QED BY <1>1, <2>1, <2>2, <2>5, <2>6
  <1>5. CASE SameKey(rec, rec') /\ disk' = disk
    <2>1. \A k \in Tickets : On(k)' = On(k) /\ Covers(On(k)', On(k))
      BY <1>1, <1>5 DEF On, Covers, RecoveryRecord
    <2>2. Kept(rec)' /\ Kept(disk.project)'
      <3>1. Kept(rec)'
        BY <1>1, <1>2, <1>3, <2>1 DEF Kept
      <3>2. disk.project.task \in Tickets \cup {0} /\ disk'.project = disk.project
        BY <1>1, <1>5 DEF Disk, RecoveryRecord
      <3>3. Kept(disk.project)'
        BY <2>1, <3>2 DEF Kept, DiskInv
      <3> QED BY <3>1, <3>3
    <2>3. DiskInv'
      BY <1>5, <2>1, <2>2 DEF DiskInv
    <2>4. RunRowInv'
      BY <1>1, <1>5, <2>1, RowsFollow
    <2> QED BY <1>1, <1>5, <2>1, <2>3, <2>4 DEF SameKey
  <1> QED BY <1>4, <1>5 DEF Touched

-----------------------------------------------------------------------------
(* The threads that do not move.                                            *)

LEMMA RestingStage ==
  ASSUME NEW t \in Threads, pc'[t] \in Resting
  PROVE  Stage(t)' /\ (t \in Runs => Working(t)')
  <1>1. Stage(t)'
    BY DEF Stage, Resting, PlanLabels
  <1>2. Working(t)'
    BY DEF Working, Resting, WorkerLabels
  <1> QED BY <1>1, <1>2

\* All but one thread rest, before and after.
LEMMA OneMoves ==
  ASSUME NEW x \in Threads, \A u \in Threads : u # x => pc'[u] \in Resting,
         Stage(x)', x \in Runs => Working(x)'
  PROVE  OneBusy' /\ StageInv' /\ WorkInv'
  <1>1. OneBusy'
    BY DEF OneBusy
  <1>2. StageInv'
    BY RestingStage DEF StageInv
  <1>3. WorkInv'
    BY RestingStage DEF WorkInv, Threads
  <1> QED BY <1>1, <1>2, <1>3

\* A thread stays where it is while the record only grows.
LEMMA StageKeeps ==
  ASSUME TypeInv, DiskInv, RunRowInv, Touched, NEW t \in Threads, Stage(t),
         UNCHANGED <<ticket, made, plan, cont, row, origin>>,
         pc'[t] = pc[t], arg'[t] = arg[t], job'[t] = job[t]
  PROVE  Stage(t)'
  <1>1. /\ \A k \in Tickets : Covers(On(k)', On(k)) /\ (k # rec.task => On(k)' = On(k))
        /\ rec.task # 0 /\ On(rec.task).accounted = rec.accounted
             => On(rec.task)'.accounted = rec'.accounted
        /\ disk'.saved = disk.saved /\ disk' \in Disk
    BY TouchedKeeps
  <1>2. /\ rec'.task = rec.task /\ rec'.attempts = rec.attempts /\ (rec.started => rec'.started)
    BY DEF Touched, Grown
  <1>3. Repairs(ticket)' = Repairs(ticket)
    BY DEF Repairs, Launched
  <1>4. ticket \in Tickets \cup {0} /\ rec.attempts \in Nat
        /\ \A k \in Tickets : On(k).attempts \in Nat /\ On(k)'.attempts \in Nat
    BY <1>1 DEF TypeInv, TypeOK, TicketOK, RecordsOK, RecoveryRecord, Disk, On
  <1>5. Reserved => Reserved'
    BY <1>1, <1>3, <1>4, RepairsFinite DEF Reserved, Covers
  <1>6. Owned(arg[t]) => Owned(arg[t])'
    BY <1>1, <1>2 DEF Owned, On
  <1>7. pc[t] = "p_commit" /\ arg[t] # 0 =>
          arg[t] \in disk'.saved /\ (rec'.task = arg[t] \/ ~On(arg[t])'.started)
    <2> SUFFICES ASSUME pc[t] = "p_commit", arg[t] # 0, rec.task # arg[t]
                 PROVE  arg[t] \in disk'.saved /\ ~On(arg[t])'.started
      BY <1>1, <1>2 DEF Stage
    <2>1. arg[t] \in Tickets
      BY DEF TypeInv, Carries
    <2> QED BY <1>1, <2>1 DEF Stage
  <1>8. Repairing(t)' = Repairing(t)
    BY DEF Repairing
  <1> QED BY <1>2, <1>3, <1>5, <1>6, <1>7, <1>8 DEF Stage

LEMMA WorkingKeeps ==
  ASSUME TypeInv, DiskInv, RunRowInv, Touched, NEW g \in Runs, Working(g),
         UNCHANGED <<ticket, made, plan, row, origin>>,
         pc'[g] = pc[g], arg'[g] = arg[g], job'[g] = job[g]
  PROVE  Working(g)'
  <1>1. /\ \A k \in Tickets : Covers(On(k)', On(k)) /\ (k # rec.task => On(k)' = On(k))
        /\ rec.task # 0 /\ On(rec.task).accounted = rec.accounted
             => On(rec.task)'.accounted = rec'.accounted
    BY TouchedKeeps
  <1>2. /\ rec'.task = rec.task /\ (rec.started => rec'.started) /\ rec.accounted \subseteq rec'.accounted
    BY DEF Touched, Grown
  <1>3. Owned(g) => Owned(g)'
    BY <1>1, <1>2 DEF Owned, On
  <1>4. Charged(g, rec) => Charged(g, rec')
    BY <1>2 DEF Charged
  <1> QED BY <1>3, <1>4 DEF Working, Repairing

LEMMA AgreedKeeps ==
  ASSUME TypeInv, DiskInv, RunRowInv, Agreed, Touched, UNCHANGED <<ticket, made, plan, row, origin>>,
         run' = run \/ rec'.started,
         \A t \in Threads : pc[t] = "p_commit" => pc'[t] = "p_commit"
  PROVE  Agreed'
  <1> SUFFICES ASSUME \A t \in Threads : pc'[t] # "p_commit"
               PROVE  /\ ticket # 0 => rec'.task = ticket \/ ~On(ticket)'.started
                      /\ plan # 0 => plan = ticket /\ rec'.task = ticket
                      /\ run' # 0 => rec'.started
    BY DEF Agreed
  <1>1. /\ ticket # 0 => rec.task = ticket \/ ~On(ticket).started
        /\ plan # 0 => plan = ticket /\ rec.task = ticket
        /\ run # 0 => rec.started
    BY DEF Agreed
  <1>2. \A k \in Tickets : k # rec.task => On(k)' = On(k)
    BY TouchedKeeps
  <1>3. rec'.task = rec.task /\ (rec.started => rec'.started)
    BY DEF Touched, Grown
  <1>4. ticket \in Tickets \cup {0}
    BY DEF TypeInv, TypeOK, TicketOK
  <1> QED BY <1>1, <1>2, <1>3, <1>4

\* What is over stays over: thread x goes to l.
LEMMA PastKeeps ==
  ASSUME Control, Followed, StopInv, NEW x \in Threads, NEW l, pc' = [pc EXCEPT ![x] = l],
         UNCHANGED <<origin, stopped>>, Launched' = Launched,
         x \in Runs /\ pc[x] \in StayLabels => l \in StayLabels,
         pc[x] \in StopLabels /\ x \in stopped => l \in StopLabels,
         rec.stop # "none" => \/ rec'.stop # "none"
                              \/ \A g \in Runs : pc'[g] \notin WorkerLabels \cup {"w_maybe"}
  PROVE  Followed' /\ StopInv'
  <1>1. \A g \in Launched : g \in Runs /\ g \in Threads
    BY DEF Launched, Threads
  <1>2. \A g \in Runs :
          /\ pc[g] \in StayLabels => pc'[g] \in StayLabels
          /\ pc[g] \in StopLabels /\ g \in stopped => pc'[g] \in StopLabels
    BY DEF Control, Shape, Threads
  <1>3. Followed'
    BY <1>1, <1>2 DEF Followed
  <1>4. ASSUME NEW g \in stopped
        PROVE  /\ g \in Launched' /\ pc'[g] \in StopLabels
               /\ pc'[g] # "done" => rec'.stop # "none"
    <2>1. g \in Launched /\ pc[g] \in StopLabels /\ (pc[g] # "done" => rec.stop # "none")
      BY DEF StopInv
    <2>2. g \in Runs /\ pc'[g] \in StopLabels
      BY <1>1, <1>2, <2>1
    <2>3. pc[g] = "done" => pc'[g] \in StayLabels \cap StopLabels
      BY <1>2, <2>2 DEF StayLabels, StopLabels
    <2>4. pc[g] = "done" => pc'[g] = "done"
      BY <2>3 DEF StayLabels, StopLabels, WorkerLabels
    <2> QED BY <2>1, <2>2, <2>4 DEF StopLabels
  <1>5. StopInv'
    BY <1>4 DEF StopInv
  <1> QED BY <1>3, <1>5

\* A step of the one busy thread that keeps the key of the record.
LEMMA OrdinaryStep ==
  ASSUME TypeInv, Control, PatientInv, NEW x \in Threads, NEW l, pc' = [pc EXCEPT ![x] = l],
         \A u \in Threads : u # x => pc[u] \in Resting,
         pc[x] # "p_commit", x \in Runs /\ pc[x] \in StayLabels => l \in StayLabels,
         pc[x] \in StopLabels /\ x \in stopped => l \in StopLabels,
         Touched, UNCHANGED <<ticket, made, plan, row, origin, stopped>>,
         run' = run \/ rec'.started,
         rec.stop # "none" => \/ rec'.stop # "none"
                              \/ \A g \in Runs : pc'[g] \notin WorkerLabels \cup {"w_maybe"},
         Stage(x)', x \in Runs => Working(x)'
  PROVE  PatientInv'
  <1>1. DiskInv' /\ RunRowInv'
    BY TouchedKeeps DEF PatientInv
  <1>2. Agreed'
    BY AgreedKeeps DEF PatientInv, Control, Shape
  <1>3. Launched' = Launched
    BY DEF Launched
  <1>4. Followed' /\ StopInv'
    BY <1>3, PastKeeps DEF PatientInv
  <1>5. \A u \in Threads : u # x => pc'[u] \in Resting
    BY DEF Control, Shape
  <1>6. OneBusy' /\ StageInv' /\ WorkInv'
    BY <1>5, OneMoves
  <1> QED BY <1>1, <1>2, <1>4, <1>6 DEF PatientInv

LEMMA OthersRest ==
  ASSUME OneBusy, NEW x \in Threads, pc[x] \notin Resting
  PROVE  \A u \in Threads : u # x => pc[u] \in Resting
  BY DEF OneBusy

LEMMA UntouchedIsTouched ==
  ASSUME TypeInv, UNCHANGED <<rec, disk>>
  PROVE  Touched
  BY DEF Touched, Grown, SameKey, TypeInv, TypeOK, RecordsOK

LEMMA KeepTouches ==
  ASSUME NEW r \in RecoveryRecord, Grown(rec, r), Keep(r)
  PROVE  Touched
  BY DEF Touched, Keep

LEMMA OwnedKeeps ==
  ASSUME TypeInv, DiskInv, RunRowInv, Touched, UNCHANGED <<ticket, made, plan, row, origin>>,
         NEW g \in Runs, Owned(g)
  PROVE  Owned(g)'
  <1>1. rec.task # 0 /\ On(rec.task).accounted = rec.accounted
             => On(rec.task)'.accounted = rec'.accounted
    BY TouchedKeeps
  <1>2. /\ rec'.task = rec.task /\ (rec.started => rec'.started)
    BY DEF Touched, Grown
  <1> QED BY <1>1, <1>2 DEF Owned, On

-----------------------------------------------------------------------------
(* The worker.                                                              *)

LEMMA WorkerMoves ==
  ASSUME TypeInv, Control, PatientInv, NEW g \in Runs, pc[g] \in WorkerLabels,
         NEW l \in WorkerLabels, pc' = [pc EXCEPT ![g] = l],
         Touched, UNCHANGED <<ticket, made, plan, row, origin, stopped>>,
         run' = run \/ run' = g, rec.stop # "none" => rec'.stop # "none",
         l \in {"w_release", "w_close", "w_failclose"} => Charged(g, rec')
  PROVE  PatientInv'
  <1>1. g \in Threads /\ pc[g] \notin Resting /\ pc'[g] = l /\ l \notin Resting
    BY DEF Threads, Resting, WorkerLabels, Control, Shape
  <1>2. Owned(g) /\ ticket # 0 /\ origin[g].ticket = ticket
    BY <1>1 DEF PatientInv, WorkInv, Working
  <1>3. Owned(g)' /\ rec'.started
    BY <1>2, OwnedKeeps DEF PatientInv, Owned
  <1>4. Stage(g)'
    BY <1>1 DEF Stage, WorkerLabels, PlanLabels
  <1>5. Working(g)'
    BY <1>1, <1>2, <1>3 DEF Working
  <1>6. pc[g] \notin StayLabels \cup {"p_commit"} /\ l \in StopLabels
    BY DEF WorkerLabels, StopLabels, StayLabels
  <1> QED BY <1>1, <1>3, <1>4, <1>5, <1>6, OthersRest, OrdinaryStep DEF PatientInv

LEMMA WorkGoesOn ==
  ASSUME TypeInv, Control, PatientInv, NEW g \in Runs,
         \/ WorkerBegin(g) \/ ProviderBegin(g) \/ ProviderEnd(g) \/ ProviderRaises(g)
         \/ VerifyBreaks(g) \/ VerifyEnds(g)
  PROVE  PatientInv'
  <1>1. UNCHANGED <<rec, disk>> /\ UNCHANGED <<ticket, made, plan, row, origin, stopped>>
    BY DEF WorkerBegin, ProviderBegin, ProviderEnd, ProviderRaises, VerifyBreaks, VerifyEnds,
           planVars, ghostVars, rowVars
  <1>2. run' = run \/ run' = g
    BY DEF WorkerBegin, ProviderBegin, ProviderEnd, ProviderRaises, VerifyBreaks, VerifyEnds,
           outcomeVars
  <1>3. \E l \in WorkerLabels \ {"w_release", "w_close", "w_failclose"} :
          pc[g] \in WorkerLabels /\ pc' = [pc EXCEPT ![g] = l]
    BY DEF WorkerBegin, ProviderBegin, ProviderEnd, ProviderRaises, VerifyBreaks, VerifyEnds,
           WorkerLabels, Goto
  <1> QED BY <1>1, <1>2, <1>3, UntouchedIsTouched, WorkerMoves

LEMMA AccountGrows ==
  ASSUME TypeInv, PatientInv, NEW g \in Runs, Owned(g), NEW kind \in {"codex", "workspace"},
         NEW r \in RecoveryRecord, SameKey(Account(rec, <<kind, g>>), r)
  PROVE  Grown(rec, r) /\ Charged(g, r)
  <1>1. rec \in RecoveryRecord /\ <<kind, g>> \in RunIds
    BY DEF TypeInv, TypeOK, RecordsOK, RunIds
  <1>2. rec.started
    BY DEF Owned
  <1>3. r.accounted = rec.accounted \cup {<<kind, g>>} /\ r.task = rec.task
        /\ r.attempts = rec.attempts /\ r.started = rec.started
    BY <1>1, AccountFields DEF SameKey
  <1> QED BY <1>2, <1>3 DEF Grown, Charged

LEMMA WorkIsCharged ==
  ASSUME TypeInv, Control, PatientInv, NEW g \in Runs,
         WorkerCommit(g) \/ TerminalRecord(g) \/ FailureRecord(g)
  PROVE  PatientInv'
  <1>1. UNCHANGED <<ticket, made, plan, row, origin, stopped>> /\ (run' = run \/ run' = g)
    BY DEF WorkerCommit, TerminalRecord, FailureRecord, planVars, ghostVars, rowVars, outcomeVars
  <1>2. \E l \in WorkerLabels : pc[g] \in WorkerLabels /\ pc' = [pc EXCEPT ![g] = l]
    BY DEF WorkerCommit, TerminalRecord, FailureRecord, WorkerLabels, Goto
  <1>3. g \in Threads /\ Owned(g) /\ rec \in RecoveryRecord
    BY <1>2 DEF Threads, PatientInv, WorkInv, Working, TypeInv, TypeOK, RecordsOK
  <1> DEFINE by(kind) == Account(rec, <<kind, g>>)
  <1>4. \A kind \in {"codex", "workspace"} :
          by(kind) \in RecoveryRecord /\ by(kind).stop = rec.stop
    BY <1>3, AccountType, AccountFields DEF RunIds
  <1> HIDE DEF by
  <1>5. \E kind \in {"codex", "workspace"} :
          /\ \/ \E s \in Statuses : Keep([by(kind) EXCEPT !.status = s])
             \/ \E reason \in StopReasons \ {"none"} : Keep(Stop(by(kind), reason))
             \/ Keep(by(kind))
             \/ by(kind) = rec /\ UNCHANGED <<rec, disk>>
    BY <1>3 DEF WorkerCommit, TerminalRecord, FailureRecord, FailureCharge, ReadyIfRunning, Statuses,
              StopReasons, Owned, by
  <1>6. \A r \in RecoveryRecord : SameKey(r, r)
    BY DEF SameKey
  <1>10. PICK kind \in {"codex", "workspace"} :
          \/ \E s \in Statuses : Keep([by(kind) EXCEPT !.status = s])
          \/ \E reason \in StopReasons \ {"none"} : Keep(Stop(by(kind), reason))
          \/ Keep(by(kind))
          \/ by(kind) = rec /\ UNCHANGED <<rec, disk>>
    BY <1>5
  <1>7. PICK r \in RecoveryRecord :
          /\ SameKey(by(kind), r) /\ (rec.stop # "none" => r.stop # "none")
          /\ Keep(r) \/ (r = rec /\ UNCHANGED <<rec, disk>>)
    <2>1. ASSUME NEW s \in Statuses, Keep([by(kind) EXCEPT !.status = s])
          PROVE  \E r \in RecoveryRecord :
                   SameKey(by(kind), r) /\ (rec.stop # "none" => r.stop # "none") /\ Keep(r)
      BY <1>4, <2>1, StatusFields, StatusType
    <2>2. ASSUME NEW reason \in StopReasons \ {"none"}, Keep(Stop(by(kind), reason))
          PROVE  \E r \in RecoveryRecord :
                   SameKey(by(kind), r) /\ (rec.stop # "none" => r.stop # "none") /\ Keep(r)
      BY <1>4, <2>2, StopFields, StopType
    <2>3. SameKey(by(kind), by(kind)) /\ by(kind) \in RecoveryRecord
          /\ (rec.stop # "none" => by(kind).stop # "none")
      BY <1>4, <1>6
    <2>4. CASE Keep(by(kind))
      BY <2>3, <2>4
    <2>5. CASE by(kind) = rec /\ UNCHANGED <<rec, disk>>
      BY <2>3, <2>5
    <2> QED BY <1>10, <2>1, <2>2, <2>4, <2>5
  <1>8. Grown(rec, r) /\ Charged(g, r) /\ rec' = r
    BY <1>3, <1>7, AccountGrows DEF Keep, by
  <1>9. Touched
    BY <1>7, <1>8, KeepTouches, UntouchedIsTouched
  <1> QED BY <1>1, <1>2, <1>7, <1>8, <1>9, WorkerMoves

LEMMA WorkIsClosed ==
  ASSUME TypeInv, Control, PatientInv, NEW g \in Runs,
         WorkerRelease(g) \/ TerminalClose(g) \/ FailureClose(g)
  PROVE  PatientInv'
  <1>1. /\ UNCHANGED <<ticket, made, plan, run, rec, disk, origin, stopped>>
        /\ pc[g] \in {"w_release", "w_close", "w_failclose"}
    BY DEF WorkerRelease, TerminalClose, FailureClose, Close, planVars, ghostVars, outcomeVars
  <1>2. PICK l \in {"w_maybe", "done"} : pc' = [pc EXCEPT ![g] = l]
    BY DEF WorkerRelease, TerminalClose, FailureClose, Close, Step, Leave, Rest, Goto
  <1>3. PICK state \in RowStates \ {"none"} : row' = [row EXCEPT ![g] = state]
    BY DEF WorkerRelease, TerminalClose, FailureClose, Close, RowStates
  <1>4. /\ g \in Threads /\ pc[g] \in WorkerLabels /\ pc[g] \notin Resting /\ pc'[g] = l
        /\ \A u \in Threads : u # g => pc[u] \in Resting /\ pc'[u] = pc[u]
    BY <1>1, <1>2, OthersRest DEF Threads, WorkerLabels, Resting, PatientInv, Control, Shape
  <1>5. Owned(g) /\ Charged(g, rec) /\ ticket # 0 /\ origin[g].ticket = ticket /\ row[g] # "none"
    BY <1>1, <1>4 DEF PatientInv, WorkInv, Working, Control, Unborn, WorkerLabels
  <1>6. Launched' = Launched /\ \A h \in Launched : h # g => row'[h] = row[h]
    BY <1>3, <1>5 DEF Launched, Control, Shape
  <1>7. DiskInv'
    BY <1>1 DEF PatientInv, DiskInv, Kept, On
  <1>8. RunRowInv'
    <2>1. \A k \in Tickets : Repairs(k)' = Repairs(k) /\ On(k)' = On(k)
      BY <1>1, <1>6 DEF Repairs, On
    <2>2. RecordedRunsCharged'
      <3> SUFFICES ASSUME NEW h \in Launched, row'[h] # "running"
                   PROVE  Charged(h, On(origin[h].ticket))
        BY <1>1, <1>6 DEF RecordedRunsCharged, Charged, On
      <3>1. CASE h = g
        BY <1>5, <3>1 DEF Owned, Charged
      <3>2. CASE h # g
        BY <1>6, <3>2 DEF PatientInv, RunRowInv, RecordedRunsCharged, Charged, On
      <3> QED BY <3>1, <3>2
    <2> QED BY <1>1, <1>6, <2>1, <2>2 DEF PatientInv, RunRowInv
  <1>9. Agreed'
    <2>1. \A u \in Threads : pc[u] # "p_commit"
      BY <1>4 DEF Resting, WorkerLabels
    <2> QED BY <1>1, <2>1 DEF PatientInv, Agreed, On
  <1>10. Stage(g)' /\ Working(g)'
    <2>1. Stage(g)'
      BY <1>4 DEF Stage, PlanLabels
    <2>2. Working(g)'
      BY <1>1, <1>4, <1>5 DEF Working, Resting, WorkerLabels
    <2> QED BY <2>1, <2>2
  <1>11. OneBusy' /\ StageInv' /\ WorkInv'
    BY <1>4, <1>10, OneMoves
  <1>12. Followed' /\ StopInv'
    <2>1. pc[g] \notin StayLabels /\ l \in StopLabels
      BY <1>1 DEF StayLabels, StopLabels
    <2> QED BY <1>1, <1>2, <1>4, <1>6, <2>1, PastKeeps DEF PatientInv
  <1> QED BY <1>7, <1>8, <1>9, <1>11, <1>12 DEF PatientInv

LEMMA MaybeRepairKeeps ==
  ASSUME TypeInv, Control, PatientInv, NEW g \in Runs, MaybeRepair(g)
  PROVE  PatientInv'
  <1>1. /\ UNCHANGED <<ticket, made, plan, run, row, origin, stopped>> /\ pc[g] = "w_maybe"
        /\ g \in Threads /\ rec \in RecoveryRecord
    BY DEF MaybeRepair, planVars, ghostVars, outcomeVars, rowVars, Threads, TypeInv, TypeOK, RecordsOK
  <1>2. \A u \in Threads : u # g => pc[u] \in Resting
    BY <1>1, OthersRest DEF PatientInv, Resting
  <1> DEFINE ready == [rec EXCEPT !.status = "ready"]
  <1>3. ready \in RecoveryRecord /\ SameKey(rec, ready) /\ ready.stop = rec.stop
    BY <1>1, StatusType, StatusFields DEF Statuses
  <1> HIDE DEF ready
  <1>4. Touched /\ rec'.stop = rec.stop
    <2>1. UNCHANGED <<rec, disk>> \/ Keep(ready) \/ (rec' = ready /\ UNCHANGED disk)
      BY DEF MaybeRepair, ready
    <2> QED BY <1>3, <2>1, UntouchedIsTouched, SameIsGrown DEF Touched, Keep
  <1>5. \/ pc' = [pc EXCEPT ![g] = "done"]
        \/ pc' = [pc EXCEPT ![g] = "r_check"] /\ job'[g] = "repair" /\ rec.stop = "none"
    BY <1>1 DEF MaybeRepair, Leave, Rest, Goto, TypeInv, TypeOK, ThreadsOK
  <1>6. PICK l \in {"done", "r_check"} :
          /\ pc' = [pc EXCEPT ![g] = l]
          /\ l = "r_check" => job'[g] = "repair" /\ rec.stop = "none"
    BY <1>5
  <1>7. pc'[g] = l
    BY <1>1, <1>6 DEF Control, Shape
  <1>8. ticket # 0 /\ origin[g].ticket = ticket
    BY <1>1 DEF PatientInv, WorkInv, Working, Resting
  <1>9. Stage(g)'
    BY <1>7 DEF Stage, PlanLabels
  <1>10. Working(g)'
    BY <1>1, <1>6, <1>7, <1>8 DEF Working, Resting, WorkerLabels, Repairing
  <1>11. pc[g] \in StopLabels /\ g \in stopped => l \in StopLabels
    BY <1>1, <1>6 DEF PatientInv, StopInv, StopLabels
  <1>12. pc[g] \notin StayLabels \cup {"p_commit"}
    BY <1>1 DEF StayLabels
  <1> QED BY <1>1, <1>2, <1>4, <1>6, <1>9, <1>10, <1>11, <1>12, OrdinaryStep

-----------------------------------------------------------------------------
(* Requests and repairs on their way to a run.                              *)

LEMMA StopTouches ==
  ASSUME TypeInv, NEW reason \in StopReasons, StopWith(rec, reason)
  PROVE  Touched
  BY StopType, StopFields, SameIsGrown, KeepTouches DEF StopWith, TypeInv, TypeOK, RecordsOK

LEMMA RaiseTouches ==
  ASSUME TypeInv, NEW t \in Threads, Raise(t)
  PROVE  Touched /\ pc' = [pc EXCEPT ![t] = Rest(t)]
  BY StopTouches, UntouchedIsTouched DEF Raise, Leave, Goto, StopReasons

\* Neither the worker's steps nor those that have a lemma of their own.
OnItsWay == (RepairLabels \ {"w_maybe"}) \cup {"p_check", "s_begin", "s_admit", "s_inspect"}

LEMMA MovesOn ==
  ASSUME TypeInv, Control, PatientInv, NEW x \in Threads, pc[x] \in OnItsWay,
         NEW l, pc' = [pc EXCEPT ![x] = l],
         Touched, UNCHANGED <<ticket, made, plan, run, row, origin, stopped>>,
         \/ l = Rest(x)
         \/ l \in OnItsWay \cup {"s_launch"} /\ job'[x] = job[x] /\ Stage(x)'
  PROVE  PatientInv'
  <1>1. /\ pc[x] \notin Resting \cup WorkerLabels \cup StayLabels \cup StopLabels
        /\ pc[x] \notin {"p_commit", "w_maybe"} /\ pc'[x] = l
    BY DEF OnItsWay, RepairLabels, Resting, WorkerLabels, StayLabels, StopLabels, Control, Shape
  <1>2. \A u \in Threads : u # x => pc[u] \in Resting /\ pc'[u] \in Resting
    BY <1>1, OthersRest DEF PatientInv, Control, Shape
  <1>3. Stage(x)' /\ (x \in Runs => Working(x)')
    <2>1. CASE l = Rest(x)
      BY <1>1, <2>1, RestingStage DEF Rest, Resting
    <2>2. CASE l \in OnItsWay \cup {"s_launch"} /\ job'[x] = job[x] /\ Stage(x)'
      <3>1. l \notin Resting \cup WorkerLabels
        BY <2>2 DEF OnItsWay, RepairLabels, Resting, WorkerLabels
      <3>2. x \in Runs => Repairing(x) /\ ticket # 0 /\ origin[x].ticket = ticket
        BY <1>1 DEF PatientInv, WorkInv, Working
      <3>3. x \in Runs => Working(x)'
        BY <1>1, <2>2, <3>1, <3>2 DEF Working, WorkerLabels, Repairing
      <3> QED BY <2>2, <3>3
    <2> QED BY <2>1, <2>2
  <1>4. l \notin WorkerLabels \cup {"w_maybe"}
    BY DEF OnItsWay, RepairLabels, WorkerLabels, Rest
  <1>5. \A g \in Runs : pc'[g] \notin WorkerLabels \cup {"w_maybe"}
    <2>1. \A g \in Runs : g \in Threads
      BY DEF Threads
    <2> QED BY <1>1, <1>2, <1>4, <2>1 DEF Resting, WorkerLabels
  <1> QED BY <1>1, <1>2, <1>3, <1>5, OrdinaryStep

\* The reservation of a repair lasts while nothing is written.
LEMMA ReservedStays ==
  ASSUME UNCHANGED <<disk, ticket, row, origin>>, Reserved
  PROVE  Reserved'
  BY DEF Reserved, On, Repairs, Launched

LEMMA StartMovesOn ==
  ASSUME TypeInv, Control, PatientInv, NEW t \in Threads,
         AdmitRepair(t) \/ BeginStart(t) \/ AdmitStart(t) \/ InspectStart(t)
  PROVE  PatientInv'
  <1>1. /\ UNCHANGED <<ticket, made, plan, run, row, origin, stopped>>
        /\ pc[t] \in {"r_admit", "s_begin", "s_admit", "s_inspect"} /\ pc[t] \in OnItsWay
    BY DEF AdmitRepair, BeginStart, AdmitStart, InspectStart, planVars, rowVars, ghostVars,
           outcomeVars, OnItsWay, RepairLabels
  <1>2. \/ Raise(t)
        \/ (\E reason \in StopReasons : StopWith(rec, reason)) /\ Leave(t)
        \/ \E l \in {"s_begin", "s_admit", "s_inspect", "s_launch"} :
             /\ Step(t, l) /\ UNCHANGED <<rec, disk>>
             /\ l \in {"s_inspect", "s_launch"} => plan # 0
    BY DEF AdmitRepair, BeginStart, AdmitStart, InspectStart, AbortStart, StopReasons,
           PatientInv, StageInv, Stage
  <1>3. CASE Raise(t)
    BY <1>1, <1>3, RaiseTouches, MovesOn
  <1>4. ASSUME NEW reason \in StopReasons, StopWith(rec, reason), Leave(t)
        PROVE  PatientInv'
    BY <1>1, <1>4, StopTouches, MovesOn DEF Leave, Goto
  <1>5. ASSUME NEW l \in {"s_begin", "s_admit", "s_inspect", "s_launch"}, Step(t, l),
               UNCHANGED <<rec, disk>>, l \in {"s_inspect", "s_launch"} => plan # 0
        PROVE  PatientInv'
    <2>1. pc' = [pc EXCEPT ![t] = l] /\ pc'[t] = l /\ job'[t] = job[t]
      BY <1>5 DEF Step, Goto, Control, Shape
    <2>2. Repairing(t) => Reserved
      BY <1>1 DEF PatientInv, StageInv, Stage
    <2>3. Repairing(t)' => Reserved'
      BY <1>1, <1>5, <2>1, <2>2, ReservedStays DEF Repairing
    <2>4. Stage(t)'
      BY <1>1, <1>5, <2>1, <2>3 DEF Stage, PlanLabels
    <2> QED BY <1>1, <1>5, <2>1, <2>4, UntouchedIsTouched, MovesOn DEF OnItsWay
  <1> QED BY <1>2, <1>3, <1>4, <1>5

-----------------------------------------------------------------------------
(* A run is launched.                                                       *)

LEMMA LaunchKeeps ==
  ASSUME TypeInv, Control, PatientInv, NEW t \in Threads, LaunchStart(t)
  PROVE  PatientInv'
  <1>1. PICK g \in Runs :
          /\ g \notin Launched
          /\ row' = [row EXCEPT ![g] = "running"]
          /\ arg' = [arg EXCEPT ![t] = g]
          /\ origin' = [origin EXCEPT ![g] =
                           [ticket |-> ticket, route |-> route,
                            by |-> IF Automatic(t) THEN t ELSE 0, repair |-> Repairing(t)]]
    BY DEF LaunchStart, IsNext
  <1>2. /\ pc[t] = "s_launch" /\ pc' = [pc EXCEPT ![t] = "s_mark"]
        /\ UNCHANGED <<ticket, made, plan, run, rec, disk, stopped, job>>
    BY DEF LaunchStart, Goto, planVars, outcomeVars
  <1>3. /\ row[g] = "none" /\ pc[g] = "none" /\ pc'[t] = "s_mark" /\ arg'[t] = g /\ g \in Threads
        /\ Launched' = Launched \cup {g}
        /\ origin'[g].ticket = ticket /\ origin'[g].repair = Repairing(t)
        /\ origin'[g].by = (IF t \in Runs THEN t ELSE 0)
        /\ \A h \in Runs : h # g => origin'[h] = origin[h] /\ row'[h] = row[h]
    BY <1>1, <1>2 DEF Control, Shape, Unborn, Launched, Threads, Automatic
  <1>4. \A u \in Threads : u # t => pc[u] \in Resting /\ pc'[u] = pc[u]
    BY <1>2, OthersRest DEF PatientInv, Control, Shape, Resting
  <1>5. /\ plan # 0 /\ ticket # 0 /\ plan = ticket /\ rec.task = ticket
        /\ Repairing(t) => Reserved
    <2>1. plan # 0 /\ (Repairing(t) => Reserved)
      BY <1>2 DEF PatientInv, StageInv, Stage
    <2>2. \A u \in Threads : pc[u] # "p_commit"
      BY <1>2, <1>4 DEF Resting
    <2> QED BY <2>1, <2>2 DEF PatientInv, Agreed
  <1>6. DiskInv'
    BY <1>2 DEF PatientInv, DiskInv, Kept, On
  <1>7. RunRowInv'
    <2>1. \A k \in Tickets : On(k)' = On(k) /\ On(k).attempts \in Nat
      BY <1>2 DEF On, TypeInv, TypeOK, RecordsOK, Disk, RecoveryRecord
    <2>2. \A h \in Launched' : origin'[h].ticket # 0 /\ origin'[h].ticket <= made'
      BY <1>2, <1>3, <1>5 DEF PatientInv, DiskInv, RunRowInv, Launched
    <2>3. ASSUME NEW k \in Tickets
          PROVE  Cardinality(Repairs(k))' <= On(k)'.attempts
      <3>1. CASE k = ticket /\ Repairing(t)
        <4>1. Repairs(k)' = Repairs(k) \cup {g}
          BY <1>3, <3>1 DEF Repairs, Launched
        <4>2. g \notin Repairs(k)
          BY <1>1 DEF Repairs
        <4>3. Cardinality(Repairs(k))' = Cardinality(Repairs(k)) + 1
          BY <4>1, <4>2, RepairsFinite, FS_AddElement
        <4> QED BY <1>5, <2>1, <3>1, <4>3, RepairsFinite DEF Reserved
      <3>2. CASE ~(k = ticket /\ Repairing(t))
        <4>1. Repairs(k)' = Repairs(k)
          BY <1>1, <1>3, <3>2 DEF Repairs, Launched
        <4> QED BY <2>1, <4>1 DEF PatientInv, RunRowInv
      <3> QED BY <3>1, <3>2
    <2>4. RecordedRunsCharged'
      <3> SUFFICES ASSUME NEW h \in Launched', row'[h] # "running"
                   PROVE  Charged(h, disk'.tickets[origin'[h].ticket])
        BY DEF RecordedRunsCharged, Charged
      <3>1. h # g /\ h \in Launched
        BY <1>1, <1>3 DEF Control, Shape
      <3> QED BY <1>2, <1>3, <3>1 DEF PatientInv, RunRowInv, RecordedRunsCharged, Charged, Launched
    <2> QED BY <2>2, <2>3, <2>4 DEF RunRowInv
  <1>8. Agreed'
    <2>1. \A u \in Threads : pc[u] # "p_commit"
      BY <1>2, <1>4 DEF Resting
    <2> QED BY <1>2, <2>1 DEF PatientInv, Agreed, On
  <1>9. Stage(t)' /\ (t \in Runs => Working(t)')
    <2>1. Stage(t)'
      BY <1>2, <1>3, <1>5 DEF Stage, PlanLabels
    <2>2. ASSUME t \in Runs PROVE Working(t)'
      <3>1. Repairing(t) /\ origin[t].ticket = ticket
        BY <1>2, <2>2 DEF PatientInv, WorkInv, Working, Resting, WorkerLabels
      <3>2. t # g
        BY <1>2, <1>3
      <3> QED BY <1>2, <1>3, <1>5, <2>2, <3>1, <3>2 DEF Working, Repairing, WorkerLabels
    <2> QED BY <2>1, <2>2
  <1>10. OneBusy' /\ StageInv' /\ WorkInv'
    BY <1>4, <1>9, OneMoves
  <1>11. \A b \in Runs : b # t => pc'[b] = pc[b]
    BY <1>4 DEF Threads
  <1>12. Followed'
    <2> SUFFICES ASSUME NEW h \in Launched', origin'[h].by # 0
                 PROVE  LET b == origin'[h].by IN
                        /\ b \in Launched' /\ b \notin stopped
                        /\ origin'[h].ticket = origin'[b].ticket /\ pc'[b] \in StayLabels
      BY <1>2 DEF Followed
    <2>1. CASE h = g
      <3>1. t \in Runs /\ origin'[h].by = t
        BY <1>3, <2>1
      <3>2. origin[t].ticket = ticket /\ t # g
        BY <1>2, <1>3, <3>1 DEF PatientInv, WorkInv, Working, Resting
      <3>3. t \in Launched
        BY <1>2, <3>1 DEF Control, Unborn, Launched
      <3>4. t \notin stopped
        BY <1>2 DEF PatientInv, StopInv, StopLabels, WorkerLabels
      <3> QED BY <1>3, <2>1, <3>1, <3>2, <3>3, <3>4 DEF StayLabels
    <2>2. CASE h # g
      <3>1. h \in Launched /\ origin'[h] = origin[h]
        BY <1>3, <2>2 DEF Launched
      <3> DEFINE b == origin[h].by
      <3>2. /\ b \in Launched /\ b \notin stopped
            /\ origin[h].ticket = origin[b].ticket /\ pc[b] \in StayLabels
        BY <3>1 DEF PatientInv, Followed
      <3>3. b \in Runs /\ b # g /\ b # t
        BY <1>1, <1>2, <3>2 DEF Launched, StayLabels
      <3> HIDE DEF b
      <3>4. origin'[h].by = b
        BY <3>1 DEF b
      <3> QED BY <1>3, <1>11, <3>1, <3>2, <3>3, <3>4
    <2> QED BY <2>1, <2>2
  <1>13. StopInv'
    <2> SUFFICES ASSUME NEW h \in stopped
                 PROVE  /\ h \in Launched' /\ pc'[h] \in StopLabels
                        /\ pc'[h] # "done" => rec'.stop # "none"
      BY <1>2 DEF StopInv
    <2>1. h \in Launched /\ pc[h] \in StopLabels /\ (pc[h] # "done" => rec.stop # "none")
      BY DEF PatientInv, StopInv
    <2>2. h # t /\ h \in Runs
      BY <1>2, <2>1 DEF StopLabels, WorkerLabels, Launched
    <2> QED BY <1>2, <1>3, <1>11, <2>1, <2>2
  <1> QED BY <1>6, <1>7, <1>8, <1>10, <1>12, <1>13 DEF PatientInv

LEMMA MarkKeeps ==
  ASSUME TypeInv, Control, PatientInv, NEW t \in Threads, MarkStart(t)
  PROVE  PatientInv'
  <1> DEFINE r == [rec EXCEPT !.started = TRUE, !.status = "running", !.stop = "none"]
  <1>1. /\ pc[t] = "s_mark" /\ pc' = [pc EXCEPT ![t] = "s_spawn"] /\ Keep(r)
        /\ UNCHANGED <<arg, job, ticket, made, plan, run, row, origin, stopped>>
    BY DEF MarkStart, Step, Goto, planVars, outcomeVars, rowVars, ghostVars
  <1>2. /\ r \in RecoveryRecord /\ r.task = rec.task /\ r.attempts = rec.attempts
        /\ r.accounted = rec.accounted /\ r.started
    BY DEF TypeInv, TypeOK, RecordsOK, RecoveryRecord, Statuses, StopReasons
  <1> HIDE DEF r
  <1>3. Touched
    BY <1>1, <1>2, KeepTouches DEF Grown
  <1>4. /\ \A u \in Threads : u # t => pc[u] \in Resting /\ pc'[u] = pc[u]
        /\ pc'[t] = "s_spawn"
    BY <1>1, OthersRest DEF PatientInv, Control, Shape, Resting
  <1>5. plan # 0 /\ plan = ticket /\ rec.task = ticket /\ origin[arg[t]].ticket = ticket
    <2>1. plan # 0 /\ origin[arg[t]].ticket = ticket
      BY <1>1 DEF PatientInv, StageInv, Stage
    <2>2. \A u \in Threads : pc[u] # "p_commit"
      BY <1>1, <1>4 DEF Resting
    <2> QED BY <2>1, <2>2 DEF PatientInv, Agreed
  <1>6. disk' = Saved(disk, r) /\ rec' = r
    BY <1>1 DEF Keep
  <1>7. disk'.tickets[ticket] = r
    BY <1>2, <1>5, <1>6, SavedFields DEF TypeInv, TypeOK, RecordsOK, TicketOK
  <1>8. Stage(t)'
    <2>1. Owned(arg[t])'
      BY <1>1, <1>2, <1>5, <1>6, <1>7 DEF Owned, On
    <2> QED BY <1>1, <1>4, <1>5, <2>1 DEF Stage, PlanLabels
  <1>9. t \in Runs => Working(t)'
    <2>1. t \in Runs => Repairing(t) /\ ticket # 0 /\ origin[t].ticket = ticket
      BY <1>1 DEF PatientInv, WorkInv, Working, Resting, WorkerLabels
    <2> QED BY <1>1, <1>4, <2>1 DEF Working, Repairing, WorkerLabels
  <1>10. \A g \in Runs : pc'[g] \notin WorkerLabels \cup {"w_maybe"}
    <2>1. \A g \in Runs : g \in Threads
      BY DEF Threads
    <2> QED BY <1>4, <2>1 DEF Resting, WorkerLabels
  <1>11. pc[t] \notin StopLabels \cup {"p_commit"} /\ "s_spawn" \in StayLabels
    BY <1>1 DEF StopLabels, WorkerLabels, StayLabels
  <1> QED BY <1>1, <1>3, <1>4, <1>8, <1>9, <1>10, <1>11, OrdinaryStep

LEMMA SpawnKeeps ==
  ASSUME TypeInv, Control, PatientInv, NEW t \in Threads, SpawnStart(t)
  PROVE  PatientInv'
  <1>0. PICK g \in Runs : g = arg[t]
    BY DEF SpawnStart, Control, LaunchedOwner, Spawning
  <1>1. /\ pc[t] = "s_spawn" /\ pc' = [pc EXCEPT ![t] = "s_finish", ![g] = "w_begin"]
        /\ UNCHANGED <<arg, job, ticket, made, plan, cont, run, rec, disk, row, origin, stopped>>
    BY <1>0 DEF SpawnStart, planVars, outcomeVars, rowVars, ghostVars
  <1>2. pc[g] = "none" /\ g # t /\ g \in Threads
    BY <1>0, <1>1 DEF Control, LaunchedOwner, Spawning, Threads
  <1>3. Owned(g)
    BY <1>0, <1>1 DEF PatientInv, StageInv, Stage
  <1>4. /\ \A u \in Threads : u # t => pc[u] \in Resting
        /\ \A u \in Threads \ {t, g} : pc'[u] = pc[u]
        /\ pc'[t] = "s_finish" /\ pc'[g] = "w_begin"
    BY <1>1, <1>2, OthersRest DEF PatientInv, Control, Shape, Resting
  <1>5. DiskInv'
    BY <1>1 DEF PatientInv, DiskInv, Kept, On
  <1>6. RunRowInv'
    BY <1>1 DEF PatientInv, RunRowInv, RecordedRunsCharged, Repairs, On, Launched
  <1>7. Agreed'
    <2>1. \A u \in Threads : pc[u] # "p_commit"
      BY <1>1, <1>4 DEF Resting
    <2> QED BY <1>1, <2>1 DEF PatientInv, Agreed, On
  <1>8. Stage(g)' /\ Working(g)'
    <2>1. Stage(g)'
      BY <1>4 DEF Stage, PlanLabels
    <2>2. Owned(g)'
      BY <1>1, <1>3 DEF Owned, On
    <2>3. ticket # 0 /\ origin[g].ticket = ticket
      BY <1>3 DEF Owned
    <2>4. Working(g)'
      BY <1>1, <1>4, <2>2, <2>3 DEF Working, WorkerLabels
    <2> QED BY <2>1, <2>4
  <1>9. OneBusy' /\ StageInv' /\ WorkInv'
    <2>1. \A u \in Threads : u # g => pc'[u] \in Resting
      BY <1>4 DEF Resting
    <2> QED BY <1>2, <1>8, <2>1, OneMoves
  <1>10. Launched' = Launched /\ \A h \in Launched : h \in Threads
    BY <1>1 DEF Launched, Threads
  <1>11. Followed'
    <2>1. \A b \in Launched : pc[b] \in StayLabels => pc'[b] \in StayLabels
      BY <1>2, <1>4, <1>10 DEF StayLabels
    <2> QED BY <1>1, <1>10, <2>1 DEF PatientInv, Followed
  <1>12. StopInv'
    <2>1. \A h \in Launched : pc[h] \in StopLabels => pc'[h] = pc[h]
      BY <1>1, <1>2, <1>4, <1>10 DEF StopLabels, WorkerLabels
    <2> QED BY <1>1, <1>10, <2>1 DEF PatientInv, StopInv
  <1> QED BY <1>5, <1>6, <1>7, <1>9, <1>11, <1>12 DEF PatientInv

-----------------------------------------------------------------------------
(* The repair of the open ticket takes over the record.                     *)

\* What is left to show of a step of a request or repair before its launch.
LEMMA MovesAnyhow ==
  ASSUME Control, PatientInv, NEW x \in Threads, pc[x] \in OnItsWay \cup {"p_commit"},
         NEW l, pc' = [pc EXCEPT ![x] = l], l = Rest(x) \/ l \in OnItsWay \cup {"p_commit"},
         UNCHANGED <<row, origin, stopped>>,
         DiskInv', RunRowInv', Agreed', Stage(x)', x \in Runs => Working(x)'
  PROVE  PatientInv'
  <1>1. /\ pc[x] \notin Resting \cup WorkerLabels \cup StayLabels \cup StopLabels
        /\ pc'[x] = l
    BY DEF OnItsWay, RepairLabels, Resting, WorkerLabels, StayLabels, StopLabels, Control, Shape
  <1>2. \A u \in Threads : u # x => pc[u] \in Resting /\ pc'[u] \in Resting
    BY <1>1, OthersRest DEF PatientInv, Control, Shape
  <1>3. l \notin WorkerLabels \cup {"w_maybe"}
    BY DEF OnItsWay, RepairLabels, WorkerLabels, Rest
  <1>4. \A g \in Runs : pc'[g] \notin WorkerLabels \cup {"w_maybe"}
    <2>1. \A g \in Runs : g \in Threads
      BY DEF Threads
    <2> QED BY <1>1, <1>2, <1>3, <2>1 DEF Resting, WorkerLabels
  <1>5. Followed' /\ StopInv'
    <2>1. Launched' = Launched
      BY DEF Launched
    <2> QED BY <1>1, <1>4, <2>1, PastKeeps DEF PatientInv
  <1>6. OneBusy' /\ StageInv' /\ WorkInv'
    BY <1>2, OneMoves
  <1> QED BY <1>5, <1>6 DEF PatientInv

\* Record s is saved, and the record in memory is covered by no less.
LEMMA SaveStep ==
  ASSUME TypeInv, DiskInv, RunRowInv, UNCHANGED <<ticket, made, row, origin>>,
         NEW s \in RecoveryRecord, Kept(s), disk' = Saved(disk, s),
         rec' \in RecoveryRecord, Sound(rec'), rec'.task <= made,
         rec'.task # 0 => Covers(rec', IF rec'.task = s.task THEN s ELSE On(rec'.task))
  PROVE  /\ DiskInv' /\ RunRowInv' /\ disk'.saved = disk.saved
         /\ \A k \in Tickets : /\ k = s.task => On(k)' = s
                               /\ k # s.task => On(k)' = On(k)
  <1>1. /\ disk \in Disk /\ made \in Nat
        /\ s.task \in Tickets \cup {0} /\ rec'.task \in Tickets \cup {0}
    BY DEF TypeInv, TypeOK, RecordsOK, TicketOK, RecoveryRecord
  <1>2. /\ disk' \in Disk /\ disk'.project = s /\ disk'.ticket = disk.ticket
        /\ disk'.saved = disk.saved
    BY <1>1, SavedFields
  <1>3. \A k \in Tickets :
          /\ Sound(On(k)') /\ On(k)'.task = k /\ Covers(On(k)', On(k))
          /\ k > made => ~On(k)'.started
          /\ k = s.task => On(k)' = s
          /\ k # s.task => On(k)' = On(k)
    BY <1>1, SaveCovers DEF On, Kept
  <1>4. Covers(s, s)
    BY DEF Covers, RecoveryRecord
  <1>5. Kept(rec)'
    <2>1. rec'.task # 0 => Covers(rec', disk'.tickets[rec'.task])
      BY <1>1, <1>3 DEF On
    <2> QED BY <1>1, <2>1 DEF Kept, On
  <1>6. Kept(disk.project)'
    <2>1. s.task # 0 => Covers(s, On(s.task)')
      BY <1>1, <1>3, <1>4
    <2> QED BY <1>2, <2>1 DEF Kept, On
  <1>7. DiskInv'
    BY <1>2, <1>3, <1>5, <1>6 DEF DiskInv
  <1>8. RunRowInv'
    BY <1>1, <1>2, <1>3, RowsFollow
  <1> QED BY <1>2, <1>3, <1>7, <1>8

LEMMA CheckRepairKeeps ==
  ASSUME TypeInv, Control, PatientInv, NEW t \in Threads, CheckRepair(t)
  PROVE  PatientInv'
  <1>1. /\ UNCHANGED <<ticket, made, plan, run, row, origin, stopped>>
        /\ pc[t] \in OnItsWay /\ rec \in RecoveryRecord
    BY DEF CheckRepair, planVars, rowVars, ghostVars, outcomeVars, OnItsWay, RepairLabels,
           TypeInv, TypeOK, RecordsOK
  <1>2. \/ Leave(t) /\ \/ UNCHANGED <<rec, disk>>
                       \/ Keep([rec EXCEPT !.status = "ready"])
                       \/ \E reason \in StopReasons : StopWith(rec, reason)
        \/ Step(t, "r_record") /\ UNCHANGED <<rec, disk>>
    BY DEF CheckRepair, StopReasons
  <1>3. Touched
    <2>1. CASE UNCHANGED <<rec, disk>>
      BY <2>1, UntouchedIsTouched
    <2>2. CASE Keep([rec EXCEPT !.status = "ready"])
      BY <1>1, <2>2, StatusType, StatusFields, SameIsGrown, KeepTouches DEF Statuses
    <2> QED BY <1>2, <2>1, <2>2, StopTouches
  <1>4. CASE Leave(t)
    BY <1>1, <1>3, <1>4, MovesOn DEF Leave, Goto
  <1>5. CASE Step(t, "r_record")
    <2>1. pc' = [pc EXCEPT ![t] = "r_record"] /\ job'[t] = job[t] /\ pc'[t] = "r_record"
      BY <1>5 DEF Step, Goto, Control, Shape
    <2>2. Stage(t)'
      BY <2>1 DEF Stage, PlanLabels
    <2> QED BY <1>1, <1>3, <2>1, <2>2, MovesOn DEF OnItsWay, RepairLabels
  <1> QED BY <1>2, <1>4, <1>5

LEMMA RecordKeeps ==
  ASSUME TypeInv, Control, PatientInv, NEW t \in Threads, RecordRepair(t)
  PROVE  PatientInv'
  <1> DEFINE acc == IF run = 0 THEN rec ELSE Account(rec, <<"codex", run>>)
             mine == [acc EXCEPT !.task = ticket]
             noted == RecordFailure(mine)
  <1>1. /\ UNCHANGED <<ticket, made, plan, run, row, origin, stopped>>
        /\ pc[t] = "r_record" /\ rec \in RecoveryRecord /\ ticket \in Tickets \cup {0}
        /\ made \in Nat /\ run \in Runs \cup {0} /\ rec.attempts \in Nat
    BY DEF RecordRepair, planVars, rowVars, ghostVars, outcomeVars, TypeInv, TypeOK, RecordsOK,
           TicketOK, RecoveryRecord
  <1>2. \A u \in Threads : u # t => pc[u] \in Resting /\ pc[u] # "p_commit"
    BY <1>1, OthersRest DEF PatientInv, Resting
  <1>3. /\ ticket # 0 => rec.task = ticket \/ ~On(ticket).started
        /\ plan # 0 => plan = ticket /\ rec.task = ticket
        /\ run # 0 => rec.started
    BY <1>1, <1>2 DEF PatientInv, Agreed
  <1>4. /\ acc \in RecoveryRecord /\ acc.task = rec.task /\ acc.attempts = rec.attempts
        /\ acc.started = rec.started /\ rec.accounted \subseteq acc.accounted
        /\ run = 0 => acc = rec
    BY <1>1, AccountType, AccountFields DEF RunIds
  <1>5. Grown(rec, acc)
    BY <1>3, <1>4 DEF Grown
  <1>6. \A r \in RecoveryRecord : SameKey(acc, r) => Grown(rec, r)
    BY <1>5 DEF SameKey, Grown
  <1>7. /\ mine \in RecoveryRecord /\ noted \in RecoveryRecord /\ mine.task = ticket
        /\ mine.attempts = rec.attempts /\ mine.started = rec.started
        /\ mine.accounted = acc.accounted /\ SameKey(mine, noted)
    <2>1. mine \in RecoveryRecord
      BY <1>1, <1>4, TaskType
    <2>2. /\ mine.task = ticket /\ mine.attempts = rec.attempts /\ mine.started = rec.started
          /\ mine.accounted = acc.accounted
      <3> HIDE DEF acc
      <3> QED BY <1>4 DEF RecoveryRecord
    <2> HIDE DEF mine
    <2>3. noted \in RecoveryRecord
      BY <2>1, RecordFailureType
    <2>4. SameKey(mine, noted)
      BY <2>1 DEF RecordFailure, SameKey, RecoveryRecord
    <2> QED BY <2>1, <2>2, <2>3, <2>4
  <1>8. \/ \E reason \in StopReasons : StopWith(acc, reason) /\ Leave(t)
        \/ /\ ~OutOfAttempts(acc)
           /\ \/ rec' = mine /\ disk' = (IF run = 0 THEN disk ELSE Saved(disk, acc))
                 /\ Step(t, "r_reserve")
              \/ Keep(noted) /\ Step(t, "r_reserve")
              \/ StopWith(noted, "blocked") /\ Leave(t)
    BY DEF RecordRepair, StopReasons
  <1> HIDE DEF acc, mine, noted
  <1>9. ASSUME NEW reason \in StopReasons, StopWith(acc, reason), Leave(t)
        PROVE  PatientInv'
    <2>1. Touched
      BY <1>4, <1>6, <1>9, StopType, StopFields, KeepTouches DEF StopWith
    <2> QED BY <1>1, <1>9, <2>1, MovesOn DEF Leave, Goto, OnItsWay, RepairLabels
  \* From here on the record names the open ticket.
  <1>10. ASSUME NEW r \in RecoveryRecord, SameKey(mine, r), rec' = r,
                \/ disk' = disk /\ run = 0
                \/ disk' = Saved(disk, acc)
                \/ disk' = Saved(disk, r)
         PROVE  /\ DiskInv' /\ RunRowInv' /\ disk'.saved = disk.saved
                /\ Agreed' \/ \E u \in Threads : pc'[u] = "p_commit"
    <2>1. /\ r.task = ticket /\ r.attempts = rec.attempts /\ r.started = rec.started
          /\ r.accounted = acc.accounted
      BY <1>7, <1>10 DEF SameKey
    <2>2. Kept(rec) /\ ticket <= made
          /\ (ticket # 0 => Sound(On(ticket)) /\ On(ticket) \in RecoveryRecord)
      BY <1>1 DEF PatientInv, DiskInv, TypeInv, TypeOK, RecordsOK, Disk, On
    <2>3. Sound(r) /\ Kept(acc)
      BY <1>3, <1>4, <2>1, <2>2 DEF Kept, Sound, Covers
    <2>4. ticket # 0 => Covers(r, On(ticket))
      <3>1. CASE rec.task = ticket
        BY <1>4, <2>1, <2>2, <3>1 DEF Kept, Covers
      <3>2. CASE ticket # 0 /\ ~On(ticket).started
        BY <1>1, <2>1, <2>2, <3>2 DEF Sound, Covers
      <3> QED BY <1>3, <3>1, <3>2
    <2>5. Kept(r) /\ Covers(r, r) /\ (ticket = acc.task => Covers(r, acc))
      BY <1>1, <1>4, <2>1, <2>2, <2>3, <2>4 DEF Kept, Covers
    <2>6. /\ DiskInv' /\ RunRowInv' /\ disk'.saved = disk.saved
          /\ \A k \in Tickets : k # ticket /\ k # rec.task => On(k)' = On(k)
          /\ rec'.task = ticket
      <3>1. CASE disk' = disk /\ run = 0
        <4>1. \A k \in Tickets : On(k)' = On(k)
          BY <3>1 DEF On
        <4>2. Kept(rec)'
          BY <1>1, <1>10, <2>1, <2>2, <2>3, <2>4, <4>1 DEF Kept, On
        <4>3. Kept(disk.project)'
          BY <1>1, <3>1 DEF Kept, On, PatientInv, DiskInv
        <4>4. DiskInv'
          BY <1>1, <3>1, <4>1, <4>2, <4>3 DEF PatientInv, DiskInv
        <4>5. disk' \in Disk /\ \A k \in Tickets : Covers(On(k)', On(k))
          BY <3>1, <4>1 DEF TypeInv, TypeOK, RecordsOK, Disk, On, Covers, RecoveryRecord
        <4>6. RunRowInv'
          BY <1>1, <4>5, RowsFollow DEF PatientInv
        <4> QED BY <1>10, <2>1, <3>1, <4>1, <4>4, <4>6
      <3>2. CASE disk' = Saved(disk, acc)
        BY <1>1, <1>4, <1>10, <2>1, <2>2, <2>3, <2>4, <2>5, <3>2, SaveStep DEF PatientInv
      <3>3. CASE disk' = Saved(disk, r)
        BY <1>1, <1>10, <2>1, <2>2, <2>3, <2>5, <3>3, SaveStep DEF PatientInv
      <3> QED BY <1>10, <3>1, <3>2, <3>3
    <2>7. Agreed' \/ \E u \in Threads : pc'[u] = "p_commit"
      BY <1>1, <1>3, <1>10, <2>1, <2>6 DEF Agreed
    <2> QED BY <2>6, <2>7
  <1>11. ASSUME NEW r \in RecoveryRecord, SameKey(mine, r), rec' = r,
                \/ disk' = disk /\ run = 0
                \/ disk' = Saved(disk, acc)
                \/ disk' = Saved(disk, r),
                NEW l, pc' = [pc EXCEPT ![t] = l],
                l = Rest(t) \/ (l = "r_reserve" /\ ~OutOfAttempts(acc) /\ job' = job)
         PROVE  PatientInv'
    <2>1. \A u \in Threads : pc'[u] # "p_commit"
      BY <1>1, <1>2, <1>11 DEF Control, Shape, Rest
    <2>2. DiskInv' /\ RunRowInv' /\ Agreed'
      BY <1>10, <1>11, <2>1
    <2>3. pc'[t] = l /\ r.task = ticket /\ r.attempts = rec.attempts
      BY <1>7, <1>11 DEF Control, Shape, SameKey
    <2>4. Stage(t)' /\ (t \in Runs => Working(t)')
      <3>1. CASE l = Rest(t)
        BY <2>3, <3>1, RestingStage DEF Rest, Resting
      <3>2. CASE l = "r_reserve" /\ ~OutOfAttempts(acc) /\ job' = job
        <4>1. Stage(t)'
          BY <1>1, <1>4, <1>11, <2>3, <3>2, RecoveryAssumption DEF Stage, PlanLabels, OutOfAttempts
        <4>2. t \in Runs => Repairing(t) /\ ticket # 0 /\ origin[t].ticket = ticket
          BY <1>1 DEF PatientInv, WorkInv, Working, Resting, WorkerLabels
        <4>3. t \in Runs => Working(t)'
          BY <1>1, <2>3, <3>2, <4>2 DEF Working, WorkerLabels, Repairing
        <4> QED BY <4>1, <4>3
      <3> QED BY <1>11, <3>1, <3>2
    <2>5. pc[t] \in OnItsWay /\ "r_reserve" \in OnItsWay
      BY <1>1 DEF OnItsWay, RepairLabels
    <2> QED BY <1>1, <1>11, <2>2, <2>4, <2>5, MovesAnyhow
  <1>12. SameKey(mine, mine) /\ SameKey(mine, Stop(noted, "blocked"))
         /\ Stop(noted, "blocked") \in RecoveryRecord
    BY <1>7, StopFields, StopType DEF SameKey, StopReasons
  <1>13. CASE /\ ~OutOfAttempts(acc)
              /\ rec' = mine /\ disk' = (IF run = 0 THEN disk ELSE Saved(disk, acc))
              /\ Step(t, "r_reserve")
    BY <1>7, <1>11, <1>12, <1>13 DEF Step, Goto
  <1>14. CASE ~OutOfAttempts(acc) /\ Keep(noted) /\ Step(t, "r_reserve")
    BY <1>7, <1>11, <1>14 DEF Step, Goto, Keep
  <1>15. CASE StopWith(noted, "blocked") /\ Leave(t)
    BY <1>11, <1>12, <1>15 DEF Leave, Goto, Keep, StopWith
  <1> QED BY <1>8, <1>9, <1>13, <1>14, <1>15

LEMMA ReserveKeeps ==
  ASSUME TypeInv, Control, PatientInv, NEW t \in Threads, ReserveRepair(t)
  PROVE  PatientInv'
  <1>1. /\ UNCHANGED <<ticket, made, plan, run, row, origin, stopped>>
        /\ pc[t] = "r_reserve" /\ rec \in RecoveryRecord /\ ticket \in Tickets \cup {0}
        /\ made \in Nat /\ rec.attempts \in Nat /\ pc[t] \in OnItsWay
    BY DEF ReserveRepair, rowVars, ghostVars, outcomeVars, TypeInv, TypeOK, RecordsOK,
           TicketOK, RecoveryRecord, OnItsWay, RepairLabels
  <1>2. CASE Leave(t) /\ UNCHANGED <<rec, disk>>
    BY <1>1, <1>2, UntouchedIsTouched, MovesOn DEF Leave, Goto
  <1>3. CASE /\ cont' = TRUE /\ Keep(Begin(rec)) /\ arg' = [arg EXCEPT ![t] = ticket]
             /\ pc' = [pc EXCEPT ![t] = "p_check"] /\ UNCHANGED job
    <2>1. \A u \in Threads : u # t => pc[u] \in Resting /\ pc[u] # "p_commit"
      BY <1>1, OthersRest DEF PatientInv, Resting
    <2>2. /\ plan # 0 => plan = ticket /\ rec.task = ticket
          /\ rec.attempts < MaxAttempts /\ rec.task = ticket
          /\ Kept(rec)
      BY <1>1, <2>1 DEF PatientInv, Agreed, StageInv, Stage, DiskInv
    <2> DEFINE r == Begin(rec)
    <2>3. /\ r \in RecoveryRecord /\ r.task = ticket /\ r.attempts = rec.attempts + 1
          /\ r.started /\ r.accounted = rec.accounted
      <3>1. r \in RecoveryRecord
        BY <1>1, BeginType
      <3>2. r.task = rec.task /\ r.attempts = rec.attempts + 1 /\ r.started
            /\ r.accounted = rec.accounted
        BY <1>1 DEF Begin, RecoveryRecord
      <3> QED BY <2>2, <3>1, <3>2
    <2> HIDE DEF r
    <2>4. rec' = r /\ disk' = Saved(disk, r)
      BY <1>3 DEF Keep, r
    <2>5. Sound(r) /\ Kept(r) /\ Covers(r, r)
      <3>1. Sound(r)
        BY <1>1, <2>2, <2>3, RecoveryAssumption DEF Sound
      <3>2. r.task <= made /\ Covers(r, r)
        BY <2>2, <2>3 DEF Kept, Covers, RecoveryRecord
      <3>3. ticket # 0 => On(ticket).attempts \in Nat
        BY <1>1 DEF TypeInv, TypeOK, RecordsOK, Disk, On, RecoveryRecord
      <3>4. ticket # 0 => Covers(r, On(ticket))
        BY <1>1, <2>2, <2>3, <3>3 DEF Kept, Covers
      <3> QED BY <2>3, <3>1, <3>2, <3>4 DEF Kept
    <2>6. DiskInv' /\ RunRowInv' /\ \A k \in Tickets : k # ticket => On(k)' = On(k)
      BY <1>1, <2>3, <2>4, <2>5, SaveStep DEF PatientInv, Kept
    <2>7. Agreed'
      BY <1>1, <2>2, <2>3, <2>4 DEF Agreed
    <2>8. /\ pc'[t] = "p_check" /\ arg'[t] = ticket /\ job'[t] = job[t]
      BY <1>3 DEF Control, Shape
    <2>9. Cardinality(Repairs(ticket)) < rec.attempts + 1
      <3>1. CASE ticket = 0
        <4>1. Repairs(0) = {}
          BY DEF PatientInv, RunRowInv, Repairs
        <4> QED BY <1>1, <3>1, <4>1, FS_EmptySet
      <3>2. CASE ticket # 0
        <4>1. Cardinality(Repairs(ticket)) <= On(ticket).attempts /\ On(ticket).attempts \in Nat
          BY <1>1, <3>2 DEF PatientInv, RunRowInv, TypeInv, TypeOK, RecordsOK, Disk, On,
                            RecoveryRecord
        <4>2. On(ticket).attempts <= rec.attempts
          BY <2>2, <3>2 DEF Kept, Covers
        <4> QED BY <1>1, <4>1, <4>2, RepairsFinite
      <3> QED BY <3>1, <3>2
    <2>10. Repairs(ticket)' = Repairs(ticket)
      BY <1>1 DEF Repairs, Launched
    <2>11. Stage(t)'
      BY <1>1, <1>3, <2>3, <2>4, <2>8, <2>9, <2>10 DEF Stage, PlanLabels
    <2>12. t \in Runs => Working(t)'
      <3>1. t \in Runs => Repairing(t) /\ ticket # 0 /\ origin[t].ticket = ticket
        BY <1>1 DEF PatientInv, WorkInv, Working, Resting, WorkerLabels
      <3> QED BY <1>1, <2>8, <3>1 DEF Working, WorkerLabels, Repairing
    <2> QED BY <1>1, <1>3, <2>6, <2>7, <2>11, <2>12, MovesAnyhow DEF OnItsWay
  <1> QED BY <1>2, <1>3 DEF ReserveRepair, Goto

-----------------------------------------------------------------------------
(* Steps of threads that rest: a stop arrives, a start is over, time passes. *)

LEMMA RestKeeps ==
  ASSUME TypeInv, Control, PatientInv,
         \A u \in Threads : \/ pc'[u] = pc[u] /\ arg'[u] = arg[u] /\ job'[u] = job[u]
                            \/ pc[u] \in Resting /\ pc'[u] \in Resting,
         Touched, UNCHANGED <<ticket, made, plan, cont, run, row, origin>>,
         Followed', StopInv'
  PROVE  PatientInv'
  <1>1. DiskInv' /\ RunRowInv'
    BY TouchedKeeps DEF PatientInv
  <1>2. Agreed'
    BY AgreedKeeps DEF PatientInv, Resting
  <1>3. OneBusy'
    BY DEF PatientInv, OneBusy
  <1>4. StageInv'
    BY StageKeeps, RestingStage DEF PatientInv, StageInv
  <1>5. WorkInv'
    BY WorkingKeeps, RestingStage DEF PatientInv, WorkInv, Threads
  <1> QED BY <1>1, <1>2, <1>3, <1>4, <1>5 DEF PatientInv

\* One thread goes from rest to rest, and no stop is taken back.
LEMMA RestMoves ==
  ASSUME TypeInv, Control, PatientInv, NEW x \in Threads, pc[x] \in Resting \ {"done"},
         NEW l \in Resting, pc' = [pc EXCEPT ![x] = l],
         x \in Runs => l = "done",
         \A u \in Threads : u # x => arg'[u] = arg[u] /\ job'[u] = job[u],
         Touched, UNCHANGED <<ticket, made, plan, cont, run, row, origin, stopped>>,
         rec'.stop = rec.stop
  PROVE  PatientInv'
  <1>1. \A u \in Threads : \/ pc'[u] = pc[u] /\ arg'[u] = arg[u] /\ job'[u] = job[u]
                           \/ pc[u] \in Resting /\ pc'[u] \in Resting
    BY DEF Control, Shape
  <1>2. Launched' = Launched
    BY DEF Launched
  <1>3. pc[x] \notin StopLabels
    BY DEF Resting, StopLabels, WorkerLabels
  <1>4. x \in Runs => l \in StayLabels
    BY DEF StayLabels
  <1>5. Followed' /\ StopInv'
    BY <1>2, <1>3, <1>4, PastKeeps DEF PatientInv
  <1> QED BY <1>1, <1>5, RestKeeps

LEMMA RestingSteps ==
  ASSUME TypeInv, Control, PatientInv
  PROVE  /\ \A t \in Threads : FinishStart(t) \/ CancelSignal(t) => PatientInv'
         /\ \A t \in Requests : RequestCancel(t) => PatientInv'
         /\ DeadlineFires \/ TimePasses => PatientInv'
  <1>1. ASSUME NEW t \in Threads, FinishStart(t) PROVE PatientInv'
    <2>1. /\ pc[t] = "s_finish" /\ pc' = [pc EXCEPT ![t] = Rest(t)]
          /\ \A u \in Threads : u # t => arg'[u] = arg[u] /\ job'[u] = job[u]
          /\ UNCHANGED <<rec, disk, ticket, made, plan, cont, run, row, origin, stopped>>
      BY <1>1 DEF FinishStart, Leave, Goto, planVars, outcomeVars, rowVars, ghostVars, TypeInv,
                  TypeOK, ThreadsOK
    <2>2. Rest(t) \in Resting /\ (t \in Runs => Rest(t) = "done")
      BY DEF Rest, Resting
    <2> QED BY <2>1, <2>2, UntouchedIsTouched, RestMoves DEF Resting
  <1>2. ASSUME NEW t \in Threads, CancelSignal(t) PROVE PatientInv'
    <2>1. /\ pc[t] = "c_signal" /\ pc' = [pc EXCEPT ![t] = Rest(t)]
          /\ \A u \in Threads : u # t => arg'[u] = arg[u] /\ job'[u] = job[u]
          /\ UNCHANGED <<rec, disk, ticket, made, plan, cont, run, row, origin, stopped>>
      BY <1>2 DEF CancelSignal, Leave, Goto, planVars, outcomeVars, rowVars, TypeInv,
                  TypeOK, ThreadsOK
    <2>2. Rest(t) \in Resting /\ (t \in Runs => Rest(t) = "done")
      BY DEF Rest, Resting
    <2> QED BY <2>1, <2>2, UntouchedIsTouched, RestMoves DEF Resting
  <1>3. ASSUME NEW t \in Requests, RequestCancel(t) PROVE PatientInv'
    <2>1. /\ pc[t] = "idle" /\ pc' = [pc EXCEPT ![t] = "c_stop"] /\ t \in Threads /\ t \notin Runs
          /\ \A u \in Threads : u # t => arg'[u] = arg[u] /\ job'[u] = job[u]
          /\ UNCHANGED <<rec, disk, ticket, made, plan, cont, run, row, origin, stopped>>
      BY <1>3, GuidedAssumption
         DEF RequestCancel, Issue, Goto, planVars, outcomeVars, rowVars, ghostVars, TypeInv,
             TypeOK, ThreadsOK, Threads
    <2> QED BY <2>1, UntouchedIsTouched, RestMoves DEF Resting
  <1>4. ASSUME DeadlineFires PROVE PatientInv'
    <2>1. /\ pc[Clock] = "idle" /\ pc' = [pc EXCEPT ![Clock] = "c_stop"]
          /\ Clock \in Threads /\ Clock \notin Runs
          /\ \A u \in Threads : u # Clock => arg'[u] = arg[u] /\ job'[u] = job[u]
          /\ UNCHANGED <<rec, disk, ticket, made, plan, cont, run, row, origin, stopped>>
      BY <1>4, GuidedAssumption
         DEF DeadlineFires, Goto, planVars, outcomeVars, rowVars, ghostVars, TypeInv,
             TypeOK, ThreadsOK, Threads
    <2> QED BY <2>1, UntouchedIsTouched, RestMoves DEF Resting
  <1>5. ASSUME TimePasses PROVE PatientInv'
    <2>1. UNCHANGED <<pc, arg, job, disk, ticket, made, plan, cont, run, row, origin, stopped>>
      BY <1>5 DEF TimePasses, threadVars, planVars, outcomeVars, rowVars, ghostVars
    <2>2. rec' \in RecoveryRecord /\ SameKey(rec, rec') /\ rec'.stop = rec.stop
      BY <1>5 DEF TimePasses, SameKey, TypeInv, TypeOK, RecordsOK, RecoveryRecord
    <2>3. Touched
      BY <2>1, <2>2, SameIsGrown DEF Touched
    <2>4. pc' = [pc EXCEPT ![Clock] = pc[Clock]] /\ Clock \in Threads /\ Clock \notin Runs
      BY <2>1, GuidedAssumption DEF Control, Shape, Threads
    <2>5. Followed' /\ StopInv'
      <3>1. Launched' = Launched
        BY <2>1 DEF Launched
      <3> QED BY <2>1, <2>2, <2>4, <3>1, PastKeeps DEF PatientInv
    <2> QED BY <2>1, <2>3, <2>5, RestKeeps
  <1> QED BY <1>1, <1>2, <1>3, <1>4, <1>5

LEMMA CancelStopKeeps ==
  ASSUME TypeInv, Control, PatientInv, NEW t \in Threads, CancelStop(t)
  PROVE  PatientInv'
  <1>1. PICK g \in Runs : g = arg[t]
    BY DEF CancelStop, TypeInv, Carries
  <1>2. PICK reason \in StopReasons \ {"none"} : StopWith(rec, reason)
    BY DEF CancelStop, StopReasons
  <1>3. /\ pc[t] = "c_stop" /\ pc' = [pc EXCEPT ![t] = "c_signal"]
        /\ UNCHANGED <<arg, job, ticket, made, plan, cont, run, row, origin>>
        /\ stopped' = IF pc[g] \in WorkerLabels THEN stopped \cup {g} ELSE stopped
    BY <1>1 DEF CancelStop, Step, Goto, planVars, outcomeVars, rowVars
  <1>4. Touched
    BY <1>2, StopTouches
  <1>5. rec'.stop # "none"
    BY <1>2, StopFields DEF StopWith, Keep, TypeInv, TypeOK, RecordsOK
  <1>6. /\ \A u \in Threads : \/ pc'[u] = pc[u] /\ arg'[u] = arg[u] /\ job'[u] = job[u]
                              \/ pc[u] \in Resting /\ pc'[u] \in Resting
        /\ \A u \in Threads : u # t => pc'[u] = pc[u]
    BY <1>3 DEF Control, Shape, Resting
  <1>7. Launched' = Launched /\ \A b \in Launched : b \in Runs /\ b \in Threads
    BY <1>3 DEF Launched, Threads
  <1>8. \A b \in Launched : pc[b] \in StayLabels \cup StopLabels => pc'[b] = pc[b]
    BY <1>3, <1>6, <1>7 DEF StayLabels, StopLabels, WorkerLabels
  <1>9. \A b \in Launched : pc[b] \in StayLabels => b \notin stopped' \ stopped
    BY <1>3 DEF StayLabels, WorkerLabels
  <1>10. Followed'
    BY <1>3, <1>7, <1>8, <1>9 DEF PatientInv, Followed
  <1>11. StopInv'
    <2>1. pc[g] \in WorkerLabels => g \in Launched /\ pc[g] \in StopLabels
      BY DEF Control, Unborn, Launched, WorkerLabels, StopLabels
    <2> QED BY <1>3, <1>5, <1>7, <1>8, <2>1 DEF PatientInv, StopInv
  <1> QED BY <1>3, <1>4, <1>6, <1>10, <1>11, RestKeeps

-----------------------------------------------------------------------------
(* What a patient user asks for.                                            *)

LEMMA RequestBegins ==
  ASSUME TypeInv, Control, PatientInv, Patient, NEW t \in Requests,
         RequestPlan(t) \/ RequestStart(t) \/ RequestRepair(t)
  PROVE  PatientInv'
  <1>1. /\ t \in Threads /\ t \notin Runs /\ Settled /\ pc[t] = "idle"
        /\ UNCHANGED <<rec, disk, ticket, made, plan, run, row, origin, stopped>>
    BY GuidedAssumption DEF Threads, RequestPlan, RequestStart, RequestRepair, Issue, planVars,
                            outcomeVars, rowVars, ghostVars
  <1>2. PICK l \in {"p_check", "s_begin", "r_check"} :
          /\ pc' = [pc EXCEPT ![t] = l]
          /\ l = "p_check" => arg'[t] \in {0, ticket}
          /\ l # "r_check" => job'[t] # "repair"
    <2>1. CASE RequestPlan(t)
      BY <1>1, <2>1 DEF RequestPlan, Issue, Goto, TypeInv, TypeOK, ThreadsOK
    <2>2. CASE RequestStart(t)
      BY <1>1, <2>2 DEF RequestStart, Issue, Goto, TypeInv, TypeOK, ThreadsOK
    <2>3. CASE RequestRepair(t)
      BY <1>1, <2>3 DEF RequestRepair, Issue, Goto
    <2> QED BY <2>1, <2>2, <2>3
  <1>3. pc'[t] = l
    BY <1>1, <1>2 DEF Control, Shape
  <1>4. Stage(t)'
    BY <1>1, <1>2, <1>3 DEF Stage, PlanLabels, Repairing
  <1>5. \A u \in Threads : u # t => pc[u] \in Resting
    BY <1>1 DEF Settled, Resting
  <1>6. pc[t] # "p_commit" /\ pc[t] \notin StopLabels
    BY <1>1 DEF StopLabels, WorkerLabels
  <1> QED BY <1>1, <1>2, <1>4, <1>5, <1>6, UntouchedIsTouched, OrdinaryStep

\* Nothing moves while everyone rests.
LEMMA SettledKeeps ==
  ASSUME PatientInv, \A u \in Threads : pc[u] \in {"idle", "none", "done"},
         UNCHANGED <<pc, row, origin, stopped>>, DiskInv', RunRowInv', Agreed'
  PROVE  PatientInv'
  <1>1. \A u \in Threads : pc'[u] \in Resting
    BY DEF Resting
  <1>2. OneBusy' /\ StageInv' /\ WorkInv'
    BY <1>1, RestingStage DEF OneBusy, StageInv, WorkInv, Threads
  <1>3. Launched' = Launched /\ \A h \in Launched : h \in Threads
    BY DEF Launched, Threads
  <1>4. Followed'
    BY <1>3 DEF PatientInv, Followed
  <1>5. StopInv'
    <2>1. \A h \in stopped : h \in Launched /\ pc[h] \in StopLabels
      BY DEF PatientInv, StopInv
    <2>2. \A h \in stopped : pc[h] = "done"
      BY <1>3, <2>1 DEF StopLabels, WorkerLabels
    <2> QED BY <1>3, <2>1, <2>2 DEF StopInv
  <1> QED BY <1>2, <1>4, <1>5 DEF PatientInv

LEMMA UnmovedKeeps ==
  ASSUME TypeInv, Control, PatientInv,
         UNCHANGED <<pc, arg, job, rec, disk, ticket, made, plan, cont, run, row, origin, stopped>>
  PROVE  PatientInv'
  <1>1. Launched' = Launched
    BY DEF Launched
  <1>2. Followed' /\ StopInv'
    BY <1>1 DEF PatientInv, Followed, StopInv
  <1> QED BY <1>2, UntouchedIsTouched, RestKeeps

LEMMA FreshKept ==
  ASSUME TypeInv
  PROVE  Fresh(0) \in RecoveryRecord /\ Kept(Fresh(0))
  <1>1. Fresh(0) \in RecoveryRecord /\ made \in Nat
    BY FreshType DEF TypeInv, TypeOK, TicketOK
  <1> QED BY <1>1, RecoveryAssumption DEF Fresh, Kept, Sound

LEMMA TicketRequests ==
  ASSUME TypeInv, Control, PatientInv, Patient, NEW t \in Requests,
         NewTicket(t) \/ ResumeTicket(t) \/ SetRoute(t)
  PROVE  PatientInv'
  <1>1. /\ \A u \in Threads : pc[u] \in {"idle", "none", "done"}
        /\ UNCHANGED <<pc, arg, job, made, row, origin, stopped>>
    BY DEF NewTicket, ResumeTicket, SetRoute, Settled, planVars, rowVars, ghostVars
  <1>2. CASE SetRoute(t)
    BY <1>1, <1>2, UnmovedKeeps DEF SetRoute, planVars, outcomeVars
  <1>3. CASE NewTicket(t) \/ ResumeTicket(t)
    <2>1. /\ ticket' = 0 /\ plan' = 0 /\ run' = 0 /\ made \in Nat
          /\ disk' \in Disk /\ disk'.tickets = disk.tickets /\ disk'.saved = disk.saved
          /\ disk'.ticket = 0
          /\ rec' \in {rec, Fresh(0)} /\ disk'.project \in {disk.project, Fresh(0)}
      BY <1>3, FreshKept DEF NewTicket, ResumeTicket, TypeInv, TypeOK, RecordsOK, TicketOK, Disk
    <2>2. \A k \in Tickets : On(k)' = On(k) /\ Covers(On(k)', On(k))
      BY <2>1 DEF On, Covers, TypeInv, TypeOK, RecordsOK, Disk, RecoveryRecord
    <2>3. \A r \in RecoveryRecord : Kept(r) => /\ Sound(r) /\ r.task <= made'
                                               /\ r.task # 0 => Covers(r, disk'.tickets[r.task])
      BY <1>1, <2>1 DEF Kept, On
    <2>4. Kept(rec)' /\ Kept(disk.project)'
      <3>1. /\ Kept(rec) /\ Kept(disk.project) /\ Kept(Fresh(0))
            /\ {rec, disk.project, Fresh(0)} \subseteq RecoveryRecord
        BY FreshKept DEF PatientInv, DiskInv, TypeInv, TypeOK, RecordsOK, Disk
      <3>2. Kept(rec)'
        BY <2>1, <2>3, <3>1 DEF Kept, On
      <3>3. Kept(disk.project)'
        BY <2>1, <2>3, <3>1 DEF Kept, On
      <3> QED BY <3>2, <3>3
    <2>5. DiskInv'
      BY <1>1, <2>1, <2>2, <2>4 DEF PatientInv, DiskInv
    <2>6. RunRowInv'
      BY <1>1, <2>1, <2>2, RowsFollow DEF PatientInv
    <2>7. Agreed'
      BY <2>1 DEF Agreed
    <2> QED BY <1>1, <2>5, <2>6, <2>7, SettledKeeps
  <1> QED BY <1>2, <1>3

-----------------------------------------------------------------------------
(* create_plan()                                                            *)

LEMMA CheckPlanKeeps ==
  ASSUME TypeInv, Control, PatientInv, NEW t \in Threads, CheckPlan(t)
  PROVE  PatientInv'
  <1> DEFINE k == arg[t]
             locked == k # 0 /\ rec.task = k /\ rec.started /\ ~cont
  <1>1. /\ UNCHANGED <<ticket, made, plan, cont, run, row, origin, stopped>>
        /\ pc[t] = "p_check" /\ pc[t] \in OnItsWay /\ rec \in RecoveryRecord
        /\ k \in {0, ticket} /\ ticket \in Tickets \cup {0}
    BY DEF CheckPlan, planVars, rowVars, ghostVars, outcomeVars, OnItsWay, PlanLabels,
           TypeInv, TypeOK, RecordsOK, TicketOK, PatientInv, StageInv, Stage
  <1>2. \/ Raise(t)
        \/ Leave(t) /\ UNCHANGED <<rec, disk>>
        \/ /\ ~locked /\ (k # 0 => k \in disk.saved)
           /\ rec' = (IF cont THEN rec ELSE Fresh(0)) /\ Step(t, "p_commit") /\ UNCHANGED disk
    BY DEF CheckPlan
  <1>3. CASE Raise(t)
    BY <1>1, <1>3, RaiseTouches, MovesOn
  <1>4. CASE Leave(t) /\ UNCHANGED <<rec, disk>>
    BY <1>1, <1>4, UntouchedIsTouched, MovesOn DEF Leave, Goto
  <1>5. CASE /\ ~locked /\ (k # 0 => k \in disk.saved)
             /\ rec' = (IF cont THEN rec ELSE Fresh(0)) /\ Step(t, "p_commit") /\ UNCHANGED disk
    <2>1. /\ pc' = [pc EXCEPT ![t] = "p_commit"] /\ pc'[t] = "p_commit"
          /\ arg' = arg /\ job' = job
      BY <1>5 DEF Step, Goto, Control, Shape
    <2>2. \A u \in Threads : pc[u] # "p_commit"
      BY <1>1, OthersRest DEF PatientInv, Resting
    <2>3. ticket # 0 => rec.task = ticket \/ ~On(ticket).started
      BY <2>2 DEF PatientInv, Agreed
    <2>4. Repairing(t) => /\ k = ticket /\ rec.task = ticket /\ cont
                          /\ Cardinality(Repairs(ticket)) < rec.attempts
      BY <1>1 DEF PatientInv, StageInv, Stage, PlanLabels
    <2>5. \A j \in Tickets : On(j)' = On(j) /\ Covers(On(j)', On(j))
      BY <1>5 DEF On, Covers, TypeInv, TypeOK, RecordsOK, Disk, RecoveryRecord
    <2>6. DiskInv'
      <3>1. Kept(rec) /\ Kept(disk.project) /\ Kept(Fresh(0))
        BY FreshKept DEF PatientInv, DiskInv
      <3>2. Kept(rec)' /\ Kept(disk.project)'
        BY <1>1, <1>5, <3>1 DEF Kept, On
      <3> QED BY <1>1, <1>5, <2>5, <3>2 DEF PatientInv, DiskInv
    <2>7. RunRowInv'
      BY <1>1, <1>5, <2>5, RowsFollow DEF PatientInv, TypeInv, TypeOK, RecordsOK, TicketOK
    <2>8. Agreed'
      BY <2>1 DEF Agreed
    <2>9. ASSUME NEW j \in Tickets, j = arg[t]
          PROVE  rec'.task = j \/ ~On(j)'.started
      <3>1. j = ticket /\ j # 0 /\ On(j)' = On(j) /\ (rec.task = j \/ ~On(j).started)
        BY <1>1, <2>3, <2>5, <2>9 DEF Tickets
      <3>2. CASE cont
        BY <1>5, <3>1, <3>2
      <3>3. CASE ~cont
        <4>1. rec.task = j => ~rec.started
          BY <1>5, <2>9, <3>1, <3>3
        <4>2. rec.task = j => ~On(j).started
          BY <3>1, <4>1 DEF PatientInv, DiskInv, Kept, Covers
        <4> QED BY <3>1, <4>2
      <3> QED BY <3>2, <3>3
    <2>10. Repairs(ticket)' = Repairs(ticket)
      BY <1>1 DEF Repairs, Launched
    <2>11. Stage(t)'
      <3>1. arg[t] # 0 => arg[t] \in disk'.saved
                          /\ (rec'.task = arg[t] \/ ~disk'.tickets[arg[t]].started)
        BY <1>1, <1>5, <2>9 DEF On
      <3> QED BY <1>1, <1>5, <2>1, <2>4, <2>10, <3>1 DEF Stage, Repairing, On
    <2>12. t \in Runs => Working(t)'
      <3>1. t \in Runs => Repairing(t) /\ ticket # 0 /\ origin[t].ticket = ticket
        BY <1>1 DEF PatientInv, WorkInv, Working, Resting, WorkerLabels
      <3> QED BY <1>1, <2>1, <3>1 DEF Working, WorkerLabels, Repairing
    <2> QED BY <1>1, <2>1, <2>6, <2>7, <2>8, <2>11, <2>12, MovesAnyhow
  <1> QED BY <1>2, <1>3, <1>4, <1>5

\* A ticket may be new: a record is saved, or nothing is.
LEMMA WideSave ==
  ASSUME TypeInv, DiskInv, RunRowInv, UNCHANGED <<row, origin>>,
         made' \in Nat, made <= made', ticket' <= made', disk' \in Disk,
         disk'.ticket \in disk'.saved \cup {0}, \A j \in disk'.saved : j <= made',
         \/ UNCHANGED rec /\ disk'.project = disk.project /\ disk'.tickets = disk.tickets
         \/ /\ rec' \in RecoveryRecord /\ Sound(rec') /\ rec'.task <= made'
            /\ rec'.task # 0 => Covers(rec', On(rec'.task))
            /\ disk'.project = rec' /\ disk'.tickets = Saved(disk, rec').tickets
  PROVE  DiskInv' /\ RunRowInv'
  <1>1. made \in Nat /\ disk \in Disk
        /\ {rec, disk.project} \subseteq RecoveryRecord
        /\ \A j \in Tickets : On(j) \in RecoveryRecord
    BY DEF TypeInv, TypeOK, TicketOK, RecordsOK, Disk, On
  <1>2. \A r \in RecoveryRecord : r.task \in Tickets \cup {0} /\ Covers(r, r)
    BY DEF RecoveryRecord, Covers
  <1>3. CASE UNCHANGED rec /\ disk'.project = disk.project /\ disk'.tickets = disk.tickets
    <2>1. \A j \in Tickets : On(j)' = On(j) /\ Covers(On(j)', On(j))
      BY <1>1, <1>2, <1>3 DEF On
    <2>2. \A r \in RecoveryRecord : Kept(r) => /\ Sound(r) /\ r.task <= made'
                                               /\ r.task # 0 => Covers(r, disk'.tickets[r.task])
      BY <1>1, <1>2, <1>3 DEF Kept, On, Tickets
    <2>3. Kept(rec)' /\ Kept(disk.project)'
      BY <1>1, <1>3, <2>2 DEF Kept, On, DiskInv
    <2>4. \A j \in Tickets : j > made' => j > made
      BY <1>1 DEF Tickets
    <2>5. DiskInv'
      BY <2>1, <2>3, <2>4 DEF DiskInv
    <2> QED BY <2>1, <2>5, RowsFollow
  <1>4. CASE /\ rec' \in RecoveryRecord /\ Sound(rec') /\ rec'.task <= made'
             /\ rec'.task # 0 => Covers(rec', On(rec'.task))
             /\ disk'.project = rec' /\ disk'.tickets = Saved(disk, rec').tickets
    <2>1. \A j \in Tickets :
            /\ Sound(On(j)') /\ On(j)'.task = j /\ Covers(On(j)', On(j))
            /\ j > made' => ~On(j)'.started
            /\ j = rec'.task => On(j)' = rec'
      BY <1>1, <1>4, SaveCovers DEF On
    <2>2. rec'.task # 0 => Covers(rec', disk'.tickets[rec'.task])
      BY <1>2, <1>4, <2>1 DEF On
    <2>3. Kept(rec)' /\ Kept(disk.project)'
      BY <1>4, <2>2 DEF Kept, On
    <2>4. DiskInv'
      BY <2>1, <2>3 DEF DiskInv
    <2> QED BY <2>1, <2>4, RowsFollow
  <1> QED BY <1>3, <1>4

\* The ticket create_plan() works on.
LEMMA PlanTicketFacts ==
  ASSUME TypeInv, Control, PatientInv, NEW t \in Threads, pc[t] = "p_commit",
         NEW k \in Tickets, PlanTicket(t, k)
  PROVE  /\ made' \in Nat /\ made <= made' /\ k <= made'
         /\ rec.task = k \/ ~On(k).started
         /\ Repairing(t) => Cardinality(Repairs(k)) < rec.attempts
         /\ t \in Runs => Repairing(t) /\ k = ticket /\ origin[t].ticket = k
  <1>1. /\ made \in Nat /\ k \in Nat /\ k # 0 /\ ticket <= made /\ rec.attempts \in Nat
    BY DEF TypeInv, TypeOK, TicketOK, Tickets, PatientInv, DiskInv, RecordsOK, RecoveryRecord
  <1>2. /\ arg[t] \in {0, ticket}
        /\ Repairing(t) => arg[t] = ticket /\ Cardinality(Repairs(ticket)) < rec.attempts
        /\ arg[t] # 0 => rec.task = arg[t] \/ ~On(arg[t]).started
    BY DEF PatientInv, StageInv, Stage, PlanLabels
  <1>3. t \in Runs => Repairing(t) /\ ticket # 0 /\ origin[t].ticket = ticket
    BY DEF PatientInv, WorkInv, Working, Resting, WorkerLabels
  <1>4. CASE arg[t] # 0
    <2>1. k = arg[t] /\ made' = made
      BY <1>4 DEF PlanTicket
    <2> QED BY <1>1, <1>2, <1>3, <1>4, <2>1
  <1>5. CASE arg[t] = 0
    <2>1. k = made + 1 /\ made' = k
      BY <1>5 DEF PlanTicket
    <2>2. ~On(k).started
      BY <1>1, <2>1 DEF PatientInv, DiskInv
    <2>3. Repairs(k) = {}
      <3> SUFFICES ASSUME NEW g \in Launched, origin[g].ticket = k PROVE FALSE
        BY DEF Repairs
      <3>1. k <= made
        BY DEF PatientInv, RunRowInv
      <3> QED BY <1>1, <2>1, <3>1
    <2>4. Repairing(t) => Cardinality(Repairs(k)) < rec.attempts
      BY <1>1, <1>2, <2>3, RepairsFinite, FS_EmptySet
    <2>5. t \notin Runs
      BY <1>2, <1>3, <1>5
    <2> QED BY <1>1, <2>1, <2>2, <2>4, <2>5
  <1> QED BY <1>4, <1>5

LEMMA PlanFailsKeeps ==
  ASSUME TypeInv, Control, PatientInv, NEW t \in Threads, PlanFails(t)
  PROVE  PatientInv'
  <1>1. PICK k \in Tickets : PlanTicket(t, k) /\ ticket' = k
    BY DEF PlanFails
  <1>2. /\ pc[t] = "p_commit" /\ pc' = [pc EXCEPT ![t] = Rest(t)] /\ pc'[t] = Rest(t)
        /\ plan' = 0 /\ run' = 0 /\ UNCHANGED <<row, origin, stopped>>
        /\ rec \in RecoveryRecord /\ disk \in Disk
        /\ \/ UNCHANGED <<rec, disk>>
           \/ rec' = Stop(rec, "blocked") /\ disk' = Saved(disk, rec')
    BY DEF PlanFails, NoPlan, Raise, Leave, Goto, StopWith, Keep, rowVars, ghostVars, Control,
           Shape, TypeInv, TypeOK, RecordsOK
  <1>3. made' \in Nat /\ made <= made' /\ k <= made' /\ (rec.task = k \/ ~On(k).started)
    BY <1>1, <1>2, PlanTicketFacts
  <1>4. rec' \in RecoveryRecord /\ SameKey(rec, rec')
    <2>1. CASE UNCHANGED <<rec, disk>>
      BY <1>2, <2>1 DEF SameKey
    <2>2. CASE rec' = Stop(rec, "blocked")
      <3>1. "blocked" \in StopReasons
        BY DEF StopReasons
      <3> QED BY <1>2, <2>2, <3>1, StopType, StopFields
    <2> QED BY <1>2, <2>1, <2>2
  <1>5. /\ Sound(rec') /\ rec'.task <= made' /\ rec'.task = rec.task
        /\ rec'.task # 0 => Covers(rec', On(rec'.task))
    BY <1>3, <1>4 DEF SameKey, PatientInv, DiskInv, Kept, Sound, Covers, TypeInv, TypeOK, TicketOK,
                      RecordsOK, RecoveryRecord, Tickets
  <1>6. /\ disk' \in Disk /\ disk'.saved = disk.saved /\ disk'.ticket = disk.ticket
        /\ \/ UNCHANGED rec /\ disk' = disk
           \/ disk'.project = rec' /\ disk'.tickets = Saved(disk, rec').tickets
        /\ \A j \in Tickets : j # rec.task => On(j)' = On(j)
    <2>1. CASE UNCHANGED <<rec, disk>>
      BY <1>2, <2>1 DEF On
    <2>2. CASE disk' = Saved(disk, rec')
      BY <1>2, <1>4, <1>5, <2>2, SavedFields DEF On
    <2> QED BY <1>2, <2>1, <2>2
  <1>7. /\ disk'.ticket \in disk'.saved \cup {0} /\ \A j \in disk'.saved : j <= made'
        /\ ticket' <= made'
    BY <1>1, <1>2, <1>3, <1>6 DEF PatientInv, DiskInv, TypeInv, TypeOK, TicketOK, Disk, Tickets
  <1>8. DiskInv' /\ RunRowInv'
    BY <1>2, <1>3, <1>4, <1>5, <1>6, <1>7, WideSave DEF PatientInv
  <1>9. Agreed'
    <2>1. rec'.task = k \/ ~On(k)'.started
      BY <1>3, <1>5, <1>6
    <2>2. ticket' # 0 => rec'.task = ticket' \/ ~disk'.tickets[ticket'].started
      BY <1>1, <2>1 DEF On
    <2> QED BY <1>2, <2>2 DEF Agreed, On
  <1>10. Stage(t)' /\ (t \in Runs => Working(t)')
    BY <1>2, RestingStage DEF Rest, Resting
  <1> QED BY <1>2, <1>8, <1>9, <1>10, MovesAnyhow

LEMMA CommitPlanKeeps ==
  ASSUME TypeInv, Control, PatientInv, NEW t \in Threads, CommitPlan(t)
  PROVE  PatientInv'
  <1>1. PICK k \in Tickets :
          /\ PlanTicket(t, k) /\ ticket' = k /\ plan' = k
          /\ rec' = [rec EXCEPT !.task = k]
          /\ disk' = [Saved(disk, rec') EXCEPT !.ticket = k, !.saved = @ \cup {k}]
    BY DEF CommitPlan
  <1>2. /\ pc[t] = "p_commit" /\ run' = 0 /\ UNCHANGED <<row, origin, stopped>>
        /\ rec \in RecoveryRecord /\ disk \in Disk /\ k # 0
        /\ IF Repairing(t) THEN Step(t, "r_admit") ELSE Leave(t)
    BY DEF CommitPlan, rowVars, ghostVars, TypeInv, TypeOK, RecordsOK, Tickets
  <1>3. /\ made' \in Nat /\ made <= made' /\ k <= made' /\ (rec.task = k \/ ~On(k).started)
        /\ Repairing(t) => Cardinality(Repairs(k)) < rec.attempts
        /\ t \in Runs => Repairing(t) /\ k = ticket /\ origin[t].ticket = k
    BY <1>1, <1>2, PlanTicketFacts
  <1>4. /\ rec' \in RecoveryRecord /\ rec'.task = k /\ rec'.attempts = rec.attempts
        /\ rec'.started = rec.started /\ rec'.accounted = rec.accounted
    <2>1. rec' \in RecoveryRecord
      BY <1>1, <1>2, TaskType
    <2> QED BY <1>1, <1>2, <2>1 DEF RecoveryRecord
  <1>5. Sound(rec') /\ Covers(rec', On(k))
    <2>1. Sound(rec')
      BY <1>4 DEF PatientInv, DiskInv, Kept, Sound
    <2>2. CASE rec.task = k
      <3>1. Covers(rec, On(k))
        BY <1>2, <2>2 DEF PatientInv, DiskInv, Kept
      <3> QED BY <1>4, <2>1, <3>1 DEF Covers
    <2>3. CASE ~On(k).started
      <3>1. Sound(On(k))
        BY DEF PatientInv, DiskInv
      <3>2. On(k).accounted = {} /\ On(k).attempts = 0
        BY <2>3, <3>1 DEF Sound
      <3>3. rec'.attempts \in Nat
        BY <1>4 DEF RecoveryRecord
      <3> HIDE DEF On
      <3> QED BY <2>1, <2>3, <3>2, <3>3 DEF Covers
    <2> QED BY <1>3, <2>1, <2>2, <2>3
  <1> DEFINE d == Saved(disk, rec')
  <1>6. /\ d \in Disk /\ d.project = rec' /\ d.saved = disk.saved
        /\ d.tickets[k] = rec'
    BY <1>2, <1>4, SavedFields
  <1>7. d.tickets = Saved(disk, rec').tickets
    OBVIOUS
  <1>8. disk' = [d EXCEPT !.ticket = k, !.saved = @ \cup {k}]
    BY <1>1
  <1> HIDE DEF d
  <1>9. /\ disk' \in Disk /\ disk'.project = rec' /\ disk'.tickets = d.tickets
        /\ disk'.ticket = k /\ disk'.saved = disk.saved \cup {k}
    BY <1>6, <1>8 DEF Disk
  <1>10. \A j \in disk'.saved : j <= made'
    BY <1>3, <1>9 DEF PatientInv, DiskInv, TypeInv, TypeOK, TicketOK, RecordsOK, Disk, Tickets
  <1>11. DiskInv' /\ RunRowInv'
    BY <1>1, <1>2, <1>3, <1>4, <1>5, <1>7, <1>9, <1>10, WideSave DEF PatientInv
  <1>12. Agreed'
    BY <1>1, <1>2, <1>4 DEF Agreed
  <1>13. CASE Repairing(t)
    <2>1. pc' = [pc EXCEPT ![t] = "r_admit"] /\ pc'[t] = "r_admit" /\ job' = job
      BY <1>2, <1>13 DEF Step, Goto, Control, Shape
    <2>2. Reserved'
      <3>1. Repairs(ticket)' = Repairs(k)
        BY <1>1, <1>2 DEF Repairs, Launched
      <3>2. disk'.tickets[ticket'].attempts = rec.attempts
        BY <1>1, <1>4, <1>6, <1>9
      <3> QED BY <1>1, <1>2, <1>3, <1>13, <3>1, <3>2 DEF Reserved, On
    <2>3. Stage(t)'
      BY <2>1, <2>2 DEF Stage, PlanLabels
    <2>4. t \in Runs => Working(t)'
      BY <1>1, <1>2, <1>3, <1>13, <2>1 DEF Working, WorkerLabels, Repairing
    <2> QED BY <1>2, <1>11, <1>12, <2>1, <2>3, <2>4, MovesAnyhow DEF OnItsWay, RepairLabels
  <1>14. CASE ~Repairing(t)
    <2>1. pc' = [pc EXCEPT ![t] = Rest(t)] /\ pc'[t] = Rest(t)
      BY <1>2, <1>14 DEF Leave, Goto, Control, Shape
    <2>2. Stage(t)' /\ (t \in Runs => Working(t)')
      BY <2>1, RestingStage DEF Rest, Resting
    <2> QED BY <1>2, <1>11, <1>12, <2>1, <2>2, MovesAnyhow
  <1> QED BY <1>13, <1>14

-----------------------------------------------------------------------------
(* A crash and a restart, and the start.                                    *)

LEMMA RestartKeepsPatient ==
  ASSUME TypeInv, Control, PatientInv, Restart
  PROVE  PatientInv'
  <1> DEFINE p == Restored(disk.project)
  <1>1. /\ UNCHANGED <<made, row, origin, stopped>>
        /\ ticket' = disk.ticket /\ plan' = disk.ticket
        /\ \A u \in Threads : pc'[u] \in Resting /\ (u \in Launched => pc'[u] = "done")
    <2>1. \A u \in Threads : pc'[u] = IF u \notin Runs THEN "idle"
                                      ELSE IF row[u] = "none" THEN "none" ELSE "done"
      BY DEF Restart
    <2>2. UNCHANGED <<made, row, origin, stopped>> /\ ticket' = disk.ticket /\ plan' = disk.ticket
      BY DEF Restart, rowVars, ghostVars
    <2> QED BY <2>1, <2>2 DEF Resting, Launched
  <1>2. /\ disk \in Disk /\ disk.project \in RecoveryRecord /\ ticket' \in Tickets \cup {0}
        /\ made \in Nat /\ ticket' <= made
        /\ \A j \in Tickets : On(j) \in RecoveryRecord /\ Sound(On(j)) /\ On(j).task = j
    <2>1. /\ disk \in Disk /\ disk.project \in RecoveryRecord /\ made \in Nat
          /\ disk.ticket \in Tickets \cup {0} /\ \A j \in Tickets : On(j) \in RecoveryRecord
      BY DEF TypeInv, TypeOK, RecordsOK, TicketOK, Disk, On
    <2>2. /\ \A j \in Tickets : Sound(On(j)) /\ On(j).task = j
          /\ disk.ticket \in disk.saved \cup {0} /\ \A j \in disk.saved : j <= made
      BY DEF PatientInv, DiskInv
    <2>3. disk.ticket <= made
      BY <2>1, <2>2
    <2> QED BY <1>1, <2>1, <2>2, <2>3
  <1>3. Kept(disk.project)
    BY DEF PatientInv, DiskInv
  <1>4. p \in RecoveryRecord /\ SameKey(disk.project, p)
    BY <1>2, <1>3, RestoredType, RestoredFields DEF Kept
  <1>5. /\ Sound(p) /\ p.task \in Tickets \cup {0} /\ p.task <= made
        /\ p.task # 0 => Covers(p, On(p.task))
    <2>1. p.task \in Tickets \cup {0} /\ p.task = disk.project.task
      BY <1>4 DEF SameKey, RecoveryRecord
    <2> HIDE DEF p
    <2>2. Sound(p) /\ p.task <= made
      BY <1>3, <1>4, <2>1 DEF Kept, SameKey, Sound
    <2>3. p.task # 0 => Covers(p, On(p.task))
      BY <1>3, <1>4, <2>1 DEF Kept, SameKey, Covers
    <2> QED BY <2>1, <2>2, <2>3
  <1>6. IF ticket' = 0
          THEN /\ rec' = p
               /\ disk' = [disk EXCEPT !.project = IF @.status = "running" THEN p ELSE @]
          ELSE Keep(IF p.task = ticket' THEN p ELSE Restored(disk.tickets[ticket']))
    BY DEF Restart
  <1> HIDE DEF p
  <1>7. /\ DiskInv' /\ RunRowInv' /\ rec' \in RecoveryRecord
        /\ ticket' # 0 => rec'.task = ticket' /\ Covers(rec', On(ticket'))
    <2>1. CASE ticket' = 0
      <3>1. /\ rec' = p /\ disk' \in Disk /\ disk'.project \in {disk.project, p}
            /\ disk'.tickets = disk.tickets /\ disk'.ticket = disk.ticket
            /\ disk'.saved = disk.saved
        BY <1>2, <1>4, <1>6, <2>1 DEF Disk
      <3>2. \A j \in Tickets : On(j)' = On(j) /\ Covers(On(j)', On(j))
        BY <1>2, <3>1 DEF On, Covers, RecoveryRecord
      <3>3. Kept(p) /\ Kept(disk.project)
        BY <1>3, <1>5 DEF Kept
      <3>4. Kept(rec)' /\ Kept(disk.project)'
        BY <1>1, <3>1, <3>3 DEF Kept, On
      <3>5. DiskInv'
        BY <1>1, <1>2, <3>1, <3>2, <3>4 DEF PatientInv, DiskInv
      <3>6. RunRowInv'
        BY <1>1, <1>2, <3>1, <3>2, RowsFollow DEF PatientInv
      <3> QED BY <1>4, <2>1, <3>1, <3>5, <3>6
    <2>2. CASE ticket' # 0
      <3>1. PICK k \in Tickets : k = ticket'
        BY <1>2, <2>2
      <3>2. PICK r : /\ rec' = r /\ disk' = Saved(disk, r)
                     /\ (r = p /\ p.task = k) \/ r = Restored(On(k))
        BY <1>6, <2>2, <3>1 DEF Keep, On
      <3>3. Restored(On(k)) \in RecoveryRecord /\ SameKey(On(k), Restored(On(k)))
        BY <1>2, RestoredType, RestoredFields
      <3>4. r \in RecoveryRecord /\ r.task = k /\ Sound(r) /\ Covers(r, On(k))
        <4>1. CASE r = p /\ p.task = k
          <5>1. k # 0
            BY DEF Tickets
          <5> QED BY <1>4, <1>5, <4>1, <5>1
        <4>2. CASE r = Restored(On(k))
          <5>1. r \in RecoveryRecord /\ SameKey(On(k), r) /\ On(k).attempts \in Nat
            BY <1>2, <3>3, <4>2 DEF RecoveryRecord
          <5>2. r.task = k /\ Sound(On(k))
            BY <1>2, <5>1 DEF SameKey
          <5>3. Sound(r) /\ Covers(r, On(k))
            BY <5>1, <5>2 DEF SameKey, Sound, Covers
          <5> QED BY <5>1, <5>2, <5>3
        <4> QED BY <3>2, <4>1, <4>2
      <3>5. /\ disk' \in Disk /\ disk'.project = r /\ disk'.ticket = disk.ticket
            /\ disk'.saved = disk.saved /\ disk'.tickets = Saved(disk, r).tickets
        BY <1>2, <3>2, <3>4, SavedFields
      <3>6. /\ made' \in Nat /\ made <= made' /\ ticket' <= made'
            /\ disk'.ticket \in disk'.saved \cup {0} /\ \A j \in disk'.saved : j <= made'
        BY <1>1, <1>2, <3>5 DEF PatientInv, DiskInv
      <3>7. rec' \in RecoveryRecord /\ Sound(rec') /\ rec'.task <= made' /\ rec'.task = k
            /\ Covers(rec', On(k)) /\ disk'.project = rec'
            /\ disk'.tickets = Saved(disk, rec').tickets
        BY <1>1, <1>2, <3>1, <3>2, <3>4, <3>5
      <3>8. DiskInv' /\ RunRowInv'
        BY <1>1, <3>5, <3>6, <3>7, WideSave DEF PatientInv
      <3> QED BY <3>1, <3>7, <3>8
    <2> QED BY <2>1, <2>2
  <1>8. Agreed'
    <2>1. ticket' # 0 => rec'.task = ticket'
      BY <1>7
    <2>2. ASSUME run' # 0 PROVE rec'.started
      <3>1. PICK g \in Runs : g = run'
        BY <2>2 DEF Restart
      <3>2. Restorable(g, ticket')
        BY <2>2, <3>1 DEF Restart
      <3>3. PICK k \in Tickets : k = ticket'
        BY <1>2, <3>2 DEF Restorable
      <3>4. g \in Launched /\ origin[g].ticket = k /\ row[g] # "running"
        BY <3>2, <3>3 DEF Restorable
      <3>5. On(k).accounted # {}
        BY <3>4 DEF PatientInv, RunRowInv, RecordedRunsCharged, On
      <3>6. On(k).started
        BY <1>2, <3>5 DEF Sound
      <3>7. k # 0
        BY DEF Tickets
      <3> QED BY <1>7, <3>3, <3>6, <3>7 DEF Covers
    <2> QED BY <1>1, <2>1, <2>2 DEF Agreed
  <1>9. OneBusy' /\ StageInv' /\ WorkInv'
    BY <1>1, RestingStage DEF OneBusy, StageInv, WorkInv, Threads
  <1>10. Launched' = Launched /\ \A h \in Launched : h \in Threads
    BY <1>1 DEF Launched, Threads
  <1>11. Followed'
    BY <1>1, <1>10 DEF PatientInv, Followed, StayLabels
  <1>12. StopInv'
    BY <1>1, <1>10 DEF PatientInv, StopInv, StopLabels
  <1> QED BY <1>7, <1>8, <1>9, <1>11, <1>12 DEF PatientInv

LEMMA PatientInit == Init => PatientInv
  <1> SUFFICES ASSUME Init PROVE PatientInv
    OBVIOUS
  <1>1. Launched = {} /\ stopped = {}
    BY DEF Init, Launched
  <1>2. \A t \in Threads : pc[t] \in {"idle", "none"}
    BY DEF Init
  <1>3. /\ rec = Fresh(1) /\ disk.project = Fresh(1) /\ \A k \in Tickets : On(k) = Fresh(k)
        /\ disk.saved = {1} /\ disk.ticket = 1 /\ 1 \in Tickets
        /\ ticket = 1 /\ plan = 1 /\ made = 1 /\ run = 0
    BY GuidedAssumption DEF Init, On, Tickets
  <1>4. \A k \in Nat : /\ Fresh(k).task = k /\ Fresh(k).attempts = 0 /\ Fresh(k).accounted = {}
                       /\ Fresh(k).started = FALSE
    BY DEF Fresh
  <1>5. \A k \in Nat : Sound(Fresh(k)) /\ Covers(Fresh(k), Fresh(k))
    BY <1>4, RecoveryAssumption DEF Sound, Covers
  <1>6. Kept(rec) /\ Kept(disk.project)
    BY <1>3, <1>4, <1>5 DEF Kept
  <1>7. DiskInv
    BY <1>3, <1>4, <1>5, <1>6 DEF DiskInv, Tickets
  <1>8. RunRowInv
    <2>1. \A k : Repairs(k) = {}
      BY <1>1 DEF Repairs
    <2>2. \A k \in Tickets : Cardinality(Repairs(k)) <= On(k).attempts
      BY <1>3, <1>4, <2>1, FS_EmptySet DEF Tickets
    <2> QED BY <1>1, <2>2 DEF RunRowInv, RecordedRunsCharged
  <1>9. Agreed
    BY <1>3, <1>4 DEF Agreed
  <1>10. OneBusy
    BY <1>2 DEF OneBusy, Resting
  <1>11. StageInv
    BY <1>2 DEF StageInv, Stage, PlanLabels
  <1>12. WorkInv
    BY <1>2 DEF WorkInv, Working, WorkerLabels, Resting, Threads
  <1> QED BY <1>1, <1>7, <1>8, <1>9, <1>10, <1>11, <1>12 DEF PatientInv, Followed, StopInv

-----------------------------------------------------------------------------
(* All steps together.                                                      *)

LEMMA PatientServe ==
  ASSUME TypeInv, Control, PatientInv, NEW t \in Threads, Serve(t) \/ Signal(t)
  PROVE  PatientInv'
  BY CheckPlanKeeps, PlanFailsKeeps, CommitPlanKeeps, CheckRepairKeeps, RecordKeeps, ReserveKeeps,
     StartMovesOn, LaunchKeeps, MarkKeeps, SpawnKeeps, RestingSteps, CancelStopKeeps
  DEF Serve, Signal

LEMMA PatientWork ==
  ASSUME TypeInv, Control, PatientInv, NEW g \in Runs, Work(g)
  PROVE  PatientInv'
  BY WorkGoesOn, WorkIsCharged, WorkIsClosed, MaybeRepairKeeps DEF Work

LEMMA PatientStep ==
  ASSUME Patient
  PROVE  TypeInv /\ Control /\ PatientInv /\ [Next]_vars => PatientInv'
  <1> SUFFICES ASSUME TypeInv, Control, PatientInv, [Next]_vars PROVE PatientInv'
    OBVIOUS
  <1>1. ASSUME NEW t \in Requests, Request(t) PROVE PatientInv'
    BY <1>1, RequestBegins, TicketRequests, RestingSteps DEF Request
  <1>2. CASE DeadlineFires \/ TimePasses
    BY <1>2, RestingSteps
  <1>3. CASE Restart
    BY <1>3, RestartKeepsPatient
  <1>4. CASE Idle \/ UNCHANGED vars
    <2>1. UNCHANGED vars
      BY <1>4 DEF Idle
    <2> QED BY <2>1, UnmovedKeeps
        DEF vars, threadVars, planVars, outcomeVars, rowVars, ghostVars
  <1>5. Requests \subseteq Threads /\ Runs \subseteq Threads /\ Clock \in Threads
    BY DEF Threads
  <1> QED BY <1>1, <1>2, <1>3, <1>4, <1>5, PatientServe, PatientWork DEF Next

LEMMA PatientInvariant == Patient => (Spec => []PatientInv)
  <1> SUFFICES ASSUME Patient PROVE Spec => []PatientInv
    OBVIOUS
  <1>1. TypeInv /\ (Control /\ RouteFixed) /\ PatientInv /\ [Next]_vars => PatientInv'
    BY PatientStep
  <1>2. Spec => []TypeInv
    BY TypeInit, TypeStep, PTL DEF Spec
  <1> QED BY <1>1, <1>2, PatientInit, ControlInvariant, PTL DEF Spec

-----------------------------------------------------------------------------
(* The theorems.                                                            *)

\* A user whose requests wait for one another can rely on a stop: once it is
\* recorded, the stopped worker starts no repair of its ticket.
THEOREM StoppedRunIsNotRepairedHolds == Patient => (Spec => []StoppedRunIsNotRepaired)
  <1>1. PatientInv => StoppedRunIsNotRepaired
    BY DEF PatientInv, Followed, StoppedRunIsNotRepaired
  <1> QED BY <1>1, PatientInvariant, PTL

\* Across crashes, every repair that reached a provider was reserved on disk
\* before, and there are never more of them than the policy allows.
THEOREM RepairsReservedHolds == Patient => (Spec => []RepairsReserved)
  <1>1. PatientInv => RepairsReserved
    <2> SUFFICES ASSUME PatientInv PROVE RepairsReserved
      OBVIOUS
    <2>1. rec.attempts <= MaxAttempts
      BY DEF PatientInv, DiskInv, Kept, Sound
    <2>2. \A k \in Tickets : Cardinality(Repairs(k)) <= On(k).attempts
      BY DEF PatientInv, RunRowInv
    <2> QED BY <2>1, <2>2 DEF RepairsReserved, Repairs, On
  <1> QED BY <1>1, PatientInvariant, PTL

\* No run is recorded as ended before its usage is on disk under its ticket.
THEOREM RecordedRunsChargedHolds == Patient => (Spec => []RecordedRunsCharged)
  <1>1. PatientInv => RecordedRunsCharged
    BY DEF PatientInv, RunRowInv
  <1> QED BY <1>1, PatientInvariant, PTL

\* A worker only ever repairs the ticket of its own run.
THEOREM AutomaticRepairKeepsTicketHolds == Patient => (Spec => []AutomaticRepairKeepsTicket)
  <1>1. PatientInv => AutomaticRepairKeepsTicket
    BY DEF PatientInv, Followed, AutomaticRepairKeepsTicket
  <1> QED BY <1>1, PatientInvariant, PTL
=============================================================================
