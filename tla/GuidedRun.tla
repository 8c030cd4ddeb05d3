------------------------------ MODULE GuidedRun ------------------------------
(***************************************************************************)
(* The run and recovery lifecycle of web_desktop.GuidedState.              *)
(*                                                                         *)
(* HTTP requests are served by one thread each and share one GuidedState   *)
(* with the worker thread of the current run and with the deadline timer.  *)
(* Only short sections hold GuidedState.lock; between them the threads     *)
(* interleave.  One action below is one stretch of code between two points *)
(* where another thread can matter.  A worker that decides to repair goes  *)
(* through the same auto_repair / create_plan / start_run code as a        *)
(* request, so those steps are shared and take the thread as parameter.    *)
(***************************************************************************)
EXTENDS Recovery

CONSTANTS
  Requests,     \* HTTP request threads
  Clock,        \* the threading.Timer of the workflow deadline
  Ops,          \* kinds of request this instance issues
  Patient,      \* TRUE: requests wait for one another and for the recovery gap
  Lazy,         \* TRUE: the process may be killed and restarted
  MaxRuns,      \* bound: runs created
  MaxTickets,   \* bound: tickets created
  MaxOps        \* bound: requests issued

Runs    == 1..MaxRuns      \* a run is also the name of its worker thread
Tickets == 1..MaxTickets
Routes  == {1, 2}          \* two model routes are enough to see one change

AllOps == {"plan", "new", "resume", "start", "repair", "cancel", "route"}

ASSUME GuidedAssumption ==
  /\ MaxRuns \in Nat /\ MaxTickets \in Nat \ {0} /\ MaxOps \in Nat
  /\ Requests \cap Runs = {} /\ Clock \notin Requests \cup Runs
  /\ Ops \subseteq AllOps
  /\ Patient \in BOOLEAN /\ Lazy \in BOOLEAN

Threads == Requests \cup {Clock} \cup Runs

VARIABLES
  \* threads
  pc,            \* where each thread is
  arg,           \* the one local each thread carries between steps
  job,           \* what the thread is doing: an operation of Ops, or "none"
  ops,           \* requests issued so far
  \* execution control
  running, starting, runtime, timer,
  cancelled,     \* runs whose cancel_event and runtime flag are set
  driverCancel,  \* the cancel flag of the one shared driver
  route, inspected,
  \* the open ticket
  ticket, made, plan, cont, run, result, verification,
  \* recovery record in memory, durable settings, durable run rows
  rec, disk, row, evidence,
  \* history
  origin,        \* how each run came to be launched
  stopped        \* runs whose worker was at work when a stop was recorded

threadVars  == <<pc, arg, job, ops>>
controlVars == <<running, starting, runtime>>
signalVars  == <<timer, cancelled, driverCancel>>
routeVars   == <<route, inspected>>
planVars    == <<ticket, made, plan, cont>>
outcomeVars == <<run, result, verification>>
rowVars     == <<row, evidence>>
ghostVars   == <<origin, stopped>>
vars == <<threadVars, controlVars, signalVars, routeVars, planVars, outcomeVars,
          rec, disk, rowVars, ghostVars>>

WorkerLabels ==
  {"w_begin", "w_start", "w_provider", "w_verify", "w_commit", "w_release",
   "w_terminal", "w_close", "w_failed", "w_failclose"}
RepairLabels == {"w_maybe", "r_check", "r_record", "r_reserve", "r_admit"}
PlanLabels   == {"p_check", "p_commit"}
StartLabels  == {"s_admit", "s_inspect", "s_launch", "s_mark", "s_spawn", "s_finish"}
Labels == {"idle", "none", "done", "c_stop", "c_signal", "s_begin"}
            \cup WorkerLabels \cup RepairLabels \cup PlanLabels \cup StartLabels

Outcomes == {"none", "completed", "failed", "scope_violation",
             "budget_change", "budget_exceeded", "cancelled"}
\* "unrelated": a failure that names none of the files this run changed.
Verdicts == {"none", "pass", "fail", "unrelated"}
Evidence == Verdicts \cup {"absent"}    \* "absent": no run manifest
RowStates == {"none", "running", "completed", "failed", "cancelled"}

-----------------------------------------------------------------------------
(* Helpers                                                                 *)

Repairing(t) == job[t] = "repair"

Rest(t) == IF t \in Runs THEN "done" ELSE "idle"

Goto(t, l) == pc' = [pc EXCEPT ![t] = l]

\* The thread is through: a worker ends, a request returns its response.
Leave(t) ==
  /\ Goto(t, Rest(t))
  /\ arg' = [arg EXCEPT ![t] = 0]
  /\ job' = [job EXCEPT ![t] = "none"]

Step(t, l) == Goto(t, l) /\ UNCHANGED <<arg, job>>

\* _save_recovery(): under the ticket it names and under the project.
Saved(d, r) ==
  [d EXCEPT !.project = r,
            !.tickets = [k \in Tickets |-> IF k = r.task THEN r ELSE @[k]]]

Keep(r) == rec' = r /\ disk' = Saved(disk, r)

StopWith(r, reason) == Keep(Stop(r, reason))

\* An OSError, RuntimeError or ValueError leaves create_plan or start_run:
\* auto_repair turns it into a stop, a plain request only reports it.
Raise(t) ==
  /\ Leave(t)
  /\ IF Repairing(t) THEN StopWith(rec, "blocked") ELSE UNCHANGED <<rec, disk>>

\* What a patient user waits for: no request, no run and no repair under way.
Settled == \A t \in Threads : pc[t] \in {"idle", "none", "done"}

RunIds == {<<k, g>> : k \in {"codex", "workspace"}, g \in Runs}

Launched == {g \in Runs : row[g] # "none"}

\* Runs are named in the order of their rows.
IsNext(g) == g \notin Launched /\ \A h \in Runs : h < g => h \in Launched

-----------------------------------------------------------------------------
(* A request arrives: one HTTP POST, one thread.                           *)

Issue(t, op) ==
  /\ pc[t] = "idle" /\ op \in Ops /\ ops < MaxOps
  /\ Patient /\ op # "cancel" => Settled
  /\ ops' = ops + 1
  /\ job' = [job EXCEPT ![t] = op]

\* create_plan() starts: with the open ticket (an edit) or a new one.
RequestPlan(t) ==
  /\ Issue(t, "plan")
  /\ \E k \in {0, ticket} : arg' = [arg EXCEPT ![t] = k]
  /\ Goto(t, "p_check")
  /\ UNCHANGED <<controlVars, signalVars, routeVars, planVars, outcomeVars,
                 rec, disk, rowVars, ghostVars>>

RequestStart(t) ==
  /\ Issue(t, "start")
  /\ Goto(t, "s_begin")
  /\ UNCHANGED <<arg, controlVars, signalVars, routeVars, planVars, outcomeVars,
                 rec, disk, rowVars, ghostVars>>

RequestRepair(t) ==
  /\ Issue(t, "repair")
  /\ Goto(t, "r_check")
  /\ UNCHANGED <<arg, controlVars, signalVars, routeVars, planVars, outcomeVars,
                 rec, disk, rowVars, ghostVars>>

\* cancel_run(): under the lock, remember the runtime that is current.
RequestCancel(t) ==
  /\ Issue(t, "cancel")
  /\ running /\ runtime # 0
  /\ arg' = [arg EXCEPT ![t] = runtime]
  /\ Goto(t, "c_stop")
  /\ UNCHANGED <<controlVars, signalVars, routeVars, planVars, outcomeVars,
                 rec, disk, rowVars, ghostVars>>

\* new_ticket(): forget the open ticket and its recovery record.
NewTicket(t) ==
  /\ pc[t] = "idle" /\ "new" \in Ops /\ ops < MaxOps /\ (Patient => Settled)
  /\ ~running
  /\ ops' = ops + 1
  /\ ticket' = 0 /\ plan' = 0 /\ cont' = FALSE
  /\ run' = 0 /\ verification' = "none"
  /\ rec' = Fresh(0)
  /\ disk' = [disk EXCEPT !.project = Fresh(0), !.ticket = 0]
  /\ UNCHANGED <<pc, arg, job, controlVars, signalVars, routeVars, made, result,
                 rowVars, ghostVars>>

\* resume_ticket(): carry the failure over to a ticket still to be typed in.
ResumeTicket(t) ==
  /\ pc[t] = "idle" /\ "resume" \in Ops /\ ops < MaxOps /\ (Patient => Settled)
  /\ ~running
  /\ ops' = ops + 1
  /\ ticket' = 0 /\ plan' = 0 /\ cont' = TRUE
  /\ run' = 0 /\ verification' = "none"
  /\ disk' = [disk EXCEPT !.ticket = 0]
  /\ UNCHANGED <<pc, arg, job, controlVars, signalVars, routeVars, made, result,
                 rec, rowVars, ghostVars>>

\* Fault: only a run that has been launched locks the route.
SetRouteWhileStarting(t) ==
  /\ pc[t] = "idle" /\ "route" \in Ops /\ ops < MaxOps /\ (Patient => Settled)
  /\ ~running
  /\ ~(rec.started /\ rec.stop = "none")
  /\ ops' = ops + 1
  /\ route' \in Routes \ {route}
  /\ UNCHANGED <<pc, arg, job, controlVars, signalVars, inspected, planVars,
                 outcomeVars, rec, disk, rowVars, ghostVars>>

\* set_model_route(): the whole body holds the lock.
SetRoute(t) ==
  /\ pc[t] = "idle" /\ "route" \in Ops /\ ops < MaxOps /\ (Patient => Settled)
  /\ ~running /\ ~starting
  /\ ~(rec.started /\ rec.stop = "none")
  /\ ops' = ops + 1
  /\ route' \in Routes \ {route}
  /\ UNCHANGED <<pc, arg, job, controlVars, signalVars, inspected, planVars,
                 outcomeVars, rec, disk, rowVars, ghostVars>>

-----------------------------------------------------------------------------
(* Cancellation and the deadline                                           *)

\* The timer fires and finds its own runtime still current.
DeadlineFires ==
  /\ pc[Clock] = "idle" /\ timer # 0 /\ rec.late /\ runtime = timer
  /\ arg' = [arg EXCEPT ![Clock] = timer]
  /\ timer' = 0
  /\ Goto(Clock, "c_stop")
  /\ UNCHANGED <<job, ops, controlVars, cancelled, driverCancel, routeVars, planVars,
                 outcomeVars, rec, disk, rowVars, ghostVars>>

TimePasses ==
  /\ rec.started /\ ~rec.late
  /\ rec' = [rec EXCEPT !.late = TRUE]
  /\ UNCHANGED <<threadVars, controlVars, signalVars, routeVars, planVars,
                 outcomeVars, disk, rowVars, ghostVars>>

\* _stop_recovery() and the disarmed timer, no longer under the lock.
CancelStop(t) ==
  /\ pc[t] = "c_stop"
  /\ StopWith(rec, IF t = Clock THEN "limit" ELSE "cancelled")
  /\ timer' = IF t = Clock THEN timer ELSE 0
  /\ stopped' = IF pc[arg[t]] \in WorkerLabels THEN stopped \cup {arg[t]} ELSE stopped
  /\ Step(t, "c_signal")
  /\ UNCHANGED <<ops, controlVars, cancelled, driverCancel, routeVars, planVars,
                 outcomeVars, rowVars, origin>>

\* cancel_event.set(); runtime.cancel() also flags the driver all runs share.
CancelSignal(t) ==
  /\ pc[t] = "c_signal"
  /\ cancelled' = cancelled \cup {arg[t]}
  /\ driverCancel' = TRUE
  /\ Leave(t)
  /\ UNCHANGED <<ops, controlVars, timer, routeVars, planVars, outcomeVars,
                 rec, disk, rowVars, origin, stopped>>
-----------------------------------------------------------------------------
(* create_plan()                                                           *)

NoPlan == plan' = 0 /\ run' = 0 /\ verification' = "none"

\* Its guards; a plan that continues nothing starts a fresh recovery record.
CheckPlan(t) ==
  /\ pc[t] = "p_check"
  /\ LET k == arg[t]
         locked == k # 0 /\ rec.task = k /\ rec.started /\ ~cont
         unknown == k # 0 /\ k \notin disk.saved
     IN \/ /\ running \/ locked
           /\ Raise(t)
        \* store.get_task() raises KeyError, which auto_repair does not catch.
        \/ /\ ~running /\ ~locked /\ unknown
           /\ Leave(t)
           /\ UNCHANGED <<rec, disk>>
        \/ /\ ~running /\ ~locked /\ ~unknown
           /\ rec' = IF cont THEN rec ELSE Fresh(0)
           /\ Step(t, "p_commit")
           /\ UNCHANGED disk
  /\ UNCHANGED <<ops, controlVars, signalVars, routeVars, planVars, outcomeVars,
                 rowVars, ghostVars>>

\* Fault: the given ticket is ignored.
PlanAnyTicket(t, k) == made < MaxTickets /\ k = made + 1 /\ made' = k

\* The ticket create_plan works on: the given one, or a new identifier.
PlanTicket(t, k) ==
  IF arg[t] # 0 THEN k = arg[t] /\ made' = made
  ELSE made < MaxTickets /\ k = made + 1 /\ made' = k

\* Planning raises: _record_planning_failure() opens the unsaved ticket.
PlanFails(t) ==
  /\ pc[t] = "p_commit"
  /\ \E k \in Tickets : PlanTicket(t, k) /\ ticket' = k
  /\ NoPlan
  /\ Raise(t)
  /\ UNCHANGED <<ops, controlVars, signalVars, routeVars, cont, result,
                 rowVars, ghostVars>>

CommitPlan(t) ==
  /\ pc[t] = "p_commit"
  /\ \E k \in Tickets :
       /\ PlanTicket(t, k)
       /\ ticket' = k /\ plan' = k
       /\ rec' = [rec EXCEPT !.task = k]
       /\ disk' = [Saved(disk, rec') EXCEPT !.ticket = k, !.saved = @ \cup {k}]
  /\ cont' = FALSE /\ run' = 0 /\ verification' = "none"
  /\ IF Repairing(t) THEN Step(t, "r_admit") ELSE Leave(t)
  /\ UNCHANGED <<ops, controlVars, signalVars, routeVars, result, rowVars, ghostVars>>

-----------------------------------------------------------------------------
(* auto_repair()                                                           *)

Automatic(t) == t \in Runs

\* The early exits, in the order of the code; the first that applies decides.
CheckRepair(t) ==
  /\ pc[t] = "r_check"
  /\ LET ended == IF run = 0 THEN "none" ELSE result[run]
         refused == \/ running \/ rec.status = "running"
                    \/ Automatic(t) /\ rec.stop # "none"
                    \/ verification = "pass"
         unrelated == verification = "unrelated"
     IN \/ /\ refused \/ (unrelated /\ ~Automatic(t))
           /\ Leave(t) /\ UNCHANGED <<rec, disk>>
        \/ /\ ~refused /\ unrelated /\ Automatic(t)
           /\ Leave(t) /\ Keep([rec EXCEPT !.status = "ready"])
        \/ /\ ~refused /\ ~unrelated /\ ended = "cancelled" /\ Automatic(t)
           /\ Leave(t) /\ StopWith(rec, "cancelled")
        \/ /\ ~refused /\ ~unrelated /\ ended = "scope_violation"
           /\ Leave(t) /\ StopWith(rec, "blocked")
        \/ /\ ~refused /\ ~unrelated
           /\ ended # "scope_violation" /\ ~(ended = "cancelled" /\ Automatic(t))
           /\ Step(t, "r_record") /\ UNCHANGED <<rec, disk>>
  /\ UNCHANGED <<ops, controlVars, signalVars, routeVars, planVars, outcomeVars,
                 rowVars, ghostVars>>

\* Charge the ended run, test the bounds and the external blockers, and
\* record the failure once per cycle.
RecordRepair(t) ==
  /\ pc[t] = "r_record"
  /\ LET acc   == IF run = 0 THEN rec ELSE Account(rec, <<"codex", run>>)
         mine  == [acc EXCEPT !.task = ticket]
         noted == RecordFailure(mine)
         spent == OutOfAttempts(acc) \/ OutOfBudget(acc, 0)
     IN \/ spent /\ StopWith(acc, "limit") /\ Leave(t)
        \/ ~spent /\ StopWith(acc, "blocked") /\ Leave(t)        \* external_block()
        \/ /\ ~spent /\ rec.cycle = rec.attempts
           /\ rec' = mine
           /\ disk' = IF run = 0 THEN disk ELSE Saved(disk, acc)
           /\ Step(t, "r_reserve")
        \/ /\ ~spent /\ rec.cycle # rec.attempts
           /\ Keep(noted)
           /\ Step(t, "r_reserve")
        \/ /\ ~spent /\ rec.cycle # rec.attempts
           /\ MayRepeat(rec) /\ Automatic(t)                          \* no_progress
           /\ StopWith(noted, "blocked") /\ Leave(t)
  /\ UNCHANGED <<ops, controlVars, signalVars, routeVars, planVars, outcomeVars,
                 rowVars, ghostVars>>

\* Reserve the cycle on disk before any work is done for it.
ReserveRepair(t) ==
  /\ pc[t] = "r_reserve"
  /\ \/ /\ Leave(t)                             \* the worktree is not safe to carry
        /\ UNCHANGED <<rec, disk, cont>>
     \/ /\ cont' = TRUE
        /\ Keep(Begin(rec))
        /\ arg' = [arg EXCEPT ![t] = ticket]
        /\ Goto(t, "p_check")
        /\ UNCHANGED job
  /\ UNCHANGED <<ops, controlVars, signalVars, routeVars, ticket, made, plan,
                 outcomeVars, rowVars, ghostVars>>

AdmitRepair(t) ==
  /\ pc[t] = "r_admit"
  /\ IF OutOfBudget(rec, 1)
       THEN Raise(t)
       ELSE Step(t, "s_begin") /\ UNCHANGED <<rec, disk>>
  /\ UNCHANGED <<ops, controlVars, signalVars, routeVars, planVars, outcomeVars,
                 rowVars, ghostVars>>

-----------------------------------------------------------------------------
(* start_run()                                                             *)

\* Fault: a start does not see another one that is still preparing.
BeginStartUnseen(t) ==
  /\ pc[t] = "s_begin"
  /\ IF running
       THEN Raise(t) /\ UNCHANGED starting
       ELSE starting' = TRUE /\ Step(t, "s_admit") /\ UNCHANGED <<rec, disk>>
  /\ UNCHANGED <<ops, running, runtime, signalVars, routeVars, planVars, outcomeVars,
                 rowVars, ghostVars>>

\* Under the lock: one start at a time, and none during a run.
BeginStart(t) ==
  /\ pc[t] = "s_begin"
  /\ IF running \/ starting
       THEN Raise(t) /\ UNCHANGED starting
       ELSE starting' = TRUE /\ Step(t, "s_admit") /\ UNCHANGED <<rec, disk>>
  /\ UNCHANGED <<ops, running, runtime, signalVars, routeVars, planVars, outcomeVars,
                 rowVars, ghostVars>>

\* Fault: no finally clause.
AbortStartHeld(t) == Raise(t) /\ UNCHANGED starting

\* An exception inside _start_run(): the finally clause frees the start first.
AbortStart(t) == starting' = FALSE /\ Raise(t)

AdmitStart(t) ==
  /\ pc[t] = "s_admit"
  /\ \/ AbortStart(t)                            \* no plan, preflight, failure memory
     \/ /\ plan # 0 /\ OutOfBudget(rec, 1)
        /\ starting' = FALSE /\ StopWith(rec, "limit") /\ Leave(t)
     \/ /\ plan # 0 /\ ~OutOfBudget(rec, 1)
        /\ Step(t, "s_inspect") /\ UNCHANGED <<starting, rec, disk>>
  /\ UNCHANGED <<ops, running, runtime, signalVars, routeVars, planVars, outcomeVars,
                 rowVars, ghostVars>>

InspectStart(t) ==
  /\ pc[t] = "s_inspect"
  /\ inspected' = route
  /\ \/ AbortStart(t)                            \* no ticket, or an unsafe worktree
     \/ starting' = FALSE /\ StopWith(rec, "blocked") /\ Leave(t)  \* driver unavailable
     \/ ticket # 0 /\ Step(t, "s_launch") /\ UNCHANGED <<starting, rec, disk>>
  /\ UNCHANGED <<ops, running, runtime, signalVars, route, planVars, outcomeVars,
                 rowVars, ghostVars>>

\* The run row and the runtime exist; under the lock the run becomes current.
LaunchStart(t) ==
  /\ pc[t] = "s_launch"
  /\ \E g \in Runs :
       /\ IsNext(g)
       /\ row' = [row EXCEPT ![g] = "running"]
       /\ runtime' = g
       /\ arg' = [arg EXCEPT ![t] = g]
       /\ origin' = [origin EXCEPT ![g] =
                       [ticket |-> ticket, route |-> route,
                        by |-> IF Automatic(t) THEN t ELSE 0, repair |-> Repairing(t)]]
  /\ running' = TRUE
  /\ Goto(t, "s_mark")
  /\ UNCHANGED <<job, ops, starting, signalVars, routeVars, planVars, outcomeVars,
                 rec, disk, evidence, stopped>>

MarkStart(t) ==
  /\ pc[t] = "s_mark"
  /\ Keep([rec EXCEPT !.started = TRUE, !.status = "running", !.stop = "none"])
  /\ Step(t, "s_spawn")
  /\ UNCHANGED <<ops, controlVars, signalVars, routeVars, planVars, outcomeVars,
                 rowVars, ghostVars>>

\* The deadline timer and the worker thread start.
SpawnStart(t) ==
  /\ pc[t] = "s_spawn"
  /\ timer' = arg[t]
  /\ pc' = [pc EXCEPT ![t] = "s_finish", ![arg[t]] = "w_begin"]
  /\ UNCHANGED <<arg, job, ops, controlVars, cancelled, driverCancel, routeVars,
                 planVars, outcomeVars, rec, disk, rowVars, ghostVars>>

FinishStart(t) ==
  /\ pc[t] = "s_finish"
  /\ starting' = FALSE
  /\ Leave(t)
  /\ UNCHANGED <<ops, running, runtime, signalVars, routeVars, planVars, outcomeVars,
                 rec, disk, rowVars, ghostVars>>

-----------------------------------------------------------------------------
(* _run_worker(): arg[g] = NoRepair when nothing may follow the run.       *)

NoRepair == 1

WorkerBegin(g) ==
  /\ pc[g] = "w_begin"
  /\ IF plan = 0
       THEN arg' = [arg EXCEPT ![g] = NoRepair] /\ Goto(g, "w_failed")
       ELSE \E l \in {"w_start", "w_failed"} : Goto(g, l) /\ UNCHANGED arg  \* dependencies
  /\ UNCHANGED <<job, ops, controlVars, signalVars, routeVars, planVars, outcomeVars,
                 rec, disk, rowVars, ghostVars>>

\* CodexGraphRuntime.run(): cancelled before it starts, or the driver begins.
ProviderBegin(g) ==
  /\ pc[g] = "w_start"
  /\ IF g \in cancelled
       THEN /\ run' = g /\ result' = [result EXCEPT ![g] = "cancelled"]
            /\ Goto(g, "w_terminal")
            /\ UNCHANGED driverCancel
       ELSE /\ driverCancel' = FALSE
            /\ Goto(g, "w_provider")
            /\ UNCHANGED <<run, result>>
  /\ UNCHANGED <<arg, job, ops, controlVars, timer, cancelled, routeVars, planVars,
                 verification, rec, disk, rowVars, ghostVars>>

\* Its outcome. A cancellation that arrives late leaves the outcome as it is.
ProviderEnd(g) ==
  /\ pc[g] = "w_provider"
  /\ \E o \in Outcomes \ {"none"} :
       /\ o = "cancelled" => g \in cancelled \/ driverCancel
       /\ run' = g /\ result' = [result EXCEPT ![g] = o]
       /\ Goto(g, IF o \in {"completed", "budget_change"} THEN "w_verify" ELSE "w_terminal")
  /\ UNCHANGED <<arg, job, ops, controlVars, signalVars, routeVars, planVars,
                 verification, rec, disk, rowVars, ghostVars>>

ProviderRaises(g) ==
  /\ pc[g] = "w_provider"
  /\ Goto(g, "w_failed")
  /\ UNCHANGED <<arg, job, ops, controlVars, signalVars, routeVars, planVars,
                 outcomeVars, rec, disk, rowVars, ghostVars>>

\* Verification is cancelled, times out, or fails to run at all.
VerifyBreaks(g) ==
  /\ pc[g] = "w_verify"
  /\ \/ /\ g \in cancelled
        /\ result' = [result EXCEPT ![g] = "cancelled"] /\ Goto(g, "w_terminal")
     \/ result' = [result EXCEPT ![g] = "failed"] /\ Goto(g, "w_terminal")
     \/ result[g] = "budget_change" /\ Goto(g, "w_failed") /\ UNCHANGED result
  /\ UNCHANGED <<arg, job, ops, controlVars, signalVars, routeVars, planVars, run,
                 verification, rec, disk, rowVars, ghostVars>>

VerifyEnds(g) ==
  /\ pc[g] = "w_verify" /\ g \notin cancelled
  /\ \E v \in Verdicts \ {"none"} :
       /\ verification' = v
       /\ evidence' = [evidence EXCEPT ![g] = v]
       /\ arg' = [arg EXCEPT ![g] = IF v = "pass" THEN NoRepair ELSE 0]
       /\ Goto(g, IF result[g] = "budget_change" /\ v # "pass" THEN "w_terminal"
                                                              ELSE "w_commit")
  /\ UNCHANGED <<job, ops, controlVars, signalVars, routeVars, planVars, run, result,
                 rec, disk, row, ghostVars>>

\* A verified or an unverified result: charge it and settle the recovery.
WorkerCommit(g) ==
  /\ pc[g] = "w_commit"
  /\ run' = g
  /\ result' = [result EXCEPT ![g] = "completed"]
  /\ timer' = 0
  /\ Keep([Account(rec, <<"codex", g>>) EXCEPT
             !.status = IF arg[g] = NoRepair THEN "verified" ELSE "ready"])
  /\ Goto(g, "w_release")
  /\ UNCHANGED <<arg, job, ops, controlVars, cancelled, driverCancel, routeVars,
                 planVars, verification, rowVars, ghostVars>>

\* Fault: the run is recorded, the current place is not given up.
CloseHeld(g, state, repair) ==
  /\ row' = [row EXCEPT ![g] = state]
  /\ IF repair THEN Step(g, "w_maybe") ELSE Leave(g)
  /\ UNCHANGED <<ops, controlVars, signalVars, routeVars, planVars, outcomeVars,
                 rec, disk, ghostVars>>

\* The run gives up the current place; a repair may follow.
Close(g, state, repair) ==
  /\ row' = [row EXCEPT ![g] = state]
  /\ running' = FALSE /\ runtime' = 0
  /\ IF repair THEN Step(g, "w_maybe") ELSE Leave(g)
  /\ UNCHANGED <<ops, starting, signalVars, routeVars, planVars, outcomeVars,
                 rec, disk, ghostVars>>

WorkerRelease(g) ==
  /\ pc[g] = "w_release"
  /\ Close(g, "completed", arg[g] # NoRepair)
  /\ UNCHANGED evidence

ReadyIfRunning(r) == IF r.status = "running" THEN [r EXCEPT !.status = "ready"] ELSE r

\* _record_terminal_result(): charge the run, then settle the recovery.
TerminalRecord(g) ==
  /\ pc[g] = "w_terminal"
  /\ LET acc == Account(rec, <<"codex", g>>)
     IN Keep(IF result[g] = "cancelled" /\ acc.stop = "none"
               THEN Stop(acc, "cancelled") ELSE ReadyIfRunning(acc))
  /\ run' = g
  /\ timer' = 0
  /\ Goto(g, "w_close")
  /\ UNCHANGED <<arg, job, ops, controlVars, cancelled, driverCancel, routeVars,
                 planVars, result, verification, rowVars, ghostVars>>

TerminalClose(g) ==
  /\ pc[g] = "w_close"
  /\ Close(g, IF result[g] = "cancelled" THEN "cancelled" ELSE "failed",
           result[g] \notin {"cancelled", "budget_exceeded"})
  /\ evidence' = [evidence EXCEPT ![g] = IF @ = "absent" THEN "none" ELSE @]

\* Fault: usage nobody reported counts as zero.
FailureFree(g) == rec

\* Without a result the usage is unknown: a whole run is reserved for it, under
\* the workspace identifier of the run.
FailureCharge(g) == IF plan = 0 THEN rec ELSE Account(rec, <<"workspace", g>>)

\* _record_failure(): the run produced no result to keep; its row names no evidence.
FailureRecord(g) ==
  /\ pc[g] = "w_failed"
  /\ LET acc == FailureCharge(g)
     IN IF acc = rec /\ rec.status # "running" THEN UNCHANGED <<rec, disk>>
                                                ELSE Keep(ReadyIfRunning(acc))
  /\ timer' = 0
  /\ Goto(g, "w_failclose")
  /\ UNCHANGED <<arg, job, ops, controlVars, cancelled, driverCancel, routeVars,
                 planVars, outcomeVars, rowVars, ghostVars>>

FailureClose(g) ==
  /\ pc[g] = "w_failclose"
  /\ Close(g, "failed", arg[g] # NoRepair)
  /\ evidence' = [evidence EXCEPT ![g] = "absent"]

\* _maybe_start_automatic_repair()
MaybeRepair(g) ==
  /\ pc[g] = "w_maybe"
  /\ LET ready == [rec EXCEPT !.status = "ready"] IN
       \/ rec.stop # "none" /\ Leave(g) /\ UNCHANGED <<rec, disk>>
       \/ rec.stop = "none" /\ verification = "unrelated" /\ Keep(ready) /\ Leave(g)
       \/ /\ rec.stop = "none" /\ verification # "unrelated"
          /\ rec' = ready
          /\ job' = [job EXCEPT ![g] = "repair"]
          /\ Goto(g, "r_check")
          /\ UNCHANGED <<arg, disk>>
  /\ UNCHANGED <<ops, controlVars, signalVars, routeVars, planVars, outcomeVars,
                 rowVars, ghostVars>>

-----------------------------------------------------------------------------
(* The process is killed at any point and started again.                   *)

\* list_task_runs()[0], if its row names a manifest.
Restorable(g, k) ==
  /\ k # 0 /\ g \in Launched /\ origin[g].ticket = k
  /\ \A h \in Launched : origin[h].ticket = k => h <= g
  /\ row[g] # "running" /\ evidence[g] # "absent"

\* select_project(restore=True), then select_task(restore=True).
Restart ==
  /\ Lazy /\ ops < MaxOps
  /\ ops' = ops + 1
  /\ pc' = [t \in Threads |-> IF t \notin Runs THEN "idle"
                              ELSE IF row[t] = "none" THEN "none" ELSE "done"]
  /\ arg' = [t \in Threads |-> 0]
  /\ job' = [t \in Threads |-> "none"]
  /\ running' = FALSE /\ starting' = FALSE /\ runtime' = 0
  /\ timer' = 0 /\ cancelled' = {} /\ driverCancel' = FALSE
  /\ cont' = FALSE
  /\ ticket' = disk.ticket /\ plan' = disk.ticket
  /\ \/ run' \in Runs /\ Restorable(run', ticket')
     \/ run' = 0 /\ ~ \E g \in Runs : Restorable(g, ticket')
  /\ \E stale \in BOOLEAN :       \* the checks of the project have changed since
       /\ stale => run' # 0 /\ evidence[run'] # "none"
       /\ verification' = IF run' = 0 THEN "none" ELSE IF stale THEN "fail"
                                                  ELSE evidence[run']
       /\ result' = IF stale /\ result[run'] = "completed"
                      THEN [result EXCEPT ![run'] = "failed"] ELSE result
  /\ LET p == Restored(disk.project)
     IN IF ticket' = 0
          THEN /\ rec' = p
               /\ disk' = [disk EXCEPT !.project = IF @.status = "running" THEN p ELSE @]
          ELSE Keep(IF p.task = ticket' THEN p ELSE Restored(disk.tickets[ticket']))
  /\ UNCHANGED <<routeVars, made, rowVars, ghostVars>>

-----------------------------------------------------------------------------
Init ==
  \* the program has just restored a project with one planned ticket
  /\ pc = [t \in Threads |-> IF t \in Runs THEN "none" ELSE "idle"]
  /\ arg = [t \in Threads |-> 0]
  /\ job = [t \in Threads |-> "none"]
  /\ ops = 0
  /\ running = FALSE /\ starting = FALSE /\ runtime = 0
  /\ timer = 0 /\ cancelled = {} /\ driverCancel = FALSE
  /\ route = 1 /\ inspected = 1
  /\ ticket = 1 /\ made = 1 /\ plan = 1 /\ cont = FALSE
  /\ run = 0 /\ result = [g \in Runs |-> "none"] /\ verification = "none"
  /\ rec = Fresh(1)
  /\ disk = [project |-> Fresh(1), tickets |-> [k \in Tickets |-> Fresh(k)],
             ticket |-> 1, saved |-> {1}]
  /\ row = [g \in Runs |-> "none"]
  /\ evidence = [g \in Runs |-> "absent"]
  /\ origin = [g \in Runs |-> [ticket |-> 0, route |-> 1, by |-> 0, repair |-> FALSE]]
  /\ stopped = {}

Request(t) ==
  \/ RequestPlan(t) \/ RequestStart(t) \/ RequestRepair(t) \/ RequestCancel(t)
  \/ NewTicket(t) \/ ResumeTicket(t) \/ SetRoute(t)

\* The code any thread may run once it has begun.
Serve(t) ==
  \/ CheckPlan(t) \/ PlanFails(t) \/ CommitPlan(t)
  \/ CheckRepair(t) \/ RecordRepair(t) \/ ReserveRepair(t) \/ AdmitRepair(t)
  \/ BeginStart(t) \/ AdmitStart(t) \/ InspectStart(t) \/ LaunchStart(t)
  \/ MarkStart(t) \/ SpawnStart(t) \/ FinishStart(t)

Signal(t) == CancelStop(t) \/ CancelSignal(t)

Work(g) ==
  \/ WorkerBegin(g) \/ ProviderBegin(g) \/ ProviderEnd(g) \/ ProviderRaises(g)
  \/ VerifyBreaks(g) \/ VerifyEnds(g) \/ WorkerCommit(g) \/ WorkerRelease(g)
  \/ TerminalRecord(g) \/ TerminalClose(g) \/ FailureRecord(g) \/ FailureClose(g)
  \/ MaybeRepair(g)

\* Nothing is left to do: the bound on requests ends the behaviour.
Idle ==
  /\ ops = MaxOps
  /\ \A t \in Threads : pc[t] \in {"idle", "none", "done"}
  /\ UNCHANGED vars

Next ==
  \/ \E t \in Requests : Request(t) \/ Serve(t) \/ Signal(t)
  \/ \E g \in Runs : Work(g) \/ Serve(g)
  \/ Signal(Clock) \/ DeadlineFires \/ TimePasses
  \/ Restart
  \/ Idle

Spec == Init /\ [][Next]_vars

\* As long as some thread has begun and can go on, one of them does; nobody is
\* bound to send a request.  The driver and the verification runtime return:
\* both have their own timeouts.
Fairness ==
  WF_vars(\/ \E t \in Requests : Serve(t) \/ Signal(t)
          \/ \E g \in Runs : Work(g) \/ Serve(g)
          \/ Signal(Clock))

FairSpec == Spec /\ Fairness

-----------------------------------------------------------------------------
(* Properties                                                              *)

RecoveryRecord ==
  [task : Tickets \cup {0}, status : Statuses, stop : StopReasons, attempts : Nat,
   cycle : Nat \cup {NoCycle}, started : BOOLEAN, late : BOOLEAN,
   accounted : SUBSET RunIds]

Disk ==
  [project : RecoveryRecord, tickets : [Tickets -> RecoveryRecord],
   ticket : Tickets \cup {0}, saved : SUBSET Tickets]

Origin == [ticket : Tickets \cup {0}, route : Routes, by : Runs \cup {0}, repair : BOOLEAN]

ThreadsOK ==
  /\ pc \in [Threads -> Labels]
  /\ arg \in [Threads -> Nat]
  /\ job \in [Threads -> AllOps \cup {"none"}]
  /\ ops \in Nat

ControlOK ==
  /\ running \in BOOLEAN /\ starting \in BOOLEAN
  /\ runtime \in Runs \cup {0} /\ timer \in Runs \cup {0}
  /\ cancelled \subseteq Runs /\ driverCancel \in BOOLEAN
  /\ route \in Routes /\ inspected \in Routes

TicketOK ==
  /\ ticket \in Tickets \cup {0} /\ plan \in Tickets \cup {0}
  /\ made \in Nat /\ cont \in BOOLEAN
  /\ run \in Runs \cup {0} /\ result \in [Runs -> Outcomes] /\ verification \in Verdicts

RecordsOK == rec \in RecoveryRecord /\ disk \in Disk

RowsOK ==
  /\ row \in [Runs -> RowStates] /\ evidence \in [Runs -> Evidence]
  /\ origin \in [Runs -> Origin]
  /\ stopped \subseteq Runs

\* Every variable stays in its range; in particular the two recovery records,
\* in memory and on disk, keep the fields from_dict() insists on.
TypeOK == ThreadsOK /\ ControlOK /\ TicketOK /\ RecordsOK /\ RowsOK

\* The runs that own the worktree: their worker is at work, or their starter
\* has made them current and not yet spawned it.
Owners == {g \in Runs : pc[g] \in WorkerLabels}
            \cup {arg[t] : t \in {u \in Threads : pc[u] \in {"s_mark", "s_spawn"}}}

\* No two runs ever write to the isolated worktree at once, whatever mix of
\* start, repair and automatic repair is under way; and the one that does is
\* the one cancel_run() and the deadline would stop.
SingleRun == Cardinality(Owners) <= 1 /\ Owners \subseteq {runtime}

\* The route a run was inspected and started with is still the saved route
\* until the run is recorded, so that run-route.v1 names the route it used.
RouteLocked == \A g \in Owners : origin[g].route = route /\ inspected = route

\* Once a cancellation or the deadline has been recorded against the current
\* run, its worker does not start another run for the same ticket.  This is for
\* requests that wait for one another: one that starts the ticket again before
\* the stopped worker has looked at the reason (_maybe_start_automatic_repair)
\* clears it, and the old worker may go on to repair.
StoppedRunIsNotRepaired ==
  \A g \in Launched : LET b == origin[g].by IN
    b # 0 /\ b \in stopped => origin[g].ticket # origin[b].ticket

\* Repair cycles never exceed the saved policy (from_dict() rejects such a
\* record), and every repair that ever reached a provider was reserved on disk
\* before, across restarts: a restart cannot replay a cycle.
RepairsReserved ==
  /\ rec.attempts <= MaxAttempts
  /\ \A k \in Tickets :
    Cardinality({g \in Launched : origin[g].repair /\ origin[g].ticket = k})
      <= disk.tickets[k].attempts

\* A run whose end is on record has been charged to its ticket's record.
RecordedRunsCharged ==
  \A g \in Launched : row[g] # "running" =>
    {<<"codex", g>>, <<"workspace", g>>} \cap disk.tickets[origin[g].ticket].accounted # {}

\* An automatic repair works on the ticket whose run failed.
AutomaticRepairKeepsTicket ==
  \A g \in Launched : LET b == origin[g].by IN
    b # 0 => origin[g].ticket = origin[b].ticket

\* The automatic repairs of a workflow come to an end by themselves, and every
\* run and every start that fails on the way gives back its flag, without which
\* nothing could ever be started again (start_run, _run_worker).
RepairsEnd == <>[](~running /\ ~starting)
=============================================================================
