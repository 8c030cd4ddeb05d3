------------------------------- MODULE Router --------------------------------
(***************************************************************************)
(* RoutedCodexNodeDriver (drivers/router.py) over drivers that own one     *)
(* provider process per node (drivers/codex.py, drivers/omniroute.py).     *)
(* The nodes of a wave call the one router on their own threads; each goes *)
(* through the routes in their order until one completes or may not be     *)
(* followed by another.  What else changes the worktree meanwhile (other   *)
(* nodes of the wave with drivers of their own, the user) is Elsewhere.    *)
(*                                                                         *)
(* A provider process is the environment: it changes files, reports some   *)
(* of them and some of the tokens it uses, and ends by itself, by the      *)
(* signal of a cancellation, by its deadline or by its budget, or only     *)
(* when it is killed.                                                      *)
(***************************************************************************)
EXTENDS Naturals

CONSTANTS
  Nodes,        \* nodes of the wave
  Routes,       \* number of enabled and allowed routes
  MaxAttempts,  \* max_attempts of the policy
  FreshLimit,        \* fresh_token_limit of each node
  Paths,
  Amounts,      \* bound: what one usage event reports
  MaxTokens     \* bound: tokens a node reports in all

ASSUME RouterAssumption ==
  /\ Routes \in Nat \ {0} /\ MaxAttempts \in Nat \ {0} /\ FreshLimit \in Nat \ {0}
  /\ Amounts \subseteq Nat \ {0} /\ MaxTokens \in Nat

Attempts == 1..(IF MaxAttempts < Routes THEN MaxAttempts ELSE Routes)

VARIABLES
  tree,        \* paths of git status
  cancelled,   \* routes whose driver has its cancel flag set
  canceller,   \* the route cancel() is at, and what it does next
  pc,          \* per node: the thread that executes it
  attempt,     \* per node: number of the current attempt, which is its route
  initial,     \* per node: the first git status, or that there is none
  used,        \* per node: what its ended attempts reported
  registered,  \* nodes whose process is in _active_processes
  proc,        \* per node: its process
  tokens,      \* per node: what the current attempt reported
  reported,    \* per node: files the events of the current attempt name
  changed,     \* per node: changed_files of the last result
  verdict,     \* per node: terminal_status, then the last result: "completed",
               \* "cancelled", "unavailable" or the class of its failure
  ran,         \* history: nodes that had a provider process before
  own,         \* history: paths the providers of a node changed
  blind        \* history: nodes for which Git gave no answer

controlVars == <<cancelled, canceller>>
nodeVars    == <<attempt, initial, used, changed>>
processVars == <<registered, proc, tokens, reported>>
ghostVars   == <<ran, own, blind>>
routerVars == <<tree, controlVars, pc, nodeVars, processVars, verdict, ghostVars>>

\* An answer of Git, or none.
NoAnswer == [given |-> FALSE, paths |-> {}]

Alive(n) == proc[n] \in {"running", "dying"}

Goto(n, label) == pc' = [pc EXCEPT ![n] = label]

\* What remains of the allocation for this attempt.
Remaining(n) == FreshLimit - used[n]

Over(n) == tokens[n] > Remaining(n)

-----------------------------------------------------------------------------
(* RoutedCodexNodeDriver.execute_streaming()                               *)

\* _git_status(), which fails or times out.
GitStatus == {[given |-> TRUE, paths |-> tree], NoAnswer}

LookFirst(n) ==
  /\ pc[n] = "idle" /\ Goto(n, "try")
  /\ \E answer \in GitStatus :
       /\ initial' = [initial EXCEPT ![n] = answer]
       /\ blind' = IF ~answer.given THEN blind \cup {n} ELSE blind
  /\ UNCHANGED <<tree, controlVars, attempt, used, changed, processVars, verdict, ran, own>>

\* The loop ends: no route is left, or nothing of the allocation.
Exhausted(n) == attempt[n] \notin Attempts \/ used[n] >= FreshLimit

GiveUp(n) ==
  /\ pc[n] = "try" /\ Exhausted(n) /\ Goto(n, "done")
  /\ verdict' = [verdict EXCEPT ![n] = IF verdict[n] = "none" THEN "unavailable" ELSE verdict[n]]
  /\ UNCHANGED <<tree, controlVars, nodeVars, processVars, ghostVars>>

\* A route that is not ready is passed over.
PassOver(n) ==
  /\ pc[n] = "try" /\ ~Exhausted(n)
  /\ attempt' = [attempt EXCEPT ![n] = @ + 1]
  /\ UNCHANGED <<tree, controlVars, pc, initial, used, changed, processVars, verdict, ghostVars>>

Execute(n) ==
  /\ pc[n] = "try" /\ ~Exhausted(n)
  /\ Goto(n, "check")
  /\ UNCHANGED <<tree, controlVars, nodeVars, processVars, verdict, ghostVars>>

\* Only in a worktree that was clean: mutation_audit_safe.
Audited(n) == initial[n].given /\ initial[n].paths = {}

\* Fault: the result is taken as it was reported.
AuditNothing(n) ==
  /\ pc[n] = "audit" /\ Goto(n, "decide")
  /\ changed' = [changed EXCEPT ![n] = reported[n]]
  /\ used' = [used EXCEPT ![n] = @ + tokens[n]]
  /\ UNCHANGED <<tree, controlVars, attempt, initial, processVars, verdict, ghostVars>>

\* The whole worktree's changes during the attempt are taken for the node's.
Audit(n) ==
  /\ pc[n] = "audit" /\ Goto(n, "decide")
  /\ \E answer \in GitStatus :
       /\ changed' = [changed EXCEPT ![n] =
            reported[n] \cup IF Audited(n) THEN answer.paths ELSE {}]
       /\ blind' = IF ~answer.given THEN blind \cup {n} ELSE blind
  /\ used' = [used EXCEPT ![n] = @ + tokens[n]]
  /\ UNCHANGED <<tree, controlVars, attempt, initial, processVars, verdict, ran, own>>

\* Fault: the mutation audit of the worktree is left out.
MaySwitchReported(n) ==
  /\ verdict[n] = "transient" /\ reported[n] = {}
  /\ initial[n].paths = {}
  /\ tokens[n] > 0

\* A transient failure that changed nothing, in a worktree that was clean or
\* without Git, with its usage reported (no usage is unknown usage).
MaySwitch(n) ==
  /\ verdict[n] = "transient" /\ changed[n] = {}
  /\ initial[n].paths = {}
  /\ tokens[n] > 0

Decide(n) ==
  /\ pc[n] = "decide"
  /\ \/ /\ MaySwitch(n) /\ Goto(n, "try")
        /\ attempt' = [attempt EXCEPT ![n] = @ + 1]
     \/ /\ ~MaySwitch(n) /\ Goto(n, "done")
        /\ UNCHANGED attempt
  /\ UNCHANGED <<tree, controlVars, initial, used, changed, processVars, verdict, ghostVars>>

-----------------------------------------------------------------------------
(* What a failed process wrote to stderr, by what the code looks for in it.*)

Complaints == {"authentication", "quota", "rate limit", "sandbox", "permission", "network",
               "billing", "gateway", "unsupported", "other"}

\* map_error() of both drivers.
ErrorCode(c) ==
  CASE c = "authentication"           -> "authentication_required"
    [] c \in {"quota", "rate limit"}  -> "rate_limited"
    [] c = "sandbox"                  -> "sandbox_error"
    [] c = "permission"               -> "permission_denied"
    [] c = "network"                  -> "network_error"
    [] OTHER                          -> "process_failed"

\* classify_route_failure(): by the code, and by the message of a process
\* that merely failed.
FailureClass(c) ==
  CASE ErrorCode(c) = "authentication_required" -> "authentication"
    [] ErrorCode(c) \in {"sandbox_error", "permission_denied"} -> "policy"
    [] ErrorCode(c) \in {"rate_limited", "network_error"} -> "transient"
    [] c = "billing"     -> "quota"
    [] c = "gateway"     -> "transient"
    [] c = "unsupported" -> "unsupported"
    [] OTHER             -> "unknown"

Classes == {"transient", "authentication", "quota", "unsupported", "policy", "budget", "unknown"}

-----------------------------------------------------------------------------
(* CodexDriver.execute_streaming() of the route of the attempt             *)

Route(n) == attempt[n]

\* It returns without a process.
Return(n, status) ==
  /\ Goto(n, "audit")
  /\ verdict' = [verdict EXCEPT ![n] = status]

\* The second look at the installation, then the cancel flag.
Check(n) ==
  /\ pc[n] = "check"
  /\ tokens' = [tokens EXCEPT ![n] = 0] /\ reported' = [reported EXCEPT ![n] = {}]
  /\ \/ Return(n, "unavailable")
     \/ Route(n) \in cancelled /\ Return(n, "cancelled")
     \/ Route(n) \notin cancelled /\ Goto(n, "launch") /\ UNCHANGED verdict
  /\ UNCHANGED <<tree, controlVars, nodeVars, registered, proc, ghostVars>>

\* Popen, which may fail with "launch_failed".
Launch(n) ==
  /\ pc[n] = "launch"
  /\ \/ /\ Return(n, "transient")
        /\ UNCHANGED <<proc, ran>>
     \/ /\ Goto(n, "register")
        /\ proc' = [proc EXCEPT ![n] = "running"]
        /\ ran' = ran \cup {n}
        /\ UNCHANGED verdict
  /\ UNCHANGED <<tree, controlVars, nodeVars, registered, tokens, reported, own, blind>>

Register(n) ==
  /\ pc[n] = "register" /\ Goto(n, "poll")
  /\ registered' = registered \cup {n}
  /\ verdict' = [verdict EXCEPT ![n] = "none"]
  /\ UNCHANGED <<tree, controlVars, nodeVars, proc, tokens, reported, ghostVars>>

\* _terminate_process(): SIGTERM, unless it has ended.
Terminate(ns) == proc' = [n \in Nodes |-> IF n \in ns /\ proc[n] = "running" THEN "dying" ELSE proc[n]]

Ends(n, status) ==
  /\ verdict' = [verdict EXCEPT ![n] = status]
  /\ Terminate({n})
  /\ Goto(n, "wait")
  /\ UNCHANGED <<tree, controlVars, nodeVars, registered, tokens, reported, ghostVars>>

\* Fault: the loop leaves a cancellation to the signal of cancel().
PollSignalled(n) ==
  /\ pc[n] = "poll"
  /\ \/ Alive(n) /\ Over(n) /\ Ends(n, "budget")
     \/ ~Alive(n) /\ Ends(n, "none")

\* The loop of the node's thread: while the process lives, the cancel flag,
\* then the deadline (TimeOut), then the budget.
Poll(n) ==
  /\ pc[n] = "poll"
  /\ \/ Alive(n) /\ Route(n) \in cancelled /\ Ends(n, "cancelled")
     \/ Alive(n) /\ Route(n) \notin cancelled /\ Over(n) /\ Ends(n, "budget")
     \/ ~Alive(n) /\ Ends(n, "none")

TimeOut(n) == pc[n] = "poll" /\ Alive(n) /\ Route(n) \notin cancelled /\ Ends(n, "timed_out")

\* The grace period is over: SIGKILL.
Kill(n) ==
  /\ pc[n] = "wait" /\ Alive(n)
  /\ proc' = [proc EXCEPT ![n] = "other"]
  /\ UNCHANGED <<tree, controlVars, pc, nodeVars, registered, tokens, reported, verdict, ghostVars>>

\* The result, in the order of the tests after the loop.  Output that is not
\* JSON is one more kind of "other".
ResultOf(n) ==
  CASE verdict[n] = "cancelled" -> "cancelled"
    [] verdict[n] = "timed_out" -> "transient"
    [] verdict[n] \notin {"cancelled", "timed_out"} /\ Over(n) -> "budget"
    [] OTHER -> IF proc[n] = "completed" THEN "completed" ELSE FailureClass(proc[n])

\* The process has ended and both reader threads are through.
Reap(n) ==
  /\ pc[n] = "wait" /\ ~Alive(n)
  /\ registered' = registered \ {n}
  /\ Return(n, ResultOf(n))
  /\ proc' = [proc EXCEPT ![n] = "none"]
  /\ UNCHANGED <<tree, controlVars, nodeVars, tokens, reported, ghostVars>>

-----------------------------------------------------------------------------
(* cancel(): each driver in turn, its flag, then its processes.            *)

CancelFlag ==
  /\ canceller.route <= Routes /\ canceller.does = "flag"
  /\ cancelled' = cancelled \cup {canceller.route}
  /\ canceller' = [canceller EXCEPT !.does = "signal"]
  /\ UNCHANGED <<tree, pc, nodeVars, processVars, verdict, ghostVars>>

CancelSignal ==
  /\ canceller.does = "signal"
  /\ Terminate({n \in registered : Route(n) = canceller.route})
  /\ canceller' = [route |-> canceller.route + 1, does |-> "flag"]
  /\ UNCHANGED <<tree, cancelled, pc, nodeVars, registered, tokens, reported, verdict, ghostVars>>

-----------------------------------------------------------------------------
(* The provider process of a node.                                         *)

Change(n, p, told) ==
  /\ Alive(n) /\ p \notin own[n]
  /\ tree' = tree \cup {p} /\ own' = [own EXCEPT ![n] = @ \cup {p}]
  /\ reported' = IF told THEN [reported EXCEPT ![n] = @ \cup {p}] ELSE reported
  /\ UNCHANGED <<controlVars, pc, nodeVars, registered, proc, tokens, verdict, ran, blind>>

\* A usage event beyond the allocation ends the process from the reader.
ReportUsage(n, k) ==
  /\ Alive(n) /\ pc[n] \in {"poll", "wait"}
  /\ used[n] + tokens[n] + k <= MaxTokens
  /\ tokens' = [tokens EXCEPT ![n] = @ + k]
  /\ proc' = [proc EXCEPT ![n] = IF tokens[n] + k > Remaining(n) THEN "dying" ELSE @]
  /\ UNCHANGED <<tree, controlVars, pc, nodeVars, registered, reported, verdict, ghostVars>>

\* With exit status zero, or with a complaint.
Exit(n, how) ==
  /\ Alive(n)
  /\ proc' = [proc EXCEPT ![n] = how]
  /\ UNCHANGED <<tree, controlVars, pc, nodeVars, registered, tokens, reported, verdict, ghostVars>>

\* Somebody else changes the worktree.
Elsewhere(p) ==
  /\ p \notin tree /\ tree' = tree \cup {p}
  /\ UNCHANGED <<controlVars, pc, nodeVars, processVars, verdict, ghostVars>>

-----------------------------------------------------------------------------
RouterInit ==
  /\ tree \in SUBSET Paths
  /\ cancelled = {} /\ canceller = [route |-> 1, does |-> "flag"]
  /\ pc = [n \in Nodes |-> "idle"] /\ attempt = [n \in Nodes |-> 1]
  /\ initial = [n \in Nodes |-> NoAnswer] /\ used = [n \in Nodes |-> 0]
  /\ registered = {} /\ proc = [n \in Nodes |-> "none"]
  /\ tokens = [n \in Nodes |-> 0] /\ reported = [n \in Nodes |-> {}]
  /\ changed = [n \in Nodes |-> {}] /\ verdict = [n \in Nodes |-> "none"]
  /\ ran = {} /\ own = [n \in Nodes |-> {}] /\ blind = {}

Thread(n) ==
  \/ LookFirst(n) \/ GiveUp(n) \/ PassOver(n) \/ Execute(n) \/ Audit(n) \/ Decide(n)
  \/ Check(n) \/ Launch(n) \/ Register(n) \/ Poll(n) \/ Kill(n) \/ Reap(n)

Provider(n) ==
  \/ \E p \in Paths, told \in BOOLEAN : Change(n, p, told)
  \/ \E k \in Amounts : ReportUsage(n, k)
  \/ \E how \in {"completed"} \cup Complaints : Exit(n, how)

Cancel == CancelFlag \/ CancelSignal

RouterNext ==
  \/ Cancel \/ \E p \in Paths : Elsewhere(p)
  \/ \E n \in Nodes : Thread(n) \/ TimeOut(n) \/ Provider(n)

\* Threads go on; a deadline may be far away, a provider may hang.
Fairness == \A n \in Nodes : WF_routerVars(Thread(n))

RouterSpec == RouterInit /\ [][RouterNext]_routerVars /\ Fairness

-----------------------------------------------------------------------------
\* Every variable has its type.
RouterTypeOK ==
  /\ tree \subseteq Paths /\ cancelled \subseteq 1..Routes
  /\ canceller \in [route : 1..(Routes + 1), does : {"flag", "signal"}]
  /\ pc \in [Nodes -> {"idle", "try", "check", "launch", "register", "poll", "wait", "audit",
                       "decide", "done"}]
  /\ attempt \in [Nodes -> 1..(Routes + 1)]
  /\ initial \in [Nodes -> [given : BOOLEAN, paths : SUBSET Paths]]
  /\ used \in [Nodes -> 0..MaxTokens] /\ tokens \in [Nodes -> 0..MaxTokens]
  /\ registered \subseteq Nodes /\ ran \subseteq Nodes /\ blind \subseteq Nodes
  /\ proc \in [Nodes -> {"none", "running", "dying", "completed"} \cup Complaints]
  /\ reported \in [Nodes -> SUBSET Paths] /\ changed \in [Nodes -> SUBSET Paths]
  /\ own \in [Nodes -> SUBSET Paths]
  /\ verdict \in [Nodes -> {"none", "unavailable", "cancelled", "timed_out", "completed"}
                            \cup Classes]

(* As long as Git answers, no change of a provider is lost sight of.  A    *)
(* second provider is started for a node only when the first has changed   *)
(* nothing, whether it said so or not and whether or not it was killed,    *)
(* and only when it said what it used ("a provider can be replaced only    *)
(* after a transient failure with no observed file mutation and reported   *)
(* usage").  What a node's result names as changed covers all that its     *)
(* providers changed, in whichever attempt, when the worktree was clean:   *)
(* the scope audit of the run rests on it.                                 *)
ChangesAreSeen ==
  \A n \in Nodes :
    /\ pc[n] = "launch" /\ n \in ran =>
         /\ n \notin blind => own[n] = {}
         /\ used[n] \in 1..(FreshLimit - 1)
    /\ pc[n] = "done" /\ Audited(n) /\ n \notin blind => own[n] \subseteq changed[n]

(* After cancel() every node comes to its end and leaves no process, also  *)
(* one whose process was started or registered while cancel() ran, and     *)
(* also when the provider ignores the signal; no deadline is needed.       *)
CancelEnds ==
  canceller.route > Routes ~> \A n \in Nodes : pc[n] = "done" /\ proc[n] = "none"
=============================================================================
