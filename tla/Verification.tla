----------------------------- MODULE Verification ------------------------------
(***************************************************************************)
(* The verification of a guided run (verification_pipeline.py), with the   *)
(* preparation of the dependencies it needs (dependency_bootstrap.py), as  *)
(* the gate before a run, its worker and a revert in the review use them   *)
(* (web_desktop.py), and what a restart restores of it.                    *)
(*                                                                         *)
(* One thread at a time: a request is refused while a run is active.  Its  *)
(* commands are processes of the environment, which end when they like and *)
(* may leave a descendant behind that holds the pipes of their output; the *)
(* agent, a check and the user change the isolated copy (Edit).            *)
(***************************************************************************)
EXTENDS Naturals, Sequences

CONSTANTS
  Contracts,    \* versions of .empy/verification.json
  Checks,       \* what may be run to verify a copy
  ChecksOf,     \* the checks mapped under each version that can be read
  Rounds,       \* passes of the gate over missing dependencies
  MaxEdits      \* bound: changes of the copy

ASSUME VerificationAssumption ==
  /\ DOMAIN ChecksOf \subseteq Contracts /\ ChecksOf \in [DOMAIN ChecksOf -> Seq(Checks)]
  /\ Rounds \in Nat /\ MaxEdits \in Nat

Managers == {"composer", "npm"}

VARIABLES
  project,   \* what the checks and the diagnostics depend on
  stage,     \* where the request or the worker is
  round,     \* passes of the gate so far
  look,      \* the last preflight
  command,   \* the running command and what its supervisor does
  event,     \* cancel_event of the worker: none, clear or set
  results,   \* of the checks so far
  contract,  \* what the signature of this verification was made of
  shown,     \* self.verification
  linked,    \* the verification the manifest of the latest run leads to
  edits

locals == <<round, look, results, contract>>
verificationVars ==
  <<project, stage, command, event, locals, shown, linked, edits>>

NoContract == [checks |-> <<>>, version |-> "none"]
NoLook     == [checks |-> <<>>, found |-> {}, at |-> 0]
NoReport   == [status |-> "none", results |-> <<>>, found |-> {}, contract |-> NoContract]
NoCommand  == [does |-> "none", manager |-> "none", leader |-> "none", helper |-> "none",
               stop |-> "none"]

Quiet == command = NoCommand
Asked == event = "set"

\* The request or the worker ends, and its locals with it.
Leave ==
  /\ stage' = "idle"
  /\ round' = 0 /\ look' = NoLook /\ results' = <<>> /\ contract' = NoContract

-----------------------------------------------------------------------------
(* The preflight. *)

Readable(p) == p.version \in DOMAIN ChecksOf

Mapped(p) == IF Readable(p) THEN ChecksOf[p.version] ELSE <<>>

\* The manager whose dependencies the kind of the project has diagnosed.
Own(p) == IF p.kind = "node" THEN "npm" ELSE "composer"

\* A support file opens index.html where the application has index.php.
EntryStale(p) == p.kind = "php" /\ p.entry = "stale"

Prerequisites(p) ==
  {d \in {"entry"} : EntryStale(p)} \cup {d \in {"unprepared"} : Own(p) \in p.missing}

StaticFindings(p) == {d \in {"links"} : p.links # "sound"}

Diagnostics(p) ==
  {d \in {"unreadable"} : ~Readable(p)} \cup Prerequisites(p) \cup StaticFindings(p)
    \cup {d \in {"nothing"} : Mapped(p) = <<>>}

Look(p) == [checks |-> Mapped(p), found |-> Diagnostics(p), at |-> edits]

\* A reference into the directory of its own stylesheet becomes relative.  A
\* file that cannot be written stays as it is.
LinksRepaired(p) ==
  IF p.links = "doubled" THEN {p, [p EXCEPT !.links = "sound"]} ELSE {p}

EntryRepaired(p) ==
  IF EntryStale(p) THEN {p, [p EXCEPT !.entry = "sound"]} ELSE {p}

-----------------------------------------------------------------------------
(* The gate of a run. *)

\* Mutant: only what concerns dependencies stops a run.
BlockingPrepared(l) == l.found \cap {"unprepared"}

\* Broken references may be what the run is to repair.
Blocking(l) == l.found \ {"links"}

Start ==
  /\ stage = "idle" /\ stage' = "gate" /\ round' = 0
  /\ \E p \in LinksRepaired(project) : \E q \in EntryRepaired(p) :
       /\ project' = q /\ look' = Look(q)
  /\ UNCHANGED <<command, event, results, contract, shown, linked, edits>>

\* Neither memory nor provider turned the run away: it is recorded.
Admit ==
  /\ stage = "gate" /\ Quiet /\ Blocking(look) = {}
  /\ stage' = "before" /\ event' = "clear" /\ linked' = NoReport
  /\ UNCHANGED <<project, command, locals, shown, edits>>

TurnAway ==
  /\ stage = "gate" /\ Quiet
  /\ Blocking(look) = {"unprepared"} => round = Rounds
  /\ Leave
  /\ UNCHANGED <<project, command, event, shown, linked, edits>>

-----------------------------------------------------------------------------
(* prepare_project_dependencies(), for the gate, before the agent and after *)
(* it.                                                                      *)

\* Composer first; npm when nothing is left for it.
Planned(p) ==
  IF "composer" \in p.missing THEN "composer"
  ELSE IF "npm" \in p.missing THEN "npm" ELSE "none"

Preparing ==
  /\ Quiet
  /\ \/ stage = "gate" /\ Blocking(look) = {"unprepared"} /\ round < Rounds
     \/ stage \in {"before", "after"}

\* The gate looks again, the worker does not.
Prepared ==
  /\ stage' = CASE stage = "gate" -> "gate" [] stage = "before" -> "agent"
                [] stage = "after" -> "verify"
  /\ IF stage = "gate" THEN round' = round + 1 /\ look' = Look(project') ELSE UNCHANGED <<round, look>>
  /\ UNCHANGED <<results, contract>>

NothingToPrepare ==
  /\ Preparing /\ Planned(project) = "none"
  /\ UNCHANGED project /\ Prepared
  /\ UNCHANGED <<command, event, shown, linked, edits>>

\* No lock file, no tool, or a tool that does not start.
CannotPrepare ==
  /\ Preparing /\ Planned(project) # "none" /\ Leave
  /\ UNCHANGED <<project, command, event, shown, linked, edits>>

Begin(manager) ==
  \E h \in {"none", "group", "away"} :
     command' = [does |-> "poll", manager |-> manager, leader |-> "running", helper |-> h,
                 stop |-> "none"]

Install ==
  /\ Preparing /\ Planned(project) # "none"
  /\ Begin(Planned(project))
  /\ UNCHANGED <<project, stage, event, locals, shown, linked, edits>>

\* The directory may be there whatever became of the command.  A stopped
\* command has failed even if it ended with zero.
Installed ==
  /\ command.does = "report" /\ command.manager # "none"
  /\ \E made \in {{}, {command.manager}} :
       /\ project' = [project EXCEPT !.missing = @ \ made]
       /\ IF command.leader = "zero" /\ command.stop = "none" /\ command.manager \notin project'.missing
          THEN Prepared ELSE Leave
  /\ command' = NoCommand
  /\ UNCHANGED <<event, shown, linked, edits>>

-----------------------------------------------------------------------------
(* A command and its supervisor: the loop of _run_command() and of          *)
(* _run_check().                                                            *)

Supervise(does) == command' = [command EXCEPT !.does = does]

Does(state) == command.does = state

Polled ==
  /\ Does("poll") /\ command.leader # "running" /\ Supervise("join")
  /\ UNCHANGED <<project, stage, event, locals, shown, linked, edits>>

\* SIGTERM to the group, which may ignore it.  Preparation for the gate has no
\* cancel event.
StopFor(why) ==
  /\ Does("poll") /\ command.leader = "running"
  /\ why = "cancel" => Asked /\ stage # "gate"
  /\ command' = [command EXCEPT !.does = "grace", !.stop = why]
  /\ UNCHANGED <<project, stage, event, locals, shown, linked, edits>>

\* Mutant: a command that outlives its grace is waited for.
GraceWaits ==
  /\ Does("grace") /\ command.leader # "running" /\ Supervise("join")
  /\ UNCHANGED <<project, stage, event, locals, shown, linked, edits>>

\* The grace is over: SIGKILL to the group of a command that still runs.
Grace ==
  /\ Does("grace")
  /\ command' = IF command.leader = "running"
                THEN [command EXCEPT !.does = "join", !.leader = "killed",
                                     !.helper = IF @ = "group" THEN "none" ELSE @]
                ELSE [command EXCEPT !.does = "join"]
  /\ UNCHANGED <<project, stage, event, locals, shown, linked, edits>>

\* The readers end with the pipes; only an installation waits for them no
\* longer than two seconds.
Join ==
  /\ Does("join") /\ (command.helper = "none" \/ command.manager # "none")
  /\ Supervise("report")
  /\ UNCHANGED <<project, stage, event, locals, shown, linked, edits>>

-----------------------------------------------------------------------------
(* The agent, then VerificationRuntime.run(). *)

AgentEnds(completed) ==
  /\ stage = "agent"
  /\ IF completed THEN stage' = "after" /\ UNCHANGED locals ELSE Leave
  /\ UNCHANGED <<project, command, event, shown, linked, edits>>

\* A decision to revert verifies the copy anew, without a cancel event.
Revert ==
  /\ stage = "idle" /\ shown # NoReport
  /\ shown' = NoReport /\ stage' = "verify" /\ event' = "none"
  /\ UNCHANGED <<project, command, locals, linked, edits>>

\* VerificationCancelled, VerificationTimedOut.
Raise == Leave /\ UNCHANGED <<project, event, shown, linked, edits>>

Examine ==
  /\ stage = "verify"
  /\ \/ Asked /\ Raise /\ UNCHANGED command
     \/ /\ ~Asked /\ stage' = "sign" /\ look' = Look(project)
        /\ UNCHANGED <<project, round, results, command, event, contract, shown, linked, edits>>

\* Mutant: the checks are mapped once more.
ContractAgain(checks, p) == [checks |-> Mapped(p), version |-> p.version]

\* The checks of the preflight with the manifest as it is now.
Contract(checks, p) == [checks |-> checks, version |-> p.version]

Sign ==
  /\ stage = "sign" /\ stage' = "check"
  /\ contract' = Contract(look.checks, project)
  /\ UNCHANGED <<project, round, look, command, event, results, shown, linked, edits>>

ChecksLeft == look.found = {} /\ Len(results) < Len(look.checks)

Result(ok) ==
  [check |-> look.checks[Len(results) + 1], ok |-> ok, stop |-> command.stop, asked |-> Asked]

Check127 ==
  /\ stage = "check" /\ Quiet /\ ChecksLeft
  /\ ~Asked /\ results' = Append(results, Result(FALSE))
  /\ UNCHANGED <<project, stage, round, look, command, event, contract, shown, linked, edits>>

RunCheck ==
  /\ stage = "check" /\ Quiet /\ ChecksLeft
  /\ \/ Asked /\ Raise /\ UNCHANGED command
     \/ /\ ~Asked /\ Begin("none")
        /\ UNCHANGED <<project, stage, event, locals, shown, linked, edits>>

\* Mutant: the exit status counts, however the command ended.
CheckEndsAnyhow ==
  /\ Does("report") /\ command.manager = "none" /\ command' = NoCommand
  /\ results' = Append(results, Result(command.leader = "zero"))
  /\ UNCHANGED <<project, stage, round, look, event, contract, shown, linked, edits>>

CheckEnds ==
  /\ Does("report") /\ command.manager = "none" /\ command' = NoCommand
  /\ \/ command.stop # "none" /\ Raise
     \/ /\ command.stop = "none"
        /\ results' = Append(results, Result(command.leader = "zero"))
        /\ UNCHANGED <<project, stage, round, look, event, contract, shown, linked, edits>>

Passed ==
  /\ look.checks # <<>> /\ look.found = {}
  /\ \A i \in DOMAIN results : results[i].ok

Report ==
  [status |-> IF Passed THEN "pass" ELSE "fail", results |-> results, found |-> look.found,
   contract |-> contract]

\* Mutant: the flag is not read after the last check.
ConcludeAnyhow ==
  /\ stage = "check" /\ Quiet /\ ~ChecksLeft
  /\ shown' = Report /\ stage' = "save"
  /\ UNCHANGED <<project, command, event, locals, linked, edits>>

\* The report is finalized and shown, and saved; the review of the worker may
\* fail before that.
Conclude ==
  /\ stage = "check" /\ Quiet /\ ~ChecksLeft
  /\ \/ Raise /\ UNCHANGED command
     \/ /\ ~Asked /\ shown' = Report /\ stage' = "save"
        /\ UNCHANGED <<project, command, event, locals, linked, edits>>

\* The manifest of the run names it.
Link ==
  /\ stage = "save" /\ linked' = shown /\ Leave
  /\ UNCHANGED <<project, command, event, shown, edits>>

-----------------------------------------------------------------------------
(* Restart. *)

\* The program ends; its commands are nobody's any more.
Crash ==
  /\ shown' = NoReport /\ Leave /\ command' = NoCommand /\ event' = "none"
  /\ UNCHANGED <<project, linked, edits>>

\* Mutant: the fingerprint of the manifest alone.
StaleVersion(report) == report.contract.version # project.version

\* verification_staleness_reason(), which fails for a manifest that cannot be read.
Stale(report) == ~Readable(project) \/ report.contract # Contract(Mapped(project), project)

Current == IF Readable(project) THEN Contract(Mapped(project), project) ELSE NoContract

\* _restore_task_artifacts(): stale evidence is marked as failed, for good.
Restore ==
  /\ stage = "idle" /\ shown = NoReport /\ linked # NoReport
  /\ shown' = IF Stale(linked)
              THEN [linked EXCEPT !.status = "fail", !.found = @ \cup {"stale"}, !.contract = Current]
              ELSE linked
  /\ linked' = shown'
  /\ UNCHANGED <<project, stage, command, event, locals, edits>>

-----------------------------------------------------------------------------
(* The user and the environment. *)

\* cancel_run() and the deadline of the workflow: only a worker has the event.
AskToStop ==
  /\ stage \in {"before", "agent", "after", "verify", "sign", "check"}
  /\ event = "clear" /\ event' = "set"
  /\ UNCHANGED <<project, stage, command, locals, shown, linked, edits>>

CommandExits(code) ==
  /\ command.leader = "running" /\ command' = [command EXCEPT !.leader = code]
  /\ UNCHANGED <<project, stage, event, locals, shown, linked, edits>>

HelperExit ==
  /\ command.helper # "none" /\ command' = [command EXCEPT !.helper = "none"]
  /\ UNCHANGED <<project, stage, event, locals, shown, linked, edits>>

Edit ==
  /\ edits < MaxEdits /\ edits' = edits + 1
  /\ \/ \E v \in Contracts \ {project.version} : project' = [project EXCEPT !.version = v]
     \/ \E m \in Managers \ project.missing : project' = [project EXCEPT !.missing = @ \cup {m}]
     \/ project.kind = "php" /\ project.entry = "sound" /\ project' = [project EXCEPT !.entry = "stale"]
     \/ \E l \in {"sound", "broken"} \ {project.links} : project' = [project EXCEPT !.links = l]
  /\ UNCHANGED <<stage, command, event, locals, shown, linked>>

-----------------------------------------------------------------------------
\* Copies as they may be imported.
Projects ==
  {p \in [kind : {"php", "node"}, version : Contracts, missing : SUBSET Managers,
           entry : {"sound", "stale"}, links : {"sound", "doubled", "broken"}] :
     p.kind = "node" => p.entry = "sound"}

VerificationInit ==
  /\ project \in Projects
  /\ stage = "idle" /\ round = 0 /\ look = NoLook /\ command = NoCommand /\ event = "none"
  /\ results = <<>> /\ contract = NoContract /\ shown = NoReport /\ linked = NoReport
  /\ edits = 0

Supervisor == Polled \/ StopFor("cancel") \/ StopFor("deadline") \/ Grace \/ Join

Verifier ==
  \/ Admit \/ TurnAway \/ NothingToPrepare \/ CannotPrepare \/ Install \/ Installed
  \/ Supervisor
  \/ Examine \/ Sign \/ Check127 \/ RunCheck \/ CheckEnds \/ Conclude \/ Link

Commands == (\E code \in {"zero", "other"} : CommandExits(code)) \/ HelperExit

VerificationNext ==
  \/ Start \/ Revert \/ Restore \/ Verifier
  \/ (\E completed \in BOOLEAN : AgentEnds(completed))
  \/ AskToStop \/ Crash \/ Commands \/ Edit

VerificationFairness == WF_verificationVars(Verifier)

VerificationSpec ==
  VerificationInit /\ [][VerificationNext]_verificationVars /\ VerificationFairness

-----------------------------------------------------------------------------
(* Properties. *)

(* A report that passes, shown or restored, had every check of its contract *)
(* run in order and end by itself with zero while nobody had asked to stop, *)
(* and nothing was diagnosed: not a check that was stopped and ended with   *)
(* zero, not one of an earlier verification, not the checks of a contract   *)
(* that was not read (VerificationRuntime.run, _run_check, _run_worker).    *)
PassIsEarned ==
  \A r \in {shown, linked} :
    r.status = "pass" =>
      /\ r.results # <<>> /\ r.found = {}
      /\ [i \in 1..Len(r.results) |-> r.results[i].check] = r.contract.checks
      /\ \A i \in 1..Len(r.results) :
           r.results[i].ok /\ r.results[i].stop = "none" /\ ~r.results[i].asked

(* A report that passes after a restart ran exactly the checks the project  *)
(* has now, although checks may change between the preflight, the           *)
(* signature, the last check and the restart (verification_contract_        *)
(* signature, verification_staleness_reason, _restore_task_artifacts).      *)
EvidenceIsCurrent ==
  [][stage = "idle" /\ shown = NoReport /\ shown'.status = "pass" =>
       [i \in 1..Len(shown'.results) |-> shown'.results[i].check] = Mapped(project)]_verificationVars

(* When the agent is started, the project has checks that can be run: the   *)
(* contract can be read, no support file has the wrong entry point and the  *)
(* dependencies of its kind are there, unless the copy was changed since    *)
(* the gate looked (start of a run, prepare_project_dependencies).          *)
AgentCanBeVerified ==
  stage = "agent" /\ edits = look.at =>
    Readable(project) /\ Mapped(project) # <<>> /\ Prerequisites(project) = {}

\* A check has ended and one of its descendants holds the pipes of its output.
Held == Does("join") /\ command.manager = "none" /\ command.helper # "none"

(* What a command ignores, a deadline and the grace do not: a request, and  *)
(* a worker before and after its agent, come to an end, unless a descendant *)
(* of a check that ended or was killed keeps its output open (_run_check    *)
(* joins its readers without a limit, _run_command does not).               *)
VerificationEnds ==
  stage \notin {"idle", "agent"} ~> stage \in {"idle", "agent"} \/ Held
=============================================================================
