------------------------------ MODULE Delivery ------------------------------
(***************************************************************************)
(* Delivery in the guided web desktop: what happens to the files of the    *)
(* isolated copy between a run and the ZIP.  web_desktop.py (GuidedState), *)
(* review_workspace.py (captured diffs and decisions),                     *)
(* verification_pipeline.py (a verification and its finalization) and      *)
(* project_delivery.py (the change-only export).                           *)
(*                                                                         *)
(* The run is the worker thread's: the agents write, then the work is      *)
(* verified and captured for review.  Decisions and exports are HTTP       *)
(* requests, each handled by its own thread, and nothing keeps them apart  *)
(* from one another or from a run.  The desktop may stop at any point and  *)
(* restores the session from what it had written.                          *)
(***************************************************************************)
EXTENDS Integers, FiniteSets

CONSTANTS Tickets,      \* tickets of the project
          Requests,     \* threads that handle a decision or an export
          Files,        \* project files
          Contents,     \* what a file may contain
          Absent,       \* the file does not exist
          Baseline,     \* the files when the project was imported
          NoTicket,     \* no ticket is open
          MaxRuns,      \* bound: runs that are started
          MaxDecisions, \* bound: requests that decide
          Incidents,    \* which of these may happen: "resume" (of a ticket),
                        \* "edit" (of a file), "fault" (a call raises), "stop" (of the desktop)
          MaxIncidents  \* bound: how many of them do

Trees == [Files -> Contents \cup {Absent}]

ASSUME DeliveryAssumption ==
    /\ Absent \notin Contents
    /\ NoTicket \notin Tickets
    /\ Baseline \in Trees
    /\ {MaxRuns, MaxDecisions, MaxIncidents} \subseteq Nat

VARIABLES tree,         \* the worktree of the isolated copy
          head,         \* the tree its HEAD names
          rev,          \* which commit HEAD is
          commits,      \* commits made so far
          base,         \* the saved carry-forward base: a commit and its tree
          reviews,      \* stored review reports, by id
          manifest,     \* per ticket: what its latest run's manifest records
          releases,     \* per ticket: its latest release
          shown,        \* GuidedState: ticket, run, verification, review, export
          worker,       \* the run's thread
          handler,      \* per request thread: its local variables
          runs, decisions, incidents,
          verified,     \* history: trees that passed a verification which saw nothing else
          accepted,     \* history: file contents the user accepted
          delivered,    \* history: trees that were exported
          damage        \* history: how evidence and files were let drift apart

git == <<head, rev, commits, base>>
store == <<reviews, manifest, releases>>
bounds == <<runs, decisions, incidents>>
history == <<verified, accepted, delivered, damage>>
vars == <<tree, git, store, shown, worker, handler, bounds, history>>

Decisions == {"none", "pending", "accepted", "reverted"}

\* A review: the commit it was captured at, each file's content then, and the decisions.
NoReview == [id |-> 0, rev |-> 0, sha |-> Baseline, decision |-> [f \in Files |-> "none"]]

With(review, decision) == {f \in Files : review.decision[f] = decision}

\* review_snapshot_drift: accepted files whose bytes changed since.
Drifted(review) == {f \in With(review, "accepted") : tree[f] # review.sha[f]}

\* A verification: "pass" is finalized.  "of" is the tree it saw, which the code does not record.
NoVerification == [status |-> "none", of |-> Baseline]

NoExport == [exists |-> FALSE, tree |-> Baseline]

NoManifest == [run |-> "none", verification |-> NoVerification, review |-> 0]

NoBase == [set |-> FALSE, rev |-> 0, tree |-> Baseline]

Session(t, run, verification, review, export) ==
    [ticket |-> t, run |-> run, verification |-> verification, review |-> review, export |-> export]

Idle == [pc |-> "idle", decision |-> "none", todo |-> {}, report |-> NoReview,
         loaded |-> NoReview, taken |-> {}, seen |-> Baseline]

Resting(t) == [pc |-> "idle", ticket |-> t, todo |-> {}, seen |-> Baseline, verification |-> NoVerification]

Running == worker.pc # "idle"

Incident(kind) == kind \in Incidents /\ incidents < MaxIncidents /\ incidents' = incidents + 1

\* The history notes when something begins while another request than these is being handled.
Overlap(S) == IF \E r \in Requests \ S : handler[r].pc # "idle" THEN {"overlap"} ELSE {}

\* Or when a revert ends before it drops the verification.
CutOff(S) == IF \E r \in S : handler[r].decision = "reverted" THEN {"cut off"} ELSE {}

\* A ticket was just planned in a freshly imported project.
Init ==
    /\ tree = Baseline /\ head = Baseline
    /\ rev = 0 /\ commits = 0 /\ base = NoBase
    /\ reviews = [i \in 1..MaxRuns |-> NoReview]
    /\ manifest = [t \in Tickets |-> NoManifest]
    /\ releases = [t \in Tickets |-> NoExport]
    /\ shown \in {Session(t, "none", NoVerification, NoReview, NoExport) : t \in Tickets}
    /\ worker = Resting(NoTicket)
    /\ handler = [r \in Requests |-> Idle]
    /\ runs = 0 /\ decisions = 0 /\ incidents = 0
    /\ verified = {} /\ accepted = {} /\ delivered = {} /\ damage = {}

-----------------------------------------------------------------------------
(* The isolated Git repository.                                            *)

\* checkpoint_accepted_changes: a commit of these paths as they are now.
Checkpoint(paths) ==
    /\ head' = [f \in Files |-> IF f \in paths THEN tree[f] ELSE head[f]]
    /\ rev' = commits + 1
    /\ commits' = commits + 1

\* _prepare_clean_worktree_for_run: work left in the tree is committed, and the commit before the
\* first such checkpoint is remembered.
PrepareCleanWorktree ==
    IF tree = head THEN UNCHANGED git
    ELSE /\ Checkpoint(Files)
         /\ base' = IF base.set THEN base ELSE [set |-> TRUE, rev |-> rev, tree |-> head]

\* Mutant of RestoreReviewBase: the base is forgotten without a reset.
ForgetReviewBase ==
    /\ base' = NoBase
    /\ UNCHANGED <<head, rev, commits>>

\* _restore_carry_forward_review_base: git reset --mixed.
RestoreReviewBase ==
    /\ head' = IF base.set THEN base.tree ELSE head
    /\ rev' = IF base.set THEN base.rev ELSE rev
    /\ base' = NoBase
    /\ UNCHANGED commits

-----------------------------------------------------------------------------
(* The run.                                                                *)

\* start_run.  It leaves the run, verification, review and export it shows as they are.
StartRun ==
    /\ ~Running /\ shown.ticket # NoTicket
    /\ runs < MaxRuns
    /\ runs' = runs + 1
    /\ PrepareCleanWorktree
    /\ manifest' = [manifest EXCEPT ![shown.ticket] = NoManifest]
    /\ worker' = [Resting(shown.ticket) EXCEPT !.pc = "agents", !.todo = Files]
    /\ damage' = damage \cup Overlap({})
    /\ UNCHANGED <<tree, reviews, releases, shown, handler, decisions, incidents,
                   verified, accepted, delivered>>

\* An agent changes a file of the copy.
AgentWrites(f, c) ==
    /\ worker.pc = "agents" /\ f \in worker.todo
    /\ c # tree[f]
    /\ tree' = [tree EXCEPT ![f] = c]
    /\ worker' = [worker EXCEPT !.todo = @ \ {f}]
    /\ UNCHANGED <<git, store, shown, handler, bounds, history>>

\* The runtime returned a completed run: it is shown at once.
AgentsComplete ==
    /\ worker.pc = "agents"
    /\ shown' = [shown EXCEPT !.run = "completed"]
    /\ worker' = [worker EXCEPT !.pc = "reset"]
    /\ UNCHANGED <<tree, git, store, handler, bounds, history>>

\* It returned a failed or cancelled run, or a later step raised: the verification, the review and
\* the export of an earlier run stay shown.
RunFails ==
    /\ worker.pc \in {"agents", "reset", "verify", "capture"}
    /\ shown' = [shown EXCEPT !.run = "failed"]
    /\ manifest' = [manifest EXCEPT ![worker.ticket] = [NoManifest EXCEPT !.run = "failed"]]
    /\ worker' = Resting(worker.ticket)
    /\ UNCHANGED <<tree, git, reviews, releases, handler, bounds, history>>

\* The commits of earlier attempts are undone, so that the review shows all of the work.
ResetForReview ==
    /\ worker.pc = "reset"
    /\ RestoreReviewBase
    /\ worker' = [worker EXCEPT !.pc = "verify", !.seen = tree]
    /\ UNCHANGED <<tree, store, shown, handler, bounds, history>>

\* The history notes a passing verification that began on the tree it ended on.
NotePassed(v) ==
    verified' = IF v.status = "pass" /\ v.of = tree THEN verified \cup {tree} ELSE verified

\* The checks ran.
WorkerVerifies(status) ==
    LET v == [status |-> status, of |-> worker.seen] IN
    /\ worker.pc = "verify"
    /\ NotePassed(v)
    /\ worker' = [worker EXCEPT !.pc = "capture", !.verification = v]
    /\ UNCHANGED <<tree, git, store, shown, handler, bounds, accepted, delivered, damage>>

\* ReviewRuntime.capture: every file that differs from HEAD, to be decided.
Captured(i) ==
    [id |-> i, rev |-> rev, sha |-> tree,
     decision |-> [f \in Files |-> IF tree[f] # head[f] THEN "pending" ELSE "none"]]

\* The review is stored, then it and the verification are shown.
CaptureReview ==
    /\ worker.pc = "capture"
    /\ reviews' = [reviews EXCEPT ![runs] = Captured(runs)]
    /\ shown' = [shown EXCEPT !.verification = worker.verification, !.review = Captured(runs)]
    /\ worker' = [worker EXCEPT !.pc = "finish"]
    /\ UNCHANGED <<tree, git, manifest, releases, handler, bounds, history>>

\* The manifest of the run is written, and the desktop is free for another.
FinishRun ==
    /\ worker.pc = "finish"
    /\ manifest' = [manifest EXCEPT ![worker.ticket] =
           [run |-> shown.run, verification |-> worker.verification, review |-> runs]]
    /\ worker' = Resting(worker.ticket)
    /\ UNCHANGED <<tree, git, reviews, releases, shown, handler, bounds, history>>

-----------------------------------------------------------------------------
(* Decisions.                                                              *)

Return(r) == handler' = [handler EXCEPT ![r] = Idle]

Request(r, local) ==
    /\ handler[r].pc = "idle"
    /\ handler' = [handler EXCEPT ![r] = local]
    /\ damage' = damage \cup Overlap({r}) \cup (IF Running THEN {"overlap"} ELSE {})
    /\ UNCHANGED <<tree, git, store, shown, worker, runs, incidents,
                   verified, accepted, delivered>>

\* decide_all, for every file of the review that is shown or for one of them.
Decide(r, decision, S) ==
    /\ shown.review.id # 0
    /\ LET listed == {f \in Files : shown.review.decision[f] # "none"} IN S = listed \/ \E f \in listed : S = {f}
    /\ decisions < MaxDecisions
    /\ decisions' = decisions + 1
    /\ Request(r, [Idle EXCEPT !.pc = "files", !.decision = decision, !.report = shown.review,
                               !.todo = S \cap With(shown.review, "pending")])

\* Mutant of TakeFile: undecided by the review as it was shown.
TakeShownFile(r, f) ==
    LET stored == reviews[handler[r].report.id] IN
    /\ handler[r].pc = "files" /\ f \in handler[r].todo
    /\ IF stored.rev = rev /\ stored.sha[f] = tree[f]
       THEN handler' = [handler EXCEPT ![r].loaded = stored, ![r].taken = {f}, ![r].todo = @ \ {f},
                           ![r].pc = IF handler[r].decision = "reverted" THEN "restore" ELSE "save"]
       ELSE Return(r)
    /\ UNCHANGED <<tree, git, store, shown, worker, bounds, history>>

\* The next file, by the review as it is stored now: it has to be undecided, at the same commit and
\* unchanged, or the request ends with an error.
TakeFile(r, f) ==
    LET stored == reviews[handler[r].report.id] IN
    /\ handler[r].pc = "files" /\ f \in handler[r].todo
    /\ IF stored.decision[f] = "pending" /\ stored.rev = rev /\ stored.sha[f] = tree[f]
       THEN handler' = [handler EXCEPT ![r].loaded = stored, ![r].taken = {f}, ![r].todo = @ \ {f},
                           ![r].pc = IF handler[r].decision = "reverted" THEN "restore" ELSE "save"]
       ELSE Return(r)
    /\ damage' = IF handler'[r].pc = "idle" THEN damage \cup CutOff({r}) ELSE damage
    /\ UNCHANGED <<tree, git, store, shown, worker, bounds, verified, accepted, delivered>>

\* git restore --source=HEAD, or the untracked file is unlinked.
RestoreFile(r) ==
    /\ handler[r].pc = "restore"
    /\ tree' = [f \in Files |-> IF f \in handler[r].taken THEN head[f] ELSE tree[f]]
    /\ handler' = [handler EXCEPT ![r].pc = "save"]
    /\ UNCHANGED <<git, store, shown, worker, bounds, history>>

\* The review that was loaded is stored with the decision.
SaveDecision(r) ==
    LET h == handler[r]
        report == [h.loaded EXCEPT !.decision = [f \in Files |-> IF f \in h.taken THEN h.decision ELSE @[f]]] IN
    /\ h.pc = "save"
    /\ reviews' = [reviews EXCEPT ![report.id] = report]
    /\ handler' = [handler EXCEPT ![r].report = report, ![r].pc = "files", ![r].taken = {}, ![r].loaded = NoReview]
    /\ accepted' = accepted \cup {<<f, report.sha[f]>> : f \in IF h.decision = "accepted" THEN h.taken ELSE {}}
    /\ UNCHANGED <<tree, git, manifest, releases, shown, worker, bounds, verified, delivered, damage>>

Decided(r) == handler[r].pc = "files" /\ handler[r].todo = {}

Closing(report) == With(report, "pending") = {} /\ With(report, "accepted") # {}

\* The review is complete: the accepted files are committed.
CheckpointAccepted(r) ==
    /\ Decided(r) /\ Closing(handler[r].report)
    /\ Checkpoint(With(handler[r].report, "accepted"))
    /\ handler' = [handler EXCEPT ![r].pc = "show"]
    /\ damage' = IF Drifted(handler[r].report) # {} THEN damage \cup {"committed"} ELSE damage
    /\ UNCHANGED <<tree, base, store, shown, worker, bounds, verified, accepted, delivered>>

\* Mutant of ShowDecisions: a revert keeps the verification.
ShowDecisionsOnly(r) ==
    LET h == handler[r] IN
    /\ h.pc = "show" \/ (Decided(r) /\ ~Closing(h.report))
    /\ shown' = [shown EXCEPT !.review = h.report]
    /\ Return(r)
    /\ UNCHANGED <<tree, git, store, worker, bounds, history>>

\* The decisions are shown.  A revert drops the verification and the export, and verifies again.
ShowDecisions(r) ==
    LET h == handler[r] IN
    /\ h.pc = "show" \/ (Decided(r) /\ ~Closing(h.report))
    /\ IF h.decision = "reverted"
       THEN /\ shown' = [shown EXCEPT !.review = h.report, !.verification = NoVerification, !.export = NoExport]
            /\ handler' = [handler EXCEPT ![r].pc = "verify", ![r].seen = tree]
            /\ damage' = IF Drifted(h.report) # {} THEN damage \cup {"verified anew"} ELSE damage
       ELSE /\ shown' = [shown EXCEPT !.review = h.report]
            /\ Return(r)
            /\ UNCHANGED damage
    /\ UNCHANGED <<tree, git, store, worker, bounds, verified, accepted, delivered>>

\* The manifest of the latest run of the open ticket is rewritten, if that run has one.
VerifyAgain(r, status) ==
    LET t == shown.ticket
        v == [status |-> status, of |-> handler[r].seen] IN
    /\ handler[r].pc = "verify"
    /\ NotePassed(v)
    /\ shown' = [shown EXCEPT !.verification = v]
    /\ manifest' = IF t \in Tickets /\ shown.run # "none" /\ manifest[t] # NoManifest
                   THEN [manifest EXCEPT ![t] = [run |-> shown.run, verification |-> v, review |-> handler[r].report.id]]
                   ELSE manifest
    /\ Return(r)
    /\ UNCHANGED <<tree, git, reviews, releases, worker, bounds, accepted, delivered, damage>>

\* A Git command or the verification raises: what was done before it stays, nothing else is done.
Raise(r) ==
    /\ handler[r].pc \in {"restore", "verify"} \/ (Decided(r) /\ Closing(handler[r].report))
    /\ Incident("fault")
    /\ Return(r)
    /\ damage' = damage \cup CutOff({r})
    /\ UNCHANGED <<tree, git, store, shown, worker, runs, decisions, verified, accepted, delivered>>

-----------------------------------------------------------------------------
(* The export.                                                             *)

\* Mutant of Drift: it is not looked for.
NoDrift == {}

\* Of the review that is shown.
Drift == Drifted(shown.review)

\* inspect_project_delta, against the snapshot of the import.
DeletedFiles == {f \in Files : tree[f] = Absent /\ Baseline[f] # Absent}
ChangedFiles == {f \in Files : tree[f] # Absent /\ tree[f] # Baseline[f]}

Deliverable == Drift = {} /\ DeletedFiles = {} /\ ChangedFiles # {}

\* _release_gate.
Ready ==
    /\ shown.run # "failed"
    /\ shown.verification.status = "pass"
    /\ shown.review.id # 0 /\ With(shown.review, "pending") = {}
    /\ Deliverable

\* export_project, where the gate is open.
Export(r) ==
    /\ Ready
    /\ Request(r, [Idle EXCEPT !.pc = "zip"])
    /\ UNCHANGED decisions

\* export_project_zip looks at the files once more; the release is recorded.
WriteZip(r) ==
    /\ handler[r].pc = "zip"
    /\ IF Deliverable
       THEN /\ shown' = [shown EXCEPT !.export = [exists |-> TRUE, tree |-> tree]]
            /\ releases' = IF shown.ticket \in Tickets
                           THEN [releases EXCEPT ![shown.ticket] = [exists |-> TRUE, tree |-> tree]] ELSE releases
            /\ delivered' = delivered \cup {tree}
       ELSE UNCHANGED <<shown, releases, delivered>>
    /\ Return(r)
    /\ UNCHANGED <<tree, git, reviews, manifest, worker, bounds, verified, accepted, damage>>

-----------------------------------------------------------------------------
(* The session.                                                            *)

\* select_task and _restore_task_artifacts.
Restored(t) ==
    Session(t, manifest[t].run, manifest[t].verification,
            IF manifest[t].review = 0 THEN NoReview ELSE reviews[manifest[t].review], releases[t])

Move(session) ==
    /\ ~Running
    /\ shown' = session
    /\ UNCHANGED <<tree, store, worker, handler, runs, decisions,
                   verified, accepted, delivered>>

\* new_ticket and create_plan.
NewTicket(t) ==
    /\ t # shown.ticket /\ manifest[t] = NoManifest
    /\ Move(Session(t, "none", NoVerification, NoReview, NoExport))
    /\ damage' = damage \cup Overlap({})
    /\ UNCHANGED <<git, incidents>>

\* An earlier ticket is chosen.
SelectTicket(t) ==
    /\ t # shown.ticket
    /\ Move(Restored(t))
    /\ damage' = damage \cup Overlap({}) \cup (IF t # worker.ticket THEN {"switched"} ELSE {})
    /\ UNCHANGED <<git, incidents>>

\* resume_ticket: the work is committed, and a corrective ticket is to be entered.
ResumeTicket ==
    /\ Incident("resume")
    /\ Move(Session(NoTicket, "none", NoVerification, NoReview, NoExport))
    /\ PrepareCleanWorktree
    /\ damage' = damage \cup Overlap({})

\* Somebody edits the isolated copy.
Edit(f, c) ==
    /\ Incident("edit")
    /\ c # tree[f]
    /\ tree' = [tree EXCEPT ![f] = c]
    /\ damage' = damage \cup Overlap({}) \cup
           (IF Running \/ f \notin With(shown.review, "accepted") THEN {"edited"} ELSE {})
    /\ UNCHANGED <<git, store, shown, worker, handler, runs, decisions,
                   verified, accepted, delivered>>

\* The desktop stops, and on its next start restores the ticket that was open.
Stop ==
    /\ Incident("stop")
    /\ shown' = IF shown.ticket \in Tickets THEN Restored(shown.ticket)
                ELSE Session(NoTicket, "none", NoVerification, NoReview, NoExport)
    /\ worker' = Resting(worker.ticket)
    /\ handler' = [r \in Requests |-> Idle]
    /\ damage' = damage \cup CutOff(Requests)
    /\ UNCHANGED <<tree, git, store, runs, decisions, verified, accepted, delivered>>

Worker ==
    \/ \E f \in Files, c \in Contents \cup {Absent} : AgentWrites(f, c)
    \/ AgentsComplete \/ RunFails \/ ResetForReview \/ CaptureReview \/ FinishRun
    \/ \E status \in {"pass", "fail"} : WorkerVerifies(status)

Handles(r) ==
    \/ \E f \in Files : TakeFile(r, f)
    \/ RestoreFile(r) \/ SaveDecision(r) \/ CheckpointAccepted(r) \/ ShowDecisions(r) \/ Raise(r)
    \/ \E status \in {"pass", "fail"} : VerifyAgain(r, status)
    \/ WriteZip(r)

Next ==
    \/ StartRun \/ Worker
    \/ \E r \in Requests :
          \/ \E decision \in {"accepted", "reverted"}, S \in SUBSET Files : Decide(r, decision, S)
          \/ Export(r)
          \/ Handles(r)
    \/ \E t \in Tickets : NewTicket(t) \/ SelectTicket(t)
    \/ ResumeTicket
    \/ \E f \in Files, c \in Contents \cup {Absent} : Edit(f, c)
    \/ Stop

Spec == Init /\ [][Next]_vars

-----------------------------------------------------------------------------
(* Properties.                                                             *)

\* docs/five-goal-workflow.md:56-58: "a passing verification of a different file set is not
\* sufficient evidence for the final delivery".
OnlyVerifiedIsDelivered == delivered \subseteq verified

\* What is exported has passed a verification as it is, unless requests and runs overlapped, a revert
\* raised or was cut off, an earlier ticket was chosen after another had run, somebody edited a file
\* that is not accepted, or an edit of an accepted file was committed by a later decision or verified
\* anew by a later revert: nothing else lets evidence and files drift apart, not a failed run, a
\* carried-forward attempt, a raised checkpoint or a stop of the desktop (decide_all, _release_gate,
\* export_project).
\* Under the same conditions every change of an exported tree was accepted by the user as it is
\* (review_snapshot_drift).
DeliveredWasJudged ==
    damage = {} =>
        /\ OnlyVerifiedIsDelivered
        /\ \A d \in delivered : \A f \in Files : d[f] # Baseline[f] => <<f, d[f]>> \in accepted

\* A stored decision is never taken back by another.
DecisionsKept ==
    [][damage' = {} => \A i \in 1..MaxRuns : \A f \in Files :
           reviews[i].decision[f] \in {"accepted", "reverted"} =>
               reviews'[i].decision[f] = reviews[i].decision[f]]_vars

\* Unless an attempt is carried forward, HEAD holds only what was imported or accepted.
HeadIsAccepted ==
    damage = {} /\ ~base.set => \A f \in Files : head[f] = Baseline[f] \/ <<f, head[f]>> \in accepted
=============================================================================
