---------------------------- MODULE FailureMemory -----------------------------
(***************************************************************************)
(* The failure memory of a project (core/failure_memory.py, the            *)
(* failure_memory table of workspace/sqlite_store.py) and those who use it *)
(* in the web desktop: the worker of a run when the run is over and no     *)
(* longer marked as running, and a user's request, which opens, resumes,   *)
(* plans and starts tickets.  The two interleave; a transaction of the     *)
(* store is one step.                                                      *)
(***************************************************************************)
EXTENDS Naturals, Sequences, FiniteSets, SequencesExt

CONSTANTS
  Tickets, NoTicket,
  TargetOf,       \* what the graph of a ticket owns, by which role
  Snapshots,      \* contents of those files
  Causes,         \* summary and kind of a failure
  External,       \* causes that may go away without an edit
  Failing,        \* causes that a run can end with, or a verification
  Repeat,         \* that the memory refused a start, as a cause
  MaxRows,        \* rows kept of a project
  Listed,         \* rows the gate looks at
  Covered,        \* rows a passing verification looks at
  MaxCycles,      \* bound: repair cycles of a ticket
  MaxObserved     \* bound: observations

ASSUME MemoryAssumption ==
  /\ NoTicket \notin Tickets /\ External \cup Failing \cup {Repeat} \subseteq Causes
  /\ {MaxRows, Listed, Covered} \subseteq Nat \ {0}
  /\ {MaxCycles, MaxObserved} \subseteq Nat

VARIABLES
  memory,      \* the rows, the latest observation last
  content,     \* of the files the graphs read or own
  active,      \* active_task_id
  outcome,     \* what self.run and self.verification show: "none", "pass" or a cause
  error,       \* self.error
  evidence,    \* the outcome that the manifest of a ticket's latest run leads to
  cycles,      \* recovery.attempts of each ticket
  carried,     \* recovery.attempts while a resumed ticket waits for its plan
  planned,     \* tickets there are
  running,     \* self.running
  after,       \* what the worker, or the request, has left to do with the memory
  gate,        \* where a start is
  \* history:
  observed,    \* observations so far
  standing     \* failures observed and not resolved since

ghosts == <<observed, standing>>
desk == <<active, outcome, error>>
records == <<evidence, cycles, carried, planned>>
memoryVars == <<memory, content, desk, records, running, after, gate, ghosts>>

Threads == {"worker", "request"}

Idle == [does |-> "nothing", left |-> <<>>]

-----------------------------------------------------------------------------
(* The table. *)

\* The fingerprint of a failure: its cause, the target and the snapshot.
Fingerprint(cause) == [cause |-> cause, target |-> TargetOf[active], files |-> content]

Positions(key) == {i \in DOMAIN memory : memory[i].key = key}

NewRow(key) == [key |-> key, open |-> TRUE]

\* Mutant: a row that is observed again keeps its status.
MergedQuietly(row) == row

\* An observation opens a resolved row again.
Merged(row) == [row EXCEPT !.open = TRUE]

Without(rows, i) == RemoveAt(rows, i)

\* Mutant: the oldest row goes first.
PrunedOldest(rows) == {IF Len(rows) > MaxRows THEN Tail(rows) ELSE rows}

\* One row too many: a resolved one goes, whichever, or else an open one, but
\* never the row just saved.
Pruned(rows) ==
  LET old == 1..(Len(rows) - 1)
      closed == {i \in old : ~rows[i].open}
  IN IF Len(rows) <= MaxRows THEN {rows}
     ELSE {Without(rows, i) : i \in IF closed # {} THEN closed ELSE old}

Saved(key) ==
  IF Positions(key) = {} THEN Append(memory, NewRow(key))
  ELSE LET i == CHOOSE j \in Positions(key) : TRUE
       IN Append(Without(memory, i), Merged(memory[i]))

\* What is forgotten for want of room, when every row is open.
Forgotten(rows) ==
  IF \A i \in DOMAIN rows : rows[i].open THEN standing \ {rows[i].key : i \in DOMAIN rows} ELSE {}

\* record_failure(), one immediate transaction.
Record(cause) ==
  LET key == Fingerprint(cause) IN
  /\ observed < MaxObserved /\ observed' = observed + 1
  /\ memory' \in Pruned(Saved(key))
  /\ standing' = (standing \cup {key}) \ Forgotten(memory')

OpenAfter(i) == {j \in DOMAIN memory : j > i /\ memory[j].open}

\* find_failures(): where the newest open rows are.
Newest(limit) == {i \in DOMAIN memory : memory[i].open /\ Cardinality(OpenAfter(i)) < limit}

-----------------------------------------------------------------------------
(* What the desktop does with it. *)

\* _failure_context_from_state(): a run or verification that failed, or else
\* the error.
Reason == IF outcome \in Causes THEN outcome ELSE error

\* _capture_failure_context().
Capture ==
  IF Reason \in Causes THEN Record(Reason) ELSE UNCHANGED <<memory, observed, standing>>

\* A pass of the ticket that is open now covers the rows of its target, and so
\* those it is named in.
Covers(row) == row.key.target = TargetOf[active]

\* The newest first.
ToResolve ==
  IF active = NoTicket THEN <<>>
  ELSE LET rows == SetToSortSeq({i \in Newest(Covered) : Covers(memory[i])}, >)
       IN [i \in DOMAIN rows |-> memory[rows[i]].key]

\* What follows a run, or the selection of a ticket.
Follow(o) == IF o = "pass" THEN [does |-> "list", left |-> <<>>] ELSE [does |-> "capture", left |-> <<>>]

CaptureAfter(th) ==
  /\ after[th].does = "capture" /\ after' = [after EXCEPT ![th] = Idle]
  /\ Capture
  /\ UNCHANGED <<content, desk, records, running, gate>>

ListAfter(th) ==
  /\ after[th].does = "list"
  /\ after' = [after EXCEPT ![th] = [does |-> "resolve", left |-> ToResolve]]
  /\ UNCHANGED <<memory, content, desk, records, running, gate, ghosts>>

\* resolve_failure(): an update of the row, if it is still there.
ResolveAfter(th) ==
  /\ after[th].does = "resolve" /\ after[th].left # <<>>
  /\ LET key == Head(after[th].left) IN
       /\ memory' = [i \in DOMAIN memory |->
                       IF memory[i].key = key THEN [memory[i] EXCEPT !.open = FALSE] ELSE memory[i]]
       /\ standing' = standing \ {key}
  /\ after' = [after EXCEPT ![th].left = Tail(@)]
  /\ UNCHANGED <<content, desk, records, running, gate, observed>>

ResolvedAfter(th) ==
  /\ after[th] = [does |-> "resolve", left |-> <<>>] /\ after' = [after EXCEPT ![th] = Idle]
  /\ UNCHANGED <<memory, content, desk, records, running, gate, ghosts>>

-----------------------------------------------------------------------------
(* Requests.  The user waits for one before the next. *)

Ready == ~running /\ gate = "none" /\ after["request"] = Idle

Show(ticket, o, e) == active' = ticket /\ outcome' = o /\ error' = e

\* select_task(): a ticket with a manifest is restored with its outcome.  A pass
\* under other checks than there are now is saved as a failure.
Select(t) ==
  /\ Ready /\ t \in planned
  /\ \E o \in {evidence[t]} \cup (IF evidence[t] = "pass" THEN Failing ELSE {}) :
       /\ Show(t, o, "none") /\ evidence' = [evidence EXCEPT ![t] = o]
       /\ after' = IF o = "none" THEN after ELSE [after EXCEPT !["request"] = Follow(o)]
  /\ UNCHANGED <<memory, content, cycles, carried, planned, running, gate, ghosts>>

NewTicket ==
  /\ Ready /\ Show(NoTicket, "none", "none") /\ carried' = 0
  /\ UNCHANGED <<memory, content, evidence, cycles, planned, running, after, gate, ghosts>>

\* resume_ticket(): the corrective ticket inherits the recovery record.
Resume ==
  /\ Ready /\ active # NoTicket
  /\ Capture /\ Show(NoTicket, "none", "none") /\ carried' = cycles[active]
  /\ UNCHANGED <<content, evidence, cycles, planned, running, after, gate>>

\* create_plan() of a new ticket.
Plan(t) ==
  /\ Ready /\ active = NoTicket /\ t \notin planned
  /\ planned' = planned \cup {t} /\ cycles' = [cycles EXCEPT ![t] = carried] /\ carried' = 0
  /\ Show(t, "none", "none")
  /\ UNCHANGED <<memory, content, evidence, running, after, gate, ghosts>>

\* The preflight or the driver's inspection ends a start.
Unavailable(cause) ==
  /\ error' = cause /\ gate' = "none"
  /\ after' = [after EXCEPT !["request"] = [does |-> "capture", left |-> <<>>]]
  /\ UNCHANGED <<memory, content, active, outcome, records, running, ghosts>>

Repeats(row) ==
  row.key.target = TargetOf[active] /\ row.key.files = content /\ row.key.cause \notin External

\* failure_memory_blocked: a repair cycle passes.
Blocked == cycles[active] = 0 /\ \E i \in Newest(Listed) : Repeats(memory[i])

Preflight(cause) == Ready /\ active # NoTicket /\ Unavailable(cause)

StartTicket ==
  /\ Ready /\ active # NoTicket
  /\ IF Blocked THEN gate' = "refused" /\ error' = Repeat ELSE gate' = "inspect" /\ UNCHANGED error
  /\ UNCHANGED <<memory, content, active, outcome, records, running, after, ghosts>>

Refused ==
  /\ gate = "refused" /\ gate' = "none"
  /\ UNCHANGED <<memory, content, desk, records, running, after, ghosts>>

Inspect(cause) == gate = "inspect" /\ Unavailable(cause)

LaunchRun ==
  /\ gate = "inspect" /\ gate' = "none" /\ running' = TRUE /\ error' = "none"
  /\ UNCHANGED <<memory, content, active, outcome, records, after, ghosts>>

\* auto_repair(): begins a cycle, plans the ticket again and starts it.
Repair ==
  /\ Ready /\ active # NoTicket /\ Reason \notin External /\ outcome # "pass"
  /\ cycles[active] < MaxCycles /\ cycles' = [cycles EXCEPT ![active] = @ + 1]
  /\ Show(active, "none", "none") /\ gate' = "inspect"
  /\ UNCHANGED <<memory, content, evidence, carried, planned, running, after, ghosts>>

\* A decision to revert verifies again; a failure is not recorded.
Reverify(o) ==
  /\ Ready /\ active # NoTicket /\ outcome # "none"
  /\ outcome' = o /\ evidence' = [evidence EXCEPT ![active] = o]
  /\ after' = IF o = "pass" THEN [after EXCEPT !["request"] = Follow(o)] ELSE after
  /\ UNCHANGED <<memory, content, active, error, cycles, carried, planned, running, gate, ghosts>>

-----------------------------------------------------------------------------
(* The worker, and the rest of the world. *)

\* The run is over, with a manifest.  The error that a run without a result is
\* shown with says no more than its outcome.
RunEnds(o) ==
  /\ running /\ after["worker"] = Idle /\ running' = FALSE
  /\ Show(active, o, "none")
  /\ evidence' = [evidence EXCEPT ![active] = o]
  /\ after' = [after EXCEPT !["worker"] = Follow(o)]
  /\ UNCHANGED <<memory, content, cycles, carried, planned, gate, ghosts>>

\* _record_failure(): it ended before there was a result.
RunRaises(cause) ==
  /\ running /\ after["worker"] = Idle /\ running' = FALSE
  /\ Show(active, outcome, cause)
  /\ after' = [after EXCEPT !["worker"] = [does |-> "capture", left |-> <<>>]]
  /\ UNCHANGED <<memory, content, records, gate, ghosts>>

\* The agent, the user, a package manager.
EditFiles ==
  /\ content' \in Snapshots \ {content}
  /\ UNCHANGED <<memory, desk, records, running, after, gate, ghosts>>

Restart ==
  /\ Show(NoTicket, "none", "none") /\ running' = FALSE /\ gate' = "none" /\ carried' = 0
  /\ after' = [th \in Threads |-> Idle]
  /\ UNCHANGED <<memory, content, evidence, cycles, planned, ghosts>>

-----------------------------------------------------------------------------
MemoryInit ==
  /\ memory = <<>> /\ content \in Snapshots
  /\ active = NoTicket /\ outcome = "none" /\ error = "none"
  /\ evidence = [t \in Tickets |-> "none"] /\ cycles = [t \in Tickets |-> 0]
  /\ carried = 0 /\ planned = {} /\ running = FALSE
  /\ after = [th \in Threads |-> Idle] /\ gate = "none"
  /\ observed = 0 /\ standing = {}

MemoryNext ==
  \/ \E t \in Tickets : Select(t) \/ Plan(t)
  \/ NewTicket \/ Resume \/ StartTicket \/ Refused \/ LaunchRun \/ Repair
  \/ \E c \in Causes \ {Repeat} : Preflight(c) \/ Inspect(c) \/ RunRaises(c)
  \/ \E o \in {"pass"} \cup Failing : Reverify(o) \/ RunEnds(o)
  \/ \E th \in Threads : CaptureAfter(th) \/ ListAfter(th) \/ ResolveAfter(th) \/ ResolvedAfter(th)
  \/ EditFiles \/ Restart

MemorySpec == MemoryInit /\ [][MemoryNext]_memoryVars

-----------------------------------------------------------------------------
(* Properties. *)

\* Further down than the gate looks.
Crowded(key) == \E i \in Positions(key) : Cardinality(OpenAfter(i)) >= Listed

(* A ticket without a repair cycle passes the gate if and only if no        *)
(* failure stands, of whichever ticket, with the target of its graph and    *)
(* the files as they are, whose cause is in the project: however often it   *)
(* was observed, resolved, observed again and moved in the table, and       *)
(* whatever was dropped from the full table while a resolved row was left.  *)
(* Behind Listed newer failures it goes unseen (record_failure,             *)
(* _prune_failure_memory, _refresh_failure_memory_view).                    *)
RepeatIsRefused ==
  [][gate = "none" /\ gate' \in {"inspect", "refused"} /\ cycles'[active] = 0 =>
       (gate' = "refused" <=>
          \E key \in standing :
            /\ key.target = TargetOf[active] /\ key.files = content
            /\ key.cause \notin External /\ ~Crowded(key))]_memoryVars

=============================================================================
