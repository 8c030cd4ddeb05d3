---------------------------- MODULE SyncResolver -----------------------------
(***************************************************************************)
(* The sync and conflict resolver of the native desktop (sync_resolver.py, *)
(* SyncWorkspaceAdapter, the Sync pages of the shell).  The patches of     *)
(* agents are queued and compared with the workspace, the user decides     *)
(* each conflict, and the queue is applied: bases are looked at again,     *)
(* then files are written one after another, with a backup of each that is *)
(* written back when one of the writes fails.                              *)
(*                                                                         *)
(* Meanwhile the user edits files of the workspace with other programs,    *)
(* and the desktop may die.  The content of a file is a name for it: equal *)
(* names are equal hashes.                                                 *)
(***************************************************************************)
EXTENDS Naturals, Sequences

CONSTANTS
  Queue,        \* the patches in their order: node, own sequence, identifier
  Paths,
  PathOf,       \* per patch: its target
  OpOf,         \* per patch: "create", "modify" or "delete"
  Base,         \* per patch: what its agent saw of the target
  Exact,        \* patches whose node owns their target by name
  Creating,     \* patches whose node has a directory scope around their target
  Protected,    \* targets excluded from agent execution
  Files,        \* the workspace when the agents began
  MaxEdits,     \* bound: edits by other programs
  MaxDecisions  \* bound: decisions of the user

Patches == {Queue[i] : i \in 1..Len(Queue)}

None == "none"           \* no file
Manual == "manual"       \* what the user wrote for a conflict
Contents == {None, "old", "user", Manual} \cup Patches

Positions == 1..Len(Queue)

ASSUME SyncAssumption ==
  /\ Queue \in Seq(Patches)
  /\ PathOf \in [Patches -> Paths]
  /\ OpOf \in [Patches -> {"create", "modify", "delete"}]
  /\ Base \in [Patches -> {None, "old"}] /\ Files \in [Paths -> {None, "old"}]
  /\ Exact \subseteq Patches /\ Creating \subseteq Patches /\ Protected \subseteq Paths
  /\ \A i, j \in Positions : Queue[i] = Queue[j] => i = j
  /\ MaxEdits \in Nat /\ MaxDecisions \in Nat
  /\ {None, "old", "user", Manual, "unset"} \cap Patches = {}

Choices == {"apply-patch", "keep-current", "manual-content"}

\* No decision overrides one of these.
ScopeKinds == {"ownership-violation", "protected-file"}

Kinds == ScopeKinds \cup {"duplicate-write", "invalid-operation", "stale-base"}

VARIABLES
  files,                       \* the workspace
  status, kinds, choice, state,\* the stored report: per patch its conflicts, the
                               \* decision on each, and its state in the queue
  pc, ops, left, backups,      \* apply_sync_report(): the operations, by their position
                               \* in the queue, and those its loop has not come to
  edits, decisions,            \* counted against their bounds
  before,       \* history: the workspace as it would be without the application
  slipped,      \* history: targets edited after their base was looked at again
  late,         \* history: targets edited after they were backed up
  found         \* history: the workspace when the report was built

reportVars == <<status, kinds, choice, state>>
applyVars  == <<pc, ops, left, backups>>
ghostVars  == <<before, slipped, late, found>>
vars == <<files, reportVars, applyVars, edits, decisions, ghostVars>>

NoBackups == [x \in Paths |-> "unset"]

Current(p) == files[PathOf[p]]

-----------------------------------------------------------------------------
(* build_sync_report()                                                     *)

Owns(p) == p \in Exact \/ (Current(p) = None /\ p \in Creating)

Fits(p) == (OpOf[p] = "create") = (Current(p) = None)

Conflicting(p, k) ==
  CASE k = "protected-file"      -> PathOf[p] \in Protected
    [] k = "ownership-violation" -> ~Owns(p)
    [] k = "duplicate-write"     -> \E q \in Patches \ {p} : PathOf[q] = PathOf[p]
    [] k = "invalid-operation"   -> ~Fits(p)
    [] k = "stale-base"          -> Fits(p) /\ Base[p] # Current(p)

BuildReport ==
  /\ pc = "idle" /\ status = "absent"
  /\ kinds' = [p \in Patches |-> {k \in Kinds : Conflicting(p, k)}]
  /\ state' = [p \in Patches |-> IF kinds'[p] = {} THEN "ready" ELSE "conflict"]
  /\ status' = IF \E p \in Patches : kinds'[p] # {} THEN "blocked" ELSE "ready"
  /\ found' = files
  /\ UNCHANGED <<files, choice, applyVars, edits, decisions, before, slipped, late>>

-----------------------------------------------------------------------------
(* resolve_sync_conflict(), from the conflict page, which stays open after *)
(* the queue was applied.                                                  *)

\* SyncWorkspaceAdapter.save(), by way of a temporary file.
Store(newStatus, newState) == status' = newStatus /\ state' = newState

\* Fault: a patch is skipped when all its conflicts say so.
DecidedMildly(p, chosen) ==
  IF \A k \in kinds[p] : chosen[p][k] = "keep-current" THEN "skipped" ELSE "ready"

Decided(p, chosen) ==
  IF \E k \in kinds[p] : chosen[p][k] = "keep-current" THEN "skipped" ELSE "ready"

Open(p, chosen) == \E k \in kinds[p] : chosen[p][k] = None

Resolve(p, k, c) ==
  /\ pc = "idle" /\ k \in kinds[p]
  /\ decisions < MaxDecisions /\ decisions' = decisions + 1
  /\ choice' = [choice EXCEPT ![p][k] = c]
  /\ Store(IF \E q \in Patches : Open(q, choice') THEN "blocked" ELSE "ready",
           [q \in Patches |-> IF kinds[q] = {} \/ Open(q, choice') THEN state[q]
                              ELSE Decided(q, choice')])
  /\ UNCHANGED <<files, kinds, applyVars, edits, ghostVars>>

\* A conflict is selected and one of the three buttons pressed.
ResolveSelectedConflict == \E p \in Patches, k \in Kinds, c \in Choices : Resolve(p, k, c)

-----------------------------------------------------------------------------
(* apply_sync_report()                                                     *)

\* Fault: one decision releases every patch of the report.
ForcedAny(p) ==
  \E q \in Patches : \E k \in kinds[q] : choice[q][k] \in {"apply-patch", "manual-content"}

Forced(p) == \E k \in kinds[p] : choice[p][k] \in {"apply-patch", "manual-content"}

\* A delete patch deletes, whatever the user wrote for its conflict.
Written(p) ==
  IF OpOf[p] = "delete" THEN None
  ELSE IF \E k \in kinds[p] : choice[p][k] = "manual-content" THEN Manual ELSE p

Allowed(p) == kinds[p] \cap ScopeKinds = {}

\* A report with an open conflict is refused; a patch outside its scopes that
\* is not skipped raises before anything is touched.
BeginApply ==
  /\ status = "ready"
  /\ ops' = {i \in Positions : state[Queue[i]] # "skipped"}
  /\ \A i \in ops' : Allowed(Queue[i])
  /\ pc' = "check" /\ left' = ops'
  /\ before' = files /\ slipped' = {} /\ late' = {}
  /\ UNCHANGED <<files, reportVars, backups, edits, decisions, found>>

\* It has returned, raised or died: its locals are gone.
Over == pc' = "idle" /\ ops' = {} /\ left' = {} /\ backups' = NoBackups

\* The apply button of the page: the window waits for the answer.
ApplyCurrentSync == pc = "idle" /\ BeginApply

\* The loops take the operations in the order of the queue.
First(i) == i \in left /\ \A j \in left : i <= j

Target(i) == PathOf[Queue[i]]

\* The base of the next operation, unless the user overrode it.
CheckBase(i) ==
  /\ pc = "check" /\ First(i)
  /\ \/ /\ Forced(Queue[i]) \/ Current(Queue[i]) = Base[Queue[i]]
        /\ left' = left \ {i}
        /\ slipped' = slipped \ {Target(i)}
        /\ UNCHANGED <<pc, ops, backups>>
     \/ /\ ~Forced(Queue[i]) /\ Current(Queue[i]) # Base[Queue[i]]
        /\ Over
        /\ UNCHANGED slipped
  /\ UNCHANGED <<files, reportVars, edits, decisions, before, late, found>>

Checked ==
  /\ pc = "check" /\ left = {}
  /\ pc' = "backup" /\ left' = ops
  /\ UNCHANGED <<files, reportVars, ops, backups, edits, decisions, ghostVars>>

\* Fault: each operation takes its own backup.
BackupAgain(x) == [backups EXCEPT ![x] = files[x]]

\* backups.setdefault()
BackupOf(x) == IF backups[x] = "unset" THEN [backups EXCEPT ![x] = files[x]] ELSE backups

Backup(i) ==
  /\ pc = "backup" /\ First(i)
  /\ backups' = BackupOf(Target(i))
  /\ pc' = "write"
  /\ UNCHANGED <<files, reportVars, ops, left, edits, decisions, ghostVars>>

Write(i) ==
  /\ pc = "write" /\ First(i)
  /\ OpOf[Queue[i]] = "delete" => Current(Queue[i]) # None
  /\ files' = [files EXCEPT ![Target(i)] = Written(Queue[i])]
  /\ pc' = "backup" /\ left' = left \ {i}
  /\ UNCHANGED <<reportVars, ops, backups, edits, decisions, ghostVars>>

\* No file to unlink, or the disk fails.
WriteFails ==
  /\ pc = "write" /\ pc' = "undo"
  /\ UNCHANGED <<files, reportVars, ops, left, backups, edits, decisions, ghostVars>>

\* The backups are written back, one file after another.
Restore(x) ==
  /\ pc = "undo" /\ backups[x] # "unset"
  /\ files' = [files EXCEPT ![x] = backups[x]]
  /\ backups' = [backups EXCEPT ![x] = "unset"]
  /\ UNCHANGED <<reportVars, pc, ops, left, edits, decisions, ghostVars>>

Restored ==
  /\ pc = "undo" /\ backups = NoBackups
  /\ Over
  /\ UNCHANGED <<files, reportVars, edits, decisions, ghostVars>>

\* Everything is written, and the report is stored.
Save ==
  /\ pc = "backup" /\ left = {}
  /\ Store("applied",
           [p \in Patches |-> IF \E i \in ops : Queue[i] = p THEN "applied" ELSE state[p]])
  /\ Over
  /\ UNCHANGED <<files, kinds, choice, edits, decisions, ghostVars>>

-----------------------------------------------------------------------------
(* Other programs, and the end of the desktop.                             *)

Edit(x, c) ==
  /\ edits < MaxEdits /\ edits' = edits + 1
  /\ c # files[x] /\ files' = [files EXCEPT ![x] = c]
  /\ before' = [before EXCEPT ![x] = c]
  /\ slipped' = slipped \cup {x}
  /\ late' = IF backups[x] # "unset" THEN late \cup {x} ELSE late
  /\ UNCHANGED <<reportVars, applyVars, decisions, found>>

\* The report on disk is as it was before the application.
Crash ==
  /\ pc # "idle"
  /\ Over
  /\ UNCHANGED <<files, reportVars, edits, decisions, ghostVars>>

-----------------------------------------------------------------------------
Init ==
  /\ files = Files
  /\ status = "absent" /\ kinds = [p \in Patches |-> {}]
  /\ choice = [p \in Patches |-> [k \in Kinds |-> None]]
  /\ state = [p \in Patches |-> "queued"]
  /\ pc = "idle" /\ ops = {} /\ left = {} /\ backups = NoBackups
  /\ edits = 0 /\ decisions = 0
  /\ before = files /\ slipped = {} /\ late = {} /\ found = files

Apply ==
  \/ \E i \in Positions : CheckBase(i) \/ Backup(i) \/ Write(i)
  \/ Checked \/ WriteFails \/ Save \/ Restored
  \/ \E x \in Paths : Restore(x)

User == BuildReport \/ ResolveSelectedConflict \/ ApplyCurrentSync

Next ==
  \/ User \/ Apply \/ Crash
  \/ \E x \in Paths : \E c \in {None, "old", "user"} : Edit(x, c)
  \/ pc = "idle" /\ UNCHANGED vars     \* nobody has to go on

Spec == Init /\ [][Next]_vars

-----------------------------------------------------------------------------
(* Every variable has its type; the stored report is one that validate()   *)
(* accepts: with a conflict that is not decided it is blocked.             *)
TypeOK ==
  /\ files \in [Paths -> Contents] /\ before \in [Paths -> Contents] /\ found \in [Paths -> Contents]
  /\ status \in {"absent", "blocked", "ready", "applied"}
  /\ kinds \in [Patches -> SUBSET Kinds] /\ choice \in [Patches -> [Kinds -> Choices \cup {None}]]
  /\ state \in [Patches -> {"queued", "ready", "conflict", "applied", "skipped"}]
  /\ pc \in {"idle", "check", "backup", "write", "undo"}
  /\ ops \subseteq Positions /\ left \subseteq ops
  /\ backups \in [Paths -> Contents \cup {"unset"}]
  /\ edits \in 0..MaxEdits /\ decisions \in 0..MaxDecisions
  /\ slipped \subseteq Paths /\ late \subseteq Paths
  /\ (\E p \in Patches : Open(p, choice)) => status \in {"absent", "blocked"}

(* An application that fails half-way leaves every file as it would be     *)
(* without it, two patches on one file included: "previous file bytes are  *)
(* restored for every target already touched by the sync" (apply_sync_-    *)
(* report).  What another program wrote to a file after its backup is lost.*)
FailureRestores ==
  pc = "undo" /\ backups = NoBackups => \A x \in Paths \ late : files[x] = before[x]

Kept(p) == \E k \in kinds[p] : choice[p][k] = "keep-current"

\* The place in the queue of the last patch for a file that is to be applied.
LastFor(x) ==
  CHOOSE i \in Positions :
    /\ Target(i) = x /\ ~Kept(Queue[i])
    /\ \A j \in Positions : j > i /\ Target(j) = x => Kept(Queue[j])

(* When the last operation is through, each file is what the decisions and *)
(* the order of the queue make it: untouched when all its patches are      *)
(* kept back, otherwise what the last of the others, or the user in its    *)
(* stead, wrote (resolve_sync_conflict, apply_sync_report).                *)
AppliedAsDecided ==
  pc = "backup" /\ left = {} => \A x \in Paths \ late :
    files[x] = IF \E p \in Patches : PathOf[p] = x /\ ~Kept(p)
               THEN LET last == Queue[LastFor(x)] IN
                    IF OpOf[last] = "delete" THEN None
                    ELSE IF \E k \in kinds[last] : choice[last][k] = "manual-content" THEN Manual
                    ELSE last
               ELSE before[x]

(* A patch nobody decided anything about only ever replaces the file its   *)
(* agent saw, on a second application after a crash or a new decision as   *)
(* on the first; the one way around is an edit after the second look       *)
(* ("Revalidate all non-overridden bases before touching the workspace").  *)
BaseReplaced ==
  pc = "write" => \A i \in left : First(i) /\ kinds[Queue[i]] = {} =>
    Current(Queue[i]) = Base[Queue[i]] \/ Target(i) \in slipped
=============================================================================
