---------------------------- MODULE PluginStore ----------------------------
(***************************************************************************)
(* The transactional plugin package manager: plugin_store.py (the store    *)
(* directory, its lock file and its journal), plugin_installer.py          *)
(* (install), plugin_lifecycle.py (upgrade, rollback) and                  *)
(* plugin_management.py (remove one version, remove a plugin, status).     *)
(*                                                                         *)
(* Each invocation of the command line is a process.  Several may work on  *)
(* one store; a process may die between any two writes, a write may fail,  *)
(* and what a failed operation undoes it undoes after it gave the lock     *)
(* back.  A version is its rank in the order of version strings; None is   *)
(* the absence of one.                                                     *)
(***************************************************************************)
EXTENDS Integers, FiniteSets

CONSTANTS Procs,        \* processes, one operation at a time each
          Plugins,      \* plugin ids
          Versions,     \* version ranks
          Free,         \* no lock file
          Present,      \* bound: the sets of versions a store in use may start with
          MaxOps,       \* bound: operations that are called
          MaxFaults,    \* bound: writes that fail
          MaxCrashes    \* bound: processes that die

None == 0

ASSUME StoreAssumption ==
    /\ Free \notin Procs
    /\ Plugins # {}
    /\ Versions \subseteq Nat \ {None}
    /\ {MaxOps, MaxFaults, MaxCrashes} \subseteq Nat

VARIABLES initialized,  \* inventory.json exists
          inventory,    \* its content, per plugin
          pointer,      \* active/<plugin>.json: the version it names, or None
          packages,     \* packages/<plugin>/<version> directories that exist
          lock,         \* who created .store.lock, or Free
          proc,         \* each process's local variables and place
          ops, faults, crashes,
          disturbed,    \* history: plugins with a failed or dead operation since the last commit
          damage        \* history: ways the store was written without protection

disk == <<initialized, inventory, pointer, packages>>
bounds == <<ops, faults, crashes>>
vars == <<disk, lock, proc, bounds, disturbed, damage>>

Inventory == [versions : [Plugins -> SUBSET Versions], active : [Plugins -> Versions \cup {None}]]

NoPlugins == [versions |-> [x \in Plugins |-> {}], active |-> [x \in Plugins |-> None]]

\* An active version is installed, and exactly the plugins with installed versions have one.
Consistent(inv) ==
    \A x \in Plugins : /\ inv.active[x] = None <=> inv.versions[x] = {}
                       /\ inv.active[x] # None => inv.active[x] \in inv.versions[x]

Ops == {"install", "rollback", "remove", "removeAll"}
Running == {"initialize", "next", "waiting", "locked", "stage", "move", "point", "save",
            "commit", "release"}
Undoing == {"undoInventory", "undoPointer", "undoFiles", "failed"}
Statuses == {"none", "created", "verified", "staged", "validated", "committed"}

\* The places inside "with store.lock()".
Section == {"locked", "stage", "move", "point", "save", "commit", "release"}

Proc == [pc : {"idle", "dead"} \cup Running \cup Undoing, op : Ops, plugin : Plugins,
         version : Versions \cup {None}, replacement : Versions \cup {None}, todo : SUBSET Versions,
         loaded : BOOLEAN, orig : Inventory, prev : Versions \cup {None},
         status : Statuses, moved : BOOLEAN, saved : BOOLEAN, pointed : BOOLEAN]

\* The local variables of an operation that has just been called.
Called(op, x, v, r) ==
    [pc |-> "initialize", op |-> op, plugin |-> x, version |-> v, replacement |-> r, todo |-> {},
     loaded |-> FALSE, orig |-> NoPlugins, prev |-> None, status |-> "none",
     moved |-> FALSE, saved |-> FALSE, pointed |-> FALSE]

NoOp == [Called("install", CHOOSE x \in Plugins : TRUE, None, None) EXCEPT !.pc = "idle"]

Greatest(S) == {v \in S : \A w \in S : w <= v}

Step(p, pc) == proc' = [proc EXCEPT ![p].pc = pc]

\* The operation is over, and its local variables with it; its record stays in the journal.
Return(p) == proc' = [proc EXCEPT ![p] = NoOp]

\* The same, after the transaction record was written with a new status.
Recorded(p, status, pc) == proc' = [proc EXCEPT ![p].status = status, ![p].pc = pc]

\* A directory no command has used yet, or a store whose operations so far have all committed.
Init ==
    /\ initialized \in BOOLEAN
    /\ inventory \in {inv \in Inventory :
           Consistent(inv) /\ IF initialized THEN \A x \in Plugins : inv.versions[x] \in Present
                              ELSE inv = NoPlugins}
    /\ pointer = inventory.active
    /\ packages = {d \in Plugins \X Versions : d[2] \in inventory.versions[d[1]]}
    /\ lock = Free
    /\ proc = [p \in Procs |-> NoOp]
    /\ ops = 0 /\ faults = 0 /\ crashes = 0
    /\ disturbed = {}
    /\ damage = {}

-----------------------------------------------------------------------------
(* Entering an operation.                                                   *)

\* Where an operation stands once initialize() has found or made an inventory: its transaction
\* record is written and it is about to take the lock; install has resolved and inspected its
\* package before, and returns if the package is refused.  remove_plugin() has listed the versions
\* it will remove, without the lock.
Entered(me) ==
    CASE me.op = "install" -> {[me EXCEPT !.pc = "waiting", !.status = "verified"], NoOp}
      [] me.op = "removeAll" -> {IF inventory.versions[me.plugin] = {} THEN NoOp
                                 ELSE [me EXCEPT !.pc = "next", !.todo = inventory.versions[me.plugin]]}
      [] OTHER -> {[me EXCEPT !.pc = "waiting", !.status = "created"]}

\* A command is called.  initialize() looks for the inventory file.
Call(p, op, x, v, r) ==
    /\ proc[p].pc = "idle"
    /\ ops < MaxOps
    /\ ops' = ops + 1
    /\ op = "removeAll" <=> v = None
    /\ op # "remove" => r = None
    /\ \E me \in IF initialized THEN Entered(Called(op, x, v, r)) ELSE {Called(op, x, v, r)} :
          proc' = [proc EXCEPT ![p] = me]
    /\ UNCHANGED <<disk, lock, faults, crashes, disturbed, damage>>

\* It found none, and writes an empty inventory, without the lock.
Initialize(p) ==
    /\ proc[p].pc = "initialize"
    /\ initialized' = TRUE
    /\ inventory' = NoPlugins
    /\ IF proc[p].op = "removeAll" THEN Return(p)
       ELSE \E me \in Entered(proc[p]) : proc' = [proc EXCEPT ![p] = me]
    /\ UNCHANGED <<pointer, packages, lock, bounds, disturbed, damage>>

\* Its next version, highest first, with the replacement it needs by the inventory of this moment.
NextVersion(p) ==
    LET x == proc[p].plugin
        todo == proc[p].todo
        current == inventory.versions[x] IN
    /\ proc[p].pc = "next"
    /\ IF todo = {} \/ current = {}
       THEN Return(p)
       ELSE \E v \in Greatest(todo) :
            \E r \in IF inventory.active[x] = v /\ current # {v} THEN Greatest(current \ {v}) ELSE {None} :
               proc' = [proc EXCEPT ![p] = [Called("removeAll", x, v, r) EXCEPT
                           !.pc = "waiting", !.status = "created", !.todo = todo \ {v}]]
    /\ UNCHANGED <<disk, lock, bounds, disturbed, damage>>

-----------------------------------------------------------------------------
(* Inside the lock.                                                         *)

\* O_CREAT | O_EXCL.  The history notes when somebody else is still to write without the lock.
Acquire(p) ==
    /\ proc[p].pc = "waiting"
    /\ lock = Free
    /\ lock' = p
    /\ Step(p, "locked")
    /\ damage' = IF \E q \in Procs \ {p} : proc[q].pc \in Undoing \cup {"initialize"}
                 THEN damage \cup {"overlap"} ELSE damage
    /\ UNCHANGED <<disk, bounds, disturbed>>

\* Mutant of Refused: the finally block of lock() also runs when the lock file was not created.
RefusedUnlinking(p) ==
    /\ proc[p].pc = "waiting"
    /\ lock # Free
    /\ lock' = Free
    /\ Step(p, "undoInventory")
    /\ UNCHANGED <<disk, bounds, disturbed, damage>>

\* The lock file exists, whoever left it: RuntimeError.
Refused(p) ==
    /\ proc[p].pc = "waiting"
    /\ lock # Free
    /\ Step(p, "undoInventory")
    /\ UNCHANGED <<disk, lock, bounds, disturbed, damage>>

\* An exception leaves the section: the lock file is removed first, then the handler runs.
Leave(p, local) ==
    /\ lock' = Free
    /\ proc' = [proc EXCEPT ![p] = [local EXCEPT !.pc = "undoInventory"]]

\* remove_plugin_version's rule for the active version.
Replaceable(inv, x, v, r) ==
    inv.active[x] = v => IF r = None THEN inv.versions[x] = {v}
                         ELSE r \in inv.versions[x] /\ r # v

\* The arguments are refused for this inventory.
Rejects(inv, op, x, v, r) ==
    \/ op = "install" /\ v \in inv.versions[x]
    \/ op # "install" /\ v \notin inv.versions[x]
    \/ op \in {"remove", "removeAll"} /\ ~Replaceable(inv, x, v, r)

FirstWrite(op) ==
    CASE op = "install" -> "stage" [] op = "rollback" -> "save" [] OTHER -> "move"

\* The inventory is loaded and copied, the arguments are tested, then the pointer is read and the
\* directory of an installed version is looked for.
Load(p) ==
    LET me == proc[p]
        read == [me EXCEPT !.loaded = TRUE, !.orig = inventory]
        known == [read EXCEPT !.prev = IF me.op = "install" THEN None ELSE pointer[me.plugin],
                              !.status = IF me.op = "rollback" THEN "validated" ELSE @] IN
    /\ me.pc = "locked"
    /\ IF Rejects(inventory, me.op, me.plugin, me.version, me.replacement)
       THEN Leave(p, read)
       ELSE IF me.op # "install" /\ <<me.plugin, me.version>> \notin packages
       THEN Leave(p, known)
       ELSE proc' = [proc EXCEPT ![p] = [known EXCEPT !.pc = FirstWrite(me.op)]] /\ UNCHANGED lock
    /\ UNCHANGED <<disk, bounds, disturbed, damage>>

\* install: the staged files become the package directory, if there is none yet.
Stage(p) ==
    LET me == proc[p]
        dir == <<me.plugin, me.version>> IN
    /\ me.pc = "stage"
    /\ IF dir \in packages
       THEN Leave(p, [me EXCEPT !.moved = TRUE, !.status = "staged"]) /\ UNCHANGED packages
       ELSE /\ packages' = packages \cup {dir}
            /\ proc' = [proc EXCEPT ![p] = [me EXCEPT !.moved = TRUE, !.status = "staged", !.pc = "save"]]
            /\ UNCHANGED lock
    /\ UNCHANGED <<initialized, inventory, pointer, bounds, disturbed, damage>>

\* remove: the package directory goes to the trash of this transaction.
Move(p) ==
    /\ proc[p].pc = "move"
    /\ packages' = packages \ {<<proc[p].plugin, proc[p].version>>}
    /\ proc' = [proc EXCEPT ![p].moved = TRUE, ![p].pc = "point"]
    /\ UNCHANGED <<initialized, inventory, pointer, lock, bounds, disturbed, damage>>

\* What the operation makes of the inventory it loaded.
Changed(me) ==
    LET x == me.plugin
        inv == me.orig IN
    CASE me.op = "install" -> [inv EXCEPT !.versions[x] = @ \cup {me.version}, !.active[x] = me.version]
      [] me.op = "rollback" -> [inv EXCEPT !.active[x] = me.version]
      [] OTHER -> [inv EXCEPT !.versions[x] = @ \ {me.version},
                              !.active[x] = IF @ = me.version THEN me.replacement ELSE @]

IsRemove(me) == me.op \in {"remove", "removeAll"}

\* Mutant of Save: it is not noted that the inventory was saved.
SaveUnnoted(p) ==
    /\ proc[p].pc = "save"
    /\ inventory' = Changed(proc[p])
    /\ Step(p, IF IsRemove(proc[p]) THEN "commit" ELSE "point")
    /\ UNCHANGED <<initialized, pointer, packages, lock, bounds, disturbed, damage>>

\* The inventory is replaced.  A removal has moved the pointer before; the others do it next.
Save(p) ==
    /\ proc[p].pc = "save"
    /\ inventory' = Changed(proc[p])
    /\ proc' = [proc EXCEPT ![p].saved = TRUE, ![p].pc = IF IsRemove(proc[p]) THEN "commit" ELSE "point"]
    /\ UNCHANGED <<initialized, pointer, packages, lock, bounds, disturbed, damage>>

\* Mutant of Point: a removal leaves the pointer alone.
PointUnlessRemoving(p) ==
    /\ proc[p].pc = "point"
    /\ pointer' = IF IsRemove(proc[p]) THEN pointer
                  ELSE [pointer EXCEPT ![proc[p].plugin] = proc[p].version]
    /\ proc' = [proc EXCEPT ![p].pointed = TRUE, ![p].pc = IF IsRemove(proc[p]) THEN "save" ELSE "commit"]
    /\ UNCHANGED <<initialized, inventory, packages, lock, bounds, disturbed, damage>>

\* The active pointer follows; with the last version it is unlinked.
Point(p) ==
    /\ proc[p].pc = "point"
    /\ pointer' = [pointer EXCEPT ![proc[p].plugin] = Changed(proc[p]).active[proc[p].plugin]]
    /\ proc' = [proc EXCEPT ![p].pointed = TRUE, ![p].pc = IF IsRemove(proc[p]) THEN "save" ELSE "commit"]
    /\ UNCHANGED <<initialized, inventory, packages, lock, bounds, disturbed, damage>>

Commit(p) ==
    /\ proc[p].pc = "commit"
    /\ disturbed' = disturbed \ {proc[p].plugin}
    /\ Recorded(p, "committed", "release")
    /\ UNCHANGED <<disk, lock, bounds, damage>>

\* The lock file is removed; a removal then empties its trash, and remove_plugin() goes on.
Release(p) ==
    /\ proc[p].pc = "release"
    /\ lock' = Free
    /\ IF proc[p].op = "removeAll" THEN Step(p, "next") ELSE Return(p)
    /\ UNCHANGED <<disk, bounds, disturbed, damage>>

\* A write fails and changes nothing.  install notes the pointer's path before it writes it.
Fault(p) ==
    /\ proc[p].pc \in Section \ {"release"}
    /\ faults < MaxFaults
    /\ faults' = faults + 1
    /\ Leave(p, [proc[p] EXCEPT !.pointed = @ \/ proc[p].pc = "point"])
    /\ UNCHANGED <<disk, ops, crashes, disturbed, damage>>

-----------------------------------------------------------------------------
(* The except block, after the lock was given back.                         *)

\* The loaded copy is saved again: by install only when its own save was reached.  A failing
\* restore is noted among the recovery errors, and the block goes on.
UndoInventory(p) ==
    LET me == proc[p]
        restores == me.loaded /\ (me.op = "install" => me.saved) IN
    /\ me.pc = "undoInventory"
    /\ Step(p, IF me.op = "install" THEN "undoPointer" ELSE "undoFiles")
    /\ \/ /\ inventory' = IF restores THEN me.orig ELSE inventory
          /\ UNCHANGED <<faults, damage>>
       \/ /\ restores /\ faults < MaxFaults
          /\ faults' = faults + 1
          /\ damage' = damage \cup {"unrestored"}
          /\ UNCHANGED inventory
    /\ UNCHANGED <<initialized, pointer, packages, lock, ops, crashes, disturbed>>

\* install unlinks the pointer it was to write; the others put back what they read, or unlink
\* the pointer when they had not read any.
UndoPointer(p) ==
    LET me == proc[p] IN
    /\ me.pc = "undoPointer"
    /\ pointer' = CASE me.op = "install" -> IF me.pointed THEN [pointer EXCEPT ![me.plugin] = None] ELSE pointer
                    [] OTHER -> [pointer EXCEPT ![me.plugin] = me.prev]
    /\ Step(p, IF me.op = "install" THEN "undoFiles" ELSE "failed")
    /\ disturbed' = disturbed \cup {me.plugin}
    /\ damage' = IF \E q \in Procs \ {p} : proc[q].pc \in Section
                 THEN damage \cup {"overlap"} ELSE damage
    /\ UNCHANGED <<initialized, inventory, packages, lock, bounds>>

\* Mutant of UndoFiles: the directory of a failed removal stays in the trash.
UndoInstalledFiles(p) ==
    LET me == proc[p] IN
    /\ me.pc = "undoFiles"
    /\ packages' = IF me.moved /\ me.op = "install" THEN packages \ {<<me.plugin, me.version>>} ELSE packages
    /\ proc' = [proc EXCEPT ![p].moved = FALSE, ![p].pc = IF me.op = "install" THEN "failed" ELSE "undoPointer"]
    /\ UNCHANGED <<initialized, inventory, pointer, lock, bounds, disturbed, damage>>

\* install removes its package directory, a removal moves the directory back from its trash.
UndoFiles(p) ==
    LET me == proc[p]
        dir == <<me.plugin, me.version>> IN
    /\ me.pc = "undoFiles"
    /\ packages' = CASE me.moved /\ me.op = "install" -> packages \ {dir}
                     [] me.moved /\ me.op # "install" -> packages \cup {dir}
                     [] OTHER -> packages
    /\ proc' = [proc EXCEPT ![p].moved = FALSE, ![p].pc = IF me.op = "install" THEN "failed" ELSE "undoPointer"]
    /\ UNCHANGED <<initialized, inventory, pointer, lock, bounds, disturbed, damage>>

\* The record says failed and the exception goes to the command, out of remove_plugin() too.
Fail(p) ==
    /\ proc[p].pc = "failed"
    /\ Return(p)
    /\ UNCHANGED <<disk, lock, bounds, disturbed, damage>>

\* The process dies.  Its lock file, its trash and its journal record stay.
Crash(p) ==
    /\ proc[p].pc \notin {"idle", "dead"}
    /\ crashes < MaxCrashes
    /\ crashes' = crashes + 1
    /\ disturbed' = disturbed \cup {proc[p].plugin}
    /\ Step(p, "dead")
    /\ UNCHANGED <<disk, lock, ops, faults, damage>>

Progress(p) ==
    \/ Initialize(p) \/ NextVersion(p)
    \/ Acquire(p) \/ Refused(p) \/ Load(p) \/ Stage(p) \/ Move(p) \/ Save(p) \/ Point(p)
    \/ Commit(p) \/ Release(p)
    \/ UndoInventory(p) \/ UndoPointer(p) \/ UndoFiles(p) \/ Fail(p)

Next ==
    \E p \in Procs :
        \/ \E op \in Ops, x \in Plugins, v \in Versions \cup {None}, r \in Versions \cup {None} :
              Call(p, op, x, v, r)
        \/ Progress(p) \/ Fault(p) \/ Crash(p)

Spec == Init /\ [][Next]_vars

-----------------------------------------------------------------------------
(* Properties.                                                              *)

TypeOK ==
    /\ initialized \in BOOLEAN
    /\ inventory \in Inventory
    /\ pointer \in [Plugins -> Versions \cup {None}]
    /\ packages \subseteq Plugins \X Versions
    /\ lock \in Procs \cup {Free}
    /\ proc \in [Procs -> Proc]
    /\ ops \in 0..MaxOps /\ faults \in 0..MaxFaults /\ crashes \in 0..MaxCrashes
    /\ disturbed \subseteq Plugins
    /\ damage \subseteq {"overlap", "unrestored"}

\* The lock file excludes: whoever works inside the section created the lock file that is there,
\* so no two processes do, through refusals, failures and deaths (plugin_store.py:237-268).
OneHolder == \A p \in Procs : proc[p].pc \in Section => lock = p

\* Every inventory that is ever saved, by an operation or by a restore that ran without the
\* lock, names an installed version as active for exactly the plugins that have one.
ActiveIsInstalled == Consistent(inventory)

\* A version the inventory lists has its directory, or the directory lies in the trash of a
\* removal that is on its way, is being undone, or died there.
Backed(x) ==
    \A v \in inventory.versions[x] :
        \/ <<x, v>> \in packages
        \/ \E p \in Procs : IsRemove(proc[p]) /\ proc[p].moved
                           /\ proc[p].plugin = x /\ proc[p].version = v

\* What plugin_store_status() reports of a plugin.
Issues(x) ==
    {i \in {"pointer", "missing_installed_path"} :
        CASE i = "pointer" -> inventory.versions[x] # {} /\ pointer[x] # inventory.active[x]
          [] OTHER -> \E v \in inventory.versions[x] : <<x, v>> \notin packages}

Busy(x) == \E p \in Procs : proc[p].pc \in Section \cup Undoing /\ proc[p].plugin = x

\* Unless the store was written without protection, its inventory is backed by files, and a
\* commit heals: when the last operation on a plugin that reached its journal committed, the
\* pointer names the active version, whatever failed or died before it; and while no process
\* died, the store is healthy for that plugin.
CommitHeals ==
    damage = {} =>
        \A x \in Plugins :
            /\ Backed(x)
            /\ x \notin disturbed /\ ~Busy(x) =>
                 /\ "pointer" \notin Issues(x)
                 /\ crashes = 0 => Issues(x) = {}

\* An operation that fails leaves the inventory it found: its restore, which runs without the
\* lock, writes back exactly what the operation loaded.
FailureKeepsInventory ==
    damage = {} =>
        \A p \in Procs : proc[p].pc = "failed" /\ proc[p].loaded => inventory = proc[p].orig
=============================================================================
