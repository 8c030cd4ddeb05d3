-------------------------- MODULE PluginStore_proof --------------------------
(* Proofs about the plugin store, for any number of processes, plugins,    *)
(* versions, failing writes and deaths.                                    *)
EXTENDS PluginStore, TLAPS

\* Places where the arguments were accepted for the inventory that was loaded.
Accepted == Section \ {"locked"}

\* What holds of the local variables of a process.
Sound(me) ==
    /\ Consistent(me.orig)
    /\ \/ me.pc \in Section \cup Undoing \cup {"waiting"}
       \/ me.pc = "initialize" /\ me.op # "removeAll"
       => me.version \in Versions
    /\ me.pc \in Accepted => ~Rejects(me.orig, me.op, me.plugin, me.version, me.replacement)

StoreInv ==
    /\ TypeOK
    /\ OneHolder
    /\ ActiveIsInstalled
    /\ \A p \in Procs : Sound(proc[p])

-----------------------------------------------------------------------------
LEMMA NoPluginsSound == NoPlugins \in Inventory /\ Consistent(NoPlugins)
  BY DEF NoPlugins, Inventory, Consistent, None

LEMMA CalledSound ==
  ASSUME NEW op \in Ops, NEW x \in Plugins, NEW v \in Versions \cup {None},
         NEW r \in Versions \cup {None}, op = "removeAll" \/ v # None
  PROVE  Called(op, x, v, r) \in Proc /\ Sound(Called(op, x, v, r))
  BY NoPluginsSound DEF Called, Proc, Sound, Section, Accepted, Running, Undoing, Statuses

LEMMA NoOpSound == NoOp \in Proc /\ Sound(NoOp)
  <1>1. (CHOOSE x \in Plugins : TRUE) \in Plugins
    BY StoreAssumption
  <1>2. "install" \in Ops
    BY DEF Ops
  <1> DEFINE x == CHOOSE y \in Plugins : TRUE
  <1>3. NoOp = [Called("install", x, None, None) EXCEPT !.pc = "idle"]
    BY DEF NoOp
  <1> HIDE DEF x
  <1> QED BY <1>1, <1>2, <1>3, NoPluginsSound
          DEF x, Called, Proc, Sound, Section, Accepted, Undoing, Running, Statuses

LEMMA EnteredSound ==
  ASSUME TypeOK, NEW me \in Proc, Sound(me), NEW after \in Entered(me),
         me.op # "removeAll" => me.version \in Versions
  PROVE  after \in Proc /\ Sound(after)
  <1>1. CASE after = NoOp
    BY <1>1, NoOpSound
  <1>2. CASE me.op = "install" /\ after = [me EXCEPT !.pc = "waiting", !.status = "verified"]
    BY <1>2 DEF Proc, Sound, Section, Accepted, Undoing, Running, Statuses
  <1>3. CASE /\ me.op = "removeAll"
             /\ after = [me EXCEPT !.pc = "next", !.todo = inventory.versions[me.plugin]]
    <2>1. inventory.versions[me.plugin] \subseteq Versions
      BY DEF TypeOK, Inventory, Proc
    <2> QED BY <1>3, <2>1 DEF Proc, Sound, Section, Accepted, Undoing, Running
  <1>4. CASE me.op \notin {"install", "removeAll"} /\ after = [me EXCEPT !.pc = "waiting", !.status = "created"]
    BY <1>4 DEF Proc, Sound, Section, Accepted, Undoing, Running, Statuses
  <1> QED BY <1>1, <1>2, <1>3, <1>4 DEF Entered

\* What an accepted operation makes of the inventory it loaded is an inventory, and consistent.
LEMMA ChangedSound ==
  ASSUME NEW me \in Proc, Sound(me), me.pc \in Accepted
  PROVE  Changed(me) \in Inventory /\ Consistent(Changed(me))
  <1> DEFINE x == me.plugin  v == me.version  r == me.replacement  inv == me.orig
  <1>1. /\ x \in Plugins /\ v \in Versions /\ r \in Versions \cup {None} /\ inv \in Inventory
        /\ Consistent(inv) /\ ~Rejects(inv, me.op, x, v, r) /\ v # None /\ me.op \in Ops
    BY StoreAssumption DEF Sound, Proc, Accepted
  <1>2. CASE me.op = "install"
    <2>1. Changed(me) = [inv EXCEPT !.versions[x] = @ \cup {v}, !.active[x] = v]
      BY <1>2 DEF Changed
    <2> DEFINE new == Changed(me)
    <2>2. new.versions = [inv.versions EXCEPT ![x] = @ \cup {v}] /\ new.active = [inv.active EXCEPT ![x] = v]
      BY <1>1, <2>1 DEF Inventory
    <2>3. new \in Inventory
      <3>1. [inv.versions EXCEPT ![x] = @ \cup {v}] \in [Plugins -> SUBSET Versions]
        BY <1>1 DEF Inventory
      <3>2. [inv.active EXCEPT ![x] = v] \in [Plugins -> Versions \cup {None}]
        BY <1>1 DEF Inventory
      <3>3. new = [versions |-> new.versions, active |-> new.active]
        BY <1>1, <2>1 DEF Inventory
      <3> HIDE DEF new
      <3> QED BY <2>2, <3>1, <3>2, <3>3 DEF Inventory
    <2>4. ASSUME NEW y \in Plugins
          PROVE  /\ new.active[y] = None <=> new.versions[y] = {}
                 /\ new.active[y] # None => new.active[y] \in new.versions[y]
      BY <1>1, <2>2 DEF Inventory, Consistent
    <2> QED BY <2>3, <2>4 DEF Consistent
  <1>3. CASE me.op = "rollback"
    <2>1. Changed(me) = [inv EXCEPT !.active[x] = v]
      BY <1>3 DEF Changed
    <2>2. v \in inv.versions[x]
      BY <1>1, <1>3 DEF Rejects
    <2> QED BY <1>1, <2>1, <2>2 DEF Inventory, Consistent
  <1>4. CASE me.op \in {"remove", "removeAll"}
    <2>1. Changed(me) = [inv EXCEPT !.versions[x] = @ \ {v}, !.active[x] = IF @ = v THEN r ELSE @]
      BY <1>4 DEF Changed
    <2>2. v \in inv.versions[x] /\ (inv.active[x] = v => IF r = None THEN inv.versions[x] = {v}
                                                        ELSE r \in inv.versions[x] /\ r # v)
      BY <1>1, <1>4 DEF Rejects, Replaceable
    <2> DEFINE new == Changed(me)
    <2>3. /\ new.versions = [inv.versions EXCEPT ![x] = @ \ {v}]
          /\ new.active = [inv.active EXCEPT ![x] = IF @ = v THEN r ELSE @]
      BY <1>1, <2>1 DEF Inventory
    <2>4. new \in Inventory
      <3>1. [inv.versions EXCEPT ![x] = @ \ {v}] \in [Plugins -> SUBSET Versions]
        BY <1>1 DEF Inventory
      <3>2. [inv.active EXCEPT ![x] = IF @ = v THEN r ELSE @] \in [Plugins -> Versions \cup {None}]
        BY <1>1 DEF Inventory
      <3>3. new = [versions |-> new.versions, active |-> new.active]
        BY <1>1, <2>1 DEF Inventory
      <3> HIDE DEF new
      <3> QED BY <2>3, <3>1, <3>2, <3>3 DEF Inventory
    <2>5. ASSUME NEW y \in Plugins
          PROVE  /\ new.active[y] = None <=> new.versions[y] = {}
                 /\ new.active[y] # None => new.active[y] \in new.versions[y]
      <3>1. CASE y # x
        BY <1>1, <2>3, <3>1 DEF Inventory, Consistent
      <3>2. CASE y = x /\ inv.active[x] = v
        BY <1>1, <2>2, <2>3, <3>2 DEF Inventory
      <3>3. CASE y = x /\ inv.active[x] # v
        BY <1>1, <2>2, <2>3, <3>3 DEF Inventory, Consistent
      <3> QED BY <3>1, <3>2, <3>3
    <2> QED BY <2>4, <2>5 DEF Consistent
  <1> QED BY <1>1, <1>2, <1>3, <1>4 DEF Ops

-----------------------------------------------------------------------------
\* A step of one process that gives it sound local variables keeps everyone's sound.
LEMMA Update ==
  ASSUME StoreInv, NEW p \in Procs, NEW me \in Proc, Sound(me), proc' = [proc EXCEPT ![p] = me]
  PROVE  /\ proc' \in [Procs -> Proc]
         /\ \A q \in Procs : Sound(proc'[q])
         /\ proc'[p] = me /\ \A q \in Procs : q # p => proc'[q] = proc[q]
  <1>1. proc \in [Procs -> Proc] /\ \A q \in Procs : Sound(proc[q])
    BY DEF StoreInv, TypeOK
  <1>2. proc' \in [Procs -> Proc] /\ \A q \in Procs : proc'[q] = IF q = p THEN me ELSE proc[q]
    BY <1>1
  <1> QED BY <1>1, <1>2

\* The process in the section is the only one, so it may leave.
LEMMA LeaveSound ==
  ASSUME StoreInv, NEW p \in Procs, proc[p].pc \in Section, NEW local \in Proc,
         Consistent(local.orig), local.version \in Versions, Leave(p, local)
  PROVE  /\ proc' \in [Procs -> Proc] /\ \A q \in Procs : Sound(proc'[q])
         /\ lock' \in Procs \cup {Free} /\ OneHolder'
  <1> DEFINE me == [local EXCEPT !.pc = "undoInventory"]
  <1>1. me \in Proc /\ Sound(me) /\ me.pc \notin Section
    BY DEF Proc, Sound, Section, Accepted, Undoing
  <1>2. proc' = [proc EXCEPT ![p] = me] /\ lock' = Free
    BY DEF Leave
  <1> HIDE DEF me
  <1>3. /\ proc' \in [Procs -> Proc] /\ \A q \in Procs : Sound(proc'[q])
        /\ proc'[p] = me /\ \A q \in Procs : q # p => proc'[q] = proc[q]
    BY <1>1, <1>2, Update
  <1>4. \A q \in Procs : q # p => proc[q].pc \notin Section
    BY StoreAssumption DEF StoreInv, OneHolder
  <1> QED BY <1>1, <1>2, <1>3, <1>4 DEF OneHolder

\* The other steps keep the lock, and keep whoever does not enter the section out of it.
LEMMA LocalSound ==
  ASSUME StoreInv, NEW p \in Procs, NEW me \in Proc, Sound(me), proc' = [proc EXCEPT ![p] = me],
         lock' = lock, me.pc \in Section => proc[p].pc \in Section
  PROVE  /\ proc' \in [Procs -> Proc] /\ \A q \in Procs : Sound(proc'[q])
         /\ lock' \in Procs \cup {Free} /\ OneHolder'
  <1>1. /\ proc' \in [Procs -> Proc] /\ \A q \in Procs : Sound(proc'[q])
        /\ proc'[p] = me /\ \A q \in Procs : q # p => proc'[q] = proc[q]
    BY Update
  <1>2. lock \in Procs \cup {Free} /\ OneHolder
    BY DEF StoreInv, TypeOK
  <1> QED BY <1>1, <1>2 DEF OneHolder

\* The part of the invariant that does not speak of processes.
StoreTyped ==
    /\ initialized \in BOOLEAN
    /\ inventory \in Inventory /\ Consistent(inventory)
    /\ pointer \in [Plugins -> Versions \cup {None}]
    /\ packages \subseteq Plugins \X Versions
    /\ ops \in 0..MaxOps /\ faults \in 0..MaxFaults /\ crashes \in 0..MaxCrashes
    /\ disturbed \subseteq Plugins
    /\ damage \subseteq {"overlap", "unrestored"}

LEMMA StoreParts ==
  StoreInv <=> /\ StoreTyped
               /\ proc \in [Procs -> Proc] /\ \A p \in Procs : Sound(proc[p])
               /\ lock \in Procs \cup {Free} /\ OneHolder
  BY DEF StoreInv, TypeOK, StoreTyped, ActiveIsInstalled

LEMMA MeSound ==
  ASSUME StoreInv, NEW p \in Procs
  PROVE  proc[p] \in Proc /\ Sound(proc[p])
  BY StoreParts

LEMMA CallStep ==
  ASSUME StoreInv, NEW p \in Procs, NEW op \in Ops, NEW x \in Plugins,
         NEW v \in Versions \cup {None}, NEW r \in Versions \cup {None}, Call(p, op, x, v, r)
  PROVE  StoreInv'
  <1> DEFINE c == Called(op, x, v, r)
  <1>1. op = "removeAll" <=> v = None
    BY DEF Call
  <1>2. c \in Proc /\ Sound(c) /\ c.op = op /\ c.version = v /\ c.pc = "initialize"
    BY <1>1, CalledSound DEF Called
  <1>3. PICK me \in IF initialized THEN Entered(c) ELSE {c} : proc' = [proc EXCEPT ![p] = me]
    BY DEF Call
  <1>4. me \in Proc /\ Sound(me)
    BY <1>1, <1>2, <1>3, EnteredSound DEF StoreInv
  <1>5. me.pc \notin Section
    BY <1>2, <1>3 DEF Entered, Section, NoOp, Called, Proc
  <1>6. StoreTyped' /\ lock' = lock
    BY StoreParts, StoreAssumption DEF Call, StoreTyped, disk
  <1>7. /\ proc' \in [Procs -> Proc] /\ \A q \in Procs : Sound(proc'[q])
        /\ lock' \in Procs \cup {Free} /\ OneHolder'
    BY <1>3, <1>4, <1>5, <1>6, LocalSound
  <1> QED BY <1>6, <1>7 DEF StoreInv, TypeOK, StoreTyped, ActiveIsInstalled

LEMMA InitializeStep ==
  ASSUME StoreInv, NEW p \in Procs, Initialize(p)
  PROVE  StoreInv'
  <1>1. PICK me \in Entered(proc[p]) \cup {NoOp} :
           proc' = [proc EXCEPT ![p] = me] /\ (proc[p].op = "removeAll" => me = NoOp)
    BY DEF Initialize, Return
  <1>2. me \in Proc /\ Sound(me)
    BY <1>1, MeSound, NoOpSound, EnteredSound DEF StoreInv, Sound, Initialize
  <1>3. me.pc \notin Section
    BY <1>1, MeSound DEF Entered, Section, NoOp, Called, Proc
  <1>4. StoreTyped' /\ lock' = lock
    BY StoreParts, NoPluginsSound DEF Initialize, StoreTyped, bounds
  <1>5. /\ proc' \in [Procs -> Proc] /\ \A q \in Procs : Sound(proc'[q])
        /\ lock' \in Procs \cup {Free} /\ OneHolder'
    BY <1>1, <1>2, <1>3, <1>4, LocalSound
  <1> QED BY <1>4, <1>5 DEF StoreInv, TypeOK, StoreTyped, ActiveIsInstalled

LEMMA NextVersionStep ==
  ASSUME StoreInv, NEW p \in Procs, NextVersion(p)
  PROVE  StoreInv'
  <1> DEFINE x == proc[p].plugin  current == inventory.versions[x]
  <1>1. proc[p] \in Proc /\ x \in Plugins /\ current \subseteq Versions /\ proc[p].todo \subseteq Versions
    BY MeSound, StoreParts DEF Proc, StoreTyped, Inventory
  <1>2. StoreTyped' /\ lock' = lock
    BY StoreParts DEF NextVersion, StoreTyped, disk, bounds
  <1>3. \E me \in Proc : Sound(me) /\ proc' = [proc EXCEPT ![p] = me] /\ me.pc \notin Section
    <2>1. CASE Return(p)
      BY <2>1, NoOpSound DEF Return, NoOp, Called, Section
    <2>2. ASSUME NEW v \in Greatest(proc[p].todo),
                 NEW r \in IF inventory.active[x] = v /\ current # {v} THEN Greatest(current \ {v}) ELSE {None},
                 proc' = [proc EXCEPT ![p] = [Called("removeAll", x, v, r) EXCEPT
                             !.pc = "waiting", !.status = "created", !.todo = proc[p].todo \ {v}]]
          PROVE  \E me \in Proc : Sound(me) /\ proc' = [proc EXCEPT ![p] = me] /\ me.pc \notin Section
      <3> DEFINE me == [Called("removeAll", x, v, r) EXCEPT
                             !.pc = "waiting", !.status = "created", !.todo = proc[p].todo \ {v}]
      <3>1. v \in Versions /\ r \in Versions \cup {None} /\ "removeAll" \in Ops
        BY <1>1 DEF Greatest, Ops
      <3>3. me \in Proc /\ Sound(me) /\ me.pc \notin Section
        <4> HIDE DEF x, current
        <4>1. x \in Plugins /\ proc[p].todo \in SUBSET Versions
          BY <1>1
        <4> QED BY <4>1, <3>1, NoPluginsSound DEF Called, Proc, Sound, Section, Accepted, Running, Undoing, Statuses
      <3> QED BY <2>2, <3>3
    <2> QED BY <2>1, <2>2 DEF NextVersion
  <1>4. /\ proc' \in [Procs -> Proc] /\ \A q \in Procs : Sound(proc'[q])
        /\ lock' \in Procs \cup {Free} /\ OneHolder'
    BY <1>2, <1>3, LocalSound
  <1> QED BY <1>2, <1>4 DEF StoreInv, TypeOK, StoreTyped, ActiveIsInstalled

\* A step that changes the local variables and the files but not the lock.
LEMMA LocalStep ==
  ASSUME StoreInv, NEW p \in Procs, NEW me \in Proc, Sound(me), proc' = [proc EXCEPT ![p] = me],
         lock' = lock, me.pc \in Section => proc[p].pc \in Section, StoreTyped'
  PROVE  StoreInv'
  <1>1. /\ proc' \in [Procs -> Proc] /\ \A q \in Procs : Sound(proc'[q])
        /\ lock' \in Procs \cup {Free} /\ OneHolder'
    BY LocalSound
  <1> QED BY <1>1 DEF StoreInv, TypeOK, StoreTyped, ActiveIsInstalled

\* A step that leaves the section.
LEMMA LeaveStep ==
  ASSUME StoreInv, NEW p \in Procs, proc[p].pc \in Section, NEW local \in Proc,
         Consistent(local.orig), local.version \in Versions, Leave(p, local), StoreTyped'
  PROVE  StoreInv'
  <1>1. /\ proc' \in [Procs -> Proc] /\ \A q \in Procs : Sound(proc'[q])
        /\ lock' \in Procs \cup {Free} /\ OneHolder'
    BY LeaveSound
  <1> QED BY <1>1 DEF StoreInv, TypeOK, StoreTyped, ActiveIsInstalled

LEMMA AcquireStep ==
  ASSUME StoreInv, NEW p \in Procs, Acquire(p)
  PROVE  StoreInv'
  <1> DEFINE me == [proc[p] EXCEPT !.pc = "locked"]
  <1>1. me \in Proc /\ Sound(me)
    BY MeSound DEF Acquire, Proc, Sound, Section, Accepted, Undoing, Running
  <1>2. proc' = [proc EXCEPT ![p] = me] /\ lock' = p /\ lock = Free
    BY DEF Acquire, Step
  <1> HIDE DEF me
  <1>3. /\ proc' \in [Procs -> Proc] /\ \A q \in Procs : Sound(proc'[q])
        /\ proc'[p] = me /\ \A q \in Procs : q # p => proc'[q] = proc[q]
    BY <1>1, <1>2, Update
  <1>4. \A q \in Procs : proc[q].pc \notin Section
    BY <1>2, StoreAssumption DEF StoreInv, OneHolder
  <1>5. OneHolder'
    BY <1>2, <1>3, <1>4 DEF OneHolder
  <1>6. StoreTyped'
    BY StoreParts DEF Acquire, StoreTyped, disk, bounds
  <1> QED BY <1>2, <1>3, <1>5, <1>6 DEF StoreInv, TypeOK, StoreTyped, ActiveIsInstalled

LEMMA RefusedStep ==
  ASSUME StoreInv, NEW p \in Procs, Refused(p)
  PROVE  StoreInv'
  <1> DEFINE me == [proc[p] EXCEPT !.pc = "undoInventory"]
  <1>1. me \in Proc /\ Sound(me) /\ me.pc \notin Section
    BY MeSound DEF Refused, Proc, Sound, Section, Accepted, Undoing
  <1>2. proc' = [proc EXCEPT ![p] = me] /\ lock' = lock
    BY DEF Refused, Step
  <1>3. StoreTyped'
    BY StoreParts DEF Refused, StoreTyped, disk, bounds
  <1> QED BY <1>1, <1>2, <1>3, LocalStep

LEMMA LoadStep ==
  ASSUME StoreInv, NEW p \in Procs, Load(p)
  PROVE  StoreInv'
  <1> DEFINE me == proc[p]
             read == [me EXCEPT !.loaded = TRUE, !.orig = inventory]
             known == [read EXCEPT !.prev = IF me.op = "install" THEN None ELSE pointer[me.plugin],
                                   !.status = IF me.op = "rollback" THEN "validated" ELSE @]
             next == [known EXCEPT !.pc = FirstWrite(me.op)]
  <1>1. me \in Proc /\ Sound(me) /\ me.pc = "locked" /\ me.version \in Versions
    BY MeSound DEF Load, Sound, Section
  <1>2. inventory \in Inventory /\ Consistent(inventory) /\ pointer \in [Plugins -> Versions \cup {None}]
    BY StoreParts DEF StoreTyped
  <1>3. StoreTyped'
    BY StoreParts DEF Load, StoreTyped, disk, bounds
  <1>4. read \in Proc /\ Consistent(read.orig) /\ read.version \in Versions
    BY <1>1, <1>2 DEF Proc
  <1>5. known \in Proc /\ Consistent(known.orig) /\ known.version \in Versions
    BY <1>1, <1>2 DEF Proc, Statuses
  <1>6. CASE Leave(p, read)
    BY <1>1, <1>3, <1>4, <1>6, LeaveStep DEF Section
  <1>7. CASE Leave(p, known)
    BY <1>1, <1>3, <1>5, <1>7, LeaveStep DEF Section
  <1>8. CASE /\ ~Rejects(inventory, me.op, me.plugin, me.version, me.replacement)
             /\ proc' = [proc EXCEPT ![p] = next] /\ UNCHANGED lock
    <2>1. next \in Proc /\ Sound(next)
      BY <1>1, <1>2, <1>8 DEF Proc, Sound, Section, Accepted, Undoing, Running, Statuses, FirstWrite
    <2> HIDE DEF next
    <2> QED BY <1>1, <1>3, <1>8, <2>1, LocalStep DEF Section
  <1> QED BY <1>6, <1>7, <1>8 DEF Load

LEMMA StageStep ==
  ASSUME StoreInv, NEW p \in Procs, Stage(p)
  PROVE  StoreInv'
  <1> DEFINE me == proc[p]
             moved == [me EXCEPT !.moved = TRUE, !.status = "staged"]
             next == [me EXCEPT !.moved = TRUE, !.status = "staged", !.pc = "save"]
  <1>1. me \in Proc /\ Sound(me) /\ me.pc = "stage" /\ me.version \in Versions /\ me.plugin \in Plugins
    BY MeSound DEF Stage, Proc, Sound, Section
  <1>2. StoreTyped'
    BY <1>1, StoreParts DEF Stage, StoreTyped, disk, bounds
  <1>3. CASE Leave(p, moved)
    <2>1. moved \in Proc /\ Consistent(moved.orig) /\ moved.version \in Versions
      BY <1>1 DEF Proc, Sound, Statuses
    <2> QED BY <1>1, <1>2, <1>3, <2>1, LeaveStep DEF Section
  <1>4. CASE proc' = [proc EXCEPT ![p] = next] /\ UNCHANGED lock
    <2>1. next \in Proc /\ Sound(next)
      BY <1>1 DEF Proc, Sound, Section, Accepted, Undoing, Running, Statuses
    <2> QED BY <1>1, <1>2, <1>4, <2>1, LocalStep DEF Section
  <1> QED BY <1>3, <1>4 DEF Stage

LEMMA MoveStep ==
  ASSUME StoreInv, NEW p \in Procs, Move(p)
  PROVE  StoreInv'
  <1> DEFINE me == [proc[p] EXCEPT !.moved = TRUE, !.pc = "point"]
  <1>1. proc[p].pc \in Section /\ me \in Proc /\ Sound(me)
    BY MeSound DEF Move, Proc, Sound, Section, Accepted, Undoing, Running
  <1>2. proc' = [proc EXCEPT ![p] = me] /\ lock' = lock
    BY StoreParts DEF Move
  <1>3. StoreTyped'
    BY StoreParts DEF Move, StoreTyped, bounds
  <1> QED BY <1>1, <1>2, <1>3, LocalStep

LEMMA SaveStep ==
  ASSUME StoreInv, NEW p \in Procs, Save(p)
  PROVE  StoreInv'
  <1> DEFINE me == [proc[p] EXCEPT !.saved = TRUE, !.pc = IF IsRemove(proc[p]) THEN "commit" ELSE "point"]
  <1>1. proc[p].pc \in Section /\ me \in Proc /\ Sound(me) /\ proc[p].pc \in Accepted
    BY MeSound DEF Save, Proc, Sound, Section, Accepted, Undoing, Running
  <1>2. proc' = [proc EXCEPT ![p] = me] /\ lock' = lock
    BY StoreParts DEF Save
  <1>3. Changed(proc[p]) \in Inventory /\ Consistent(Changed(proc[p]))
    BY <1>1, MeSound, ChangedSound
  <1>4. StoreTyped'
    BY <1>3, StoreParts DEF Save, StoreTyped, bounds
  <1> QED BY <1>1, <1>2, <1>4, LocalStep

LEMMA PointStep ==
  ASSUME StoreInv, NEW p \in Procs, Point(p)
  PROVE  StoreInv'
  <1> DEFINE me == [proc[p] EXCEPT !.pointed = TRUE, !.pc = IF IsRemove(proc[p]) THEN "save" ELSE "commit"]
  <1>1. proc[p].pc \in Section /\ me \in Proc /\ Sound(me) /\ proc[p].pc \in Accepted
    BY MeSound DEF Point, Proc, Sound, Section, Accepted, Undoing, Running
  <1>2. proc' = [proc EXCEPT ![p] = me] /\ lock' = lock
    BY StoreParts DEF Point
  <1>3. Changed(proc[p]).active[proc[p].plugin] \in Versions \cup {None}
    BY <1>1, MeSound, ChangedSound DEF Inventory, Proc
  <1>4. StoreTyped'
    BY <1>3, StoreParts DEF Point, StoreTyped, bounds
  <1> QED BY <1>1, <1>2, <1>4, LocalStep

LEMMA CommitStep ==
  ASSUME StoreInv, NEW p \in Procs, Commit(p)
  PROVE  StoreInv'
  <1> DEFINE me == [proc[p] EXCEPT !.status = "committed", !.pc = "release"]
  <1>1. proc[p].pc \in Section /\ me \in Proc /\ Sound(me)
    BY MeSound DEF Commit, Proc, Sound, Section, Accepted, Undoing, Running, Statuses
  <1>2. proc' = [proc EXCEPT ![p] = me] /\ lock' = lock
    BY StoreParts DEF Commit, Recorded
  <1>3. StoreTyped'
    BY StoreParts DEF Commit, StoreTyped, disk, bounds
  <1> QED BY <1>1, <1>2, <1>3, LocalStep

LEMMA ReleaseStep ==
  ASSUME StoreInv, NEW p \in Procs, Release(p)
  PROVE  StoreInv'
  <1>1. PICK me \in {[proc[p] EXCEPT !.pc = "next"], NoOp} : proc' = [proc EXCEPT ![p] = me]
    BY DEF Release, Step, Return
  <1>2. me \in Proc /\ Sound(me) /\ me.pc \notin Section
    <2>1. CASE me = NoOp
      BY <2>1, NoOpSound DEF NoOp, Called, Section
    <2>2. CASE me = [proc[p] EXCEPT !.pc = "next"]
      BY <2>2, MeSound DEF Proc, Sound, Section, Accepted, Undoing, Running
    <2> QED BY <1>1, <2>1, <2>2
  <1>3. /\ proc' \in [Procs -> Proc] /\ \A q \in Procs : Sound(proc'[q])
        /\ proc'[p] = me /\ \A q \in Procs : q # p => proc'[q] = proc[q]
    BY <1>1, <1>2, Update
  <1>4. proc[p].pc \in Section /\ lock' = Free
    BY DEF Release, Section
  <1>5. \A q \in Procs : q # p => proc[q].pc \notin Section
    BY <1>4 DEF StoreInv, OneHolder
  <1>6. OneHolder'
    BY <1>2, <1>3, <1>5 DEF OneHolder
  <1>7. StoreTyped'
    BY StoreParts DEF Release, StoreTyped, disk, bounds
  <1> QED BY <1>3, <1>4, <1>6, <1>7 DEF StoreInv, TypeOK, StoreTyped, ActiveIsInstalled

LEMMA FaultStep ==
  ASSUME StoreInv, NEW p \in Procs, Fault(p)
  PROVE  StoreInv'
  <1> DEFINE local == [proc[p] EXCEPT !.pointed = @ \/ proc[p].pc = "point"]
  <1>1. proc[p].pc \in Section /\ Leave(p, local)
    BY DEF Fault
  <1>2. local \in Proc /\ Consistent(local.orig) /\ local.version \in Versions
    BY <1>1, MeSound DEF Proc, Sound
  <1>3. StoreTyped'
    BY StoreParts, StoreAssumption DEF Fault, StoreTyped, disk
  <1> QED BY <1>1, <1>2, <1>3, LeaveStep

LEMMA UndoInventoryStep ==
  ASSUME StoreInv, NEW p \in Procs, UndoInventory(p)
  PROVE  StoreInv'
  <1> DEFINE me == [proc[p] EXCEPT !.pc = IF proc[p].op = "install" THEN "undoPointer" ELSE "undoFiles"]
  <1>1. me \in Proc /\ Sound(me) /\ me.pc \notin Section
    BY MeSound DEF UndoInventory, Proc, Sound, Section, Accepted, Undoing
  <1>2. proc' = [proc EXCEPT ![p] = me] /\ lock' = lock
    BY DEF UndoInventory, Step
  <1>3. StoreTyped'
    BY MeSound, StoreParts, StoreAssumption DEF UndoInventory, StoreTyped, Proc, Sound
  <1> QED BY <1>1, <1>2, <1>3, LocalStep

LEMMA UndoPointerStep ==
  ASSUME StoreInv, NEW p \in Procs, UndoPointer(p)
  PROVE  StoreInv'
  <1> DEFINE me == [proc[p] EXCEPT !.pc = IF proc[p].op = "install" THEN "undoFiles" ELSE "failed"]
  <1>1. me \in Proc /\ Sound(me) /\ me.pc \notin Section
    BY MeSound DEF UndoPointer, Proc, Sound, Section, Accepted, Undoing
  <1>2. proc' = [proc EXCEPT ![p] = me] /\ lock' = lock
    BY DEF UndoPointer, Step
  <1>3. proc[p].plugin \in Plugins /\ proc[p].prev \in Versions \cup {None}
    BY MeSound DEF Proc
  <1>4. StoreTyped'
    BY <1>3, StoreParts DEF UndoPointer, StoreTyped, bounds
  <1> QED BY <1>1, <1>2, <1>4, LocalStep

LEMMA UndoFilesStep ==
  ASSUME StoreInv, NEW p \in Procs, UndoFiles(p)
  PROVE  StoreInv'
  <1> DEFINE me == [proc[p] EXCEPT !.moved = FALSE, !.pc = IF proc[p].op = "install" THEN "failed" ELSE "undoPointer"]
  <1>1. me \in Proc /\ Sound(me) /\ me.pc \notin Section
    BY MeSound DEF UndoFiles, Proc, Sound, Section, Accepted, Undoing
  <1>2. proc' = [proc EXCEPT ![p] = me] /\ lock' = lock
    BY StoreParts DEF UndoFiles
  <1>3. proc[p].pc \in Undoing /\ proc[p].version \in Versions /\ proc[p].plugin \in Plugins
    BY MeSound DEF UndoFiles, Undoing, Sound, Proc
  <1>4. StoreTyped'
    BY <1>3, StoreParts DEF UndoFiles, StoreTyped, bounds
  <1> QED BY <1>1, <1>2, <1>4, LocalStep

LEMMA FailStep ==
  ASSUME StoreInv, NEW p \in Procs, Fail(p)
  PROVE  StoreInv'
  <1>1. NoOp.pc \notin Section
    BY DEF NoOp, Called, Section
  <1>2. proc' = [proc EXCEPT ![p] = NoOp] /\ lock' = lock
    BY DEF Fail, Return
  <1>3. StoreTyped'
    BY StoreParts DEF Fail, StoreTyped, disk, bounds
  <1> QED BY <1>1, <1>2, <1>3, NoOpSound, LocalStep

LEMMA CrashStep ==
  ASSUME StoreInv, NEW p \in Procs, Crash(p)
  PROVE  StoreInv'
  <1> DEFINE me == [proc[p] EXCEPT !.pc = "dead"]
  <1>1. me \in Proc /\ Sound(me) /\ me.pc \notin Section
    BY MeSound DEF Proc, Sound, Section, Accepted, Undoing
  <1>2. proc' = [proc EXCEPT ![p] = me] /\ lock' = lock
    BY DEF Crash, Step
  <1>3. proc[p].plugin \in Plugins
    BY MeSound DEF Proc
  <1>4. StoreTyped'
    BY <1>3, StoreParts, StoreAssumption DEF Crash, StoreTyped, disk
  <1> QED BY <1>1, <1>2, <1>4, LocalStep

LEMMA InitSound == Init => StoreInv
  <1> SUFFICES ASSUME Init PROVE StoreInv
    OBVIOUS
  <1>1. inventory \in Inventory /\ Consistent(inventory) /\ pointer \in [Plugins -> Versions \cup {None}]
    BY DEF Init, Inventory
  <1>2. StoreTyped
    BY <1>1, StoreAssumption DEF Init, StoreTyped
  <1>3. NoOp.pc \notin Section
    BY DEF NoOp, Called, Section
  <1>4. \A p \in Procs : proc[p] = NoOp
    BY DEF Init
  <1>5. proc \in [Procs -> Proc] /\ (\A p \in Procs : Sound(proc[p])) /\ OneHolder
    BY <1>3, <1>4, NoOpSound DEF Init, OneHolder
  <1> QED BY <1>2, <1>5, StoreParts DEF Init

LEMMA StepSound == StoreInv /\ [Next]_vars => StoreInv'
  <1> SUFFICES ASSUME StoreInv, [Next]_vars PROVE StoreInv'
    OBVIOUS
  <1>1. CASE UNCHANGED vars
    BY <1>1, StoreParts DEF vars, disk, bounds, StoreInv, TypeOK, OneHolder, ActiveIsInstalled
  <1>2. ASSUME NEW p \in Procs, NEW op \in Ops, NEW x \in Plugins, NEW v \in Versions \cup {None},
               NEW r \in Versions \cup {None}, Call(p, op, x, v, r)
        PROVE  StoreInv'
    BY <1>2, CallStep
  <1>3. ASSUME NEW p \in Procs, Progress(p)
        PROVE  StoreInv'
    BY <1>3, InitializeStep, NextVersionStep, AcquireStep, RefusedStep, LoadStep, StageStep, MoveStep,
       SaveStep, PointStep, CommitStep, ReleaseStep, UndoInventoryStep, UndoPointerStep,
       UndoFilesStep, FailStep DEF Progress
  <1>4. ASSUME NEW p \in Procs, Fault(p) \/ Crash(p)
        PROVE  StoreInv'
    BY <1>4, FaultStep, CrashStep
  <1> QED BY <1>1, <1>2, <1>3, <1>4 DEF Next

-----------------------------------------------------------------------------
\* The store's state is well typed in every reachable state.
THEOREM StoreTypeCorrect == Spec => []TypeOK
  <1>1. StoreInv => TypeOK
    BY DEF StoreInv
  <1> QED BY <1>1, InitSound, StepSound, PTL DEF Spec

\* The lock file excludes: at most one process is inside the section of the store, whatever
\* fails or dies (plugin_store.py:237-268).
THEOREM LockExcludes == Spec => []OneHolder
  <1>1. StoreInv => OneHolder
    BY DEF StoreInv
  <1> QED BY <1>1, InitSound, StepSound, PTL DEF Spec

\* Every inventory that is written, a restore without the lock included, is consistent.
THEOREM SavedInventoryConsistent == Spec => []ActiveIsInstalled
  <1>1. StoreInv => ActiveIsInstalled
    BY DEF StoreInv
  <1> QED BY <1>1, InitSound, StepSound, PTL DEF Spec

-----------------------------------------------------------------------------
(* What a commit heals and what a failure keeps.  While the store was only *)
(* written under protection (damage = {}), the process that works on what  *)
(* it loaded is alone with it, so its copy says what the inventory was.    *)

\* In the section, or in the handler of an operation that loaded the inventory.
Active(me) == me.pc \in Section \/ (me.pc \in Undoing /\ me.loaded)

\* Neither in the section nor in a handler.
Outside(me) == me.pc \notin Section \cup Undoing

Dir(me) == <<me.plugin, me.version>>

\* How far an operation has come, by its local variables.
Placed(me) ==
    /\ me.pc \in {"initialize", "waiting", "locked"} => ~me.loaded /\ ~me.moved /\ ~me.saved /\ ~me.pointed
    /\ me.pc \in Accepted => me.loaded
    /\ me.pc \in Section \cup Undoing /\ me.moved => me.loaded
    /\ me.pc = "stage" => me.op = "install"
    /\ me.pc = "move" => IsRemove(me)
    /\ me.pc \in {"stage", "move", "save"} => ~me.saved
    /\ me.pc = "point" /\ IsRemove(me) => ~me.saved
    /\ me.pc = "point" /\ ~IsRemove(me) => me.saved
    /\ me.pc \in Section /\ me.pointed => me.pc \in {"save", "commit", "release"}
    /\ me.pc = "save" => (me.pointed <=> IsRemove(me))
    /\ me.pc \in {"commit", "release"} => me.saved /\ me.pointed
    /\ me.pc = "save" /\ me.op = "install" => me.moved
    /\ IsRemove(me) /\ me.pc \in {"point", "save"} => me.moved
    /\ IsRemove(me) /\ me.pc \in Section \cup {"undoInventory"} /\ me.saved => me.moved
    /\ IsRemove(me) /\ me.pc \in {"undoPointer", "failed"} => ~me.moved
    /\ me.op = "install" /\ me.moved /\ me.pc \in Section \cup Undoing =>
         me.version \notin me.orig.versions[me.plugin]

Begun(me) ==
    /\ me.pc \in Section \cup Undoing \cup {"waiting", "next"} => initialized
    /\ me.pc = "dead" => crashes > 0

\* The inventory is still, or again, what the operation loaded.
Keeping(me) == me.loaded /\ (\/ me.pc \in Section \cup {"undoInventory"} /\ ~me.saved
                             \/ me.pc \in {"undoPointer", "undoFiles", "failed"})

\* The inventory is what the operation has made of it.
Replacing(me) == me.loaded /\ me.saved /\ me.pc \in Section \cup {"undoInventory"}

\* The store as the process knows it.
Knows(me) ==
    /\ Keeping(me) => inventory = me.orig
    /\ Replacing(me) => inventory = Changed(me)
    /\ me.pc \in Section /\ me.pointed => pointer[me.plugin] = Changed(me).active[me.plugin]
    /\ me.pc \in Section /\ me.op = "install" /\ me.moved => Dir(me) \in packages

\* A removal that has the directory of a version in its trash.
Trashed(me, x, v) ==
    /\ IsRemove(me) /\ me.moved /\ me.plugin = x /\ me.version = v
    /\ me.pc \in {"point", "save", "dead"} \cup Undoing

PointerUndone(me) == me.pc = "failed" \/ (me.pc = "undoFiles" /\ me.op = "install")

Alone == \A p, q \in Procs : p # q /\ Active(proc[p]) => ~Active(proc[q]) /\ proc[q].pc # "initialize"

Marked ==
    \A q \in Procs : PointerUndone(proc[q]) =>
        proc[q].plugin \in disturbed /\ \A p \in Procs \ {q} : proc[p].pc \notin Section

Healthy(x) ==
    /\ \A v \in inventory.versions[x] :
         <<x, v>> \in packages \/ \E p \in Procs : Trashed(proc[p], x, v)
    /\ x \notin disturbed /\ ~Busy(x) /\ inventory.versions[x] # {} => pointer[x] = inventory.active[x]

Protected == Alone /\ Marked /\ (\A p \in Procs : Knows(proc[p])) /\ \A x \in Plugins : Healthy(x)

HealInv ==
    /\ \A p \in Procs : Placed(proc[p]) /\ Begun(proc[p])
    /\ damage = {} => Protected

-----------------------------------------------------------------------------
(* Where an operation goes.                                                *)

LEMMA NoOpPlaced == NoOp.pc = "idle" /\ Placed(NoOp) /\ Outside(NoOp) /\ ~NoOp.moved
  BY DEF NoOp, Called, Placed, Outside, Section, Undoing, Accepted

LEMMA CalledPlaced ==
  ASSUME NEW op, NEW x, NEW v, NEW r
  PROVE  Placed(Called(op, x, v, r)) /\ Called(op, x, v, r).pc = "initialize"
  BY DEF Called, Placed, Section, Undoing, Accepted

LEMMA EnteredPlaced ==
  ASSUME NEW me \in Proc, Placed(me), me.pc = "initialize", NEW after \in Entered(me)
  PROVE  Placed(after) /\ after.pc \in {"waiting", "next", "idle"}
  <1>1. CASE after = NoOp
    BY <1>1, NoOpPlaced
  <1>2. CASE after = [me EXCEPT !.pc = "waiting", !.status = "verified"]
    BY <1>2 DEF Proc, Placed, Section, Undoing, Accepted
  <1>3. CASE after = [me EXCEPT !.pc = "next", !.todo = inventory.versions[me.plugin]]
    BY <1>3 DEF Proc, Placed, Section, Undoing, Accepted
  <1>4. CASE after = [me EXCEPT !.pc = "waiting", !.status = "created"]
    BY <1>4 DEF Proc, Placed, Section, Undoing, Accepted
  <1> QED BY <1>1, <1>2, <1>3, <1>4 DEF Entered

\* What is outside knows nothing of the store and is not active.
LEMMA OutsideFacts ==
  ASSUME NEW me, ~Active(me)
  PROVE  ~Keeping(me) /\ ~Replacing(me) /\ me.pc \notin Section /\ Knows(me)
  BY DEF Active, Keeping, Replacing, Knows, Section, Undoing

\* The step of one process, for the parts of the invariant.
Moves(p, me) == proc' = [proc EXCEPT ![p] = me] /\ proc \in [Procs -> Proc]

LEMMA MovesFacts ==
  ASSUME NEW p \in Procs, NEW me, Moves(p, me)
  PROVE  proc'[p] = me /\ \A q \in Procs : q # p => proc'[q] = proc[q]
  BY DEF Moves

LEMMA PlacedStep ==
  ASSUME HealInv, NEW p \in Procs, NEW me, Moves(p, me), Placed(me),
         initialized => initialized', crashes \in Nat, crashes' \in Nat, crashes <= crashes',
         me.pc \in Section \cup Undoing \cup {"waiting", "next"} => initialized',
         me.pc = "dead" => crashes' > 0
  PROVE  \A q \in Procs : Placed(proc'[q]) /\ Begun(proc[q])'
  <1>1. proc'[p] = me /\ \A q \in Procs : q # p => proc'[q] = proc[q]
    BY MovesFacts
  <1>2. \A q \in Procs : Placed(proc[q]) /\ Begun(proc[q])
    BY DEF HealInv
  <1> QED BY <1>1, <1>2 DEF Begun

LEMMA AloneStep ==
  ASSUME Alone, NEW p \in Procs, NEW me, Moves(p, me),
         Active(me) /\ ~Active(proc[p]) =>
            \A q \in Procs \ {p} : ~Active(proc[q]) /\ proc[q].pc # "initialize",
         me.pc = "initialize" => \A q \in Procs \ {p} : ~Active(proc[q])
  PROVE  Alone'
  <1>1. proc'[p] = me /\ \A q \in Procs : q # p => proc'[q] = proc[q]
    BY MovesFacts
  <1> SUFFICES ASSUME NEW a \in Procs, NEW b \in Procs, a # b, Active(proc'[a])
               PROVE  ~Active(proc'[b]) /\ proc'[b].pc # "initialize"
    BY DEF Alone, Active
  <1>2. CASE a = p BY <1>1, <1>2 DEF Alone
  <1>3. CASE b = p
    <2>1. Active(proc[a]) BY <1>1, <1>3
    <2>2. ~Active(proc[p]) BY <1>3, <2>1 DEF Alone
    <2> QED BY <1>1, <1>3, <2>1, <2>2
  <1>4. CASE a # p /\ b # p BY <1>1, <1>4 DEF Alone
  <1> QED BY <1>2, <1>3, <1>4

LEMMA MarkedStep ==
  ASSUME Marked, NEW p \in Procs, NEW me, Moves(p, me),
         me.pc \in Section /\ proc[p].pc \notin Section => \A q \in Procs \ {p} : ~PointerUndone(proc[q]),
         PointerUndone(me) => /\ me.plugin \in disturbed'
                              /\ \A q \in Procs \ {p} : proc[q].pc \notin Section,
         \A q \in Procs \ {p} : PointerUndone(proc[q]) => proc[q].plugin \in disturbed'
  PROVE  Marked'
  <1>1. proc'[p] = me /\ \A q \in Procs : q # p => proc'[q] = proc[q]
    BY MovesFacts
  <1> SUFFICES ASSUME NEW q \in Procs, PointerUndone(proc'[q])
               PROVE  proc'[q].plugin \in disturbed' /\ \A a \in Procs \ {q} : proc'[a].pc \notin Section
    BY DEF Marked, PointerUndone
  <1>2. CASE q = p BY <1>1, <1>2
  <1>3. CASE q # p
    <2>1. PointerUndone(proc[q]) /\ proc'[q] = proc[q] BY <1>1, <1>3
    <2>2. \A a \in Procs \ {q} : proc[a].pc \notin Section BY <2>1 DEF Marked
    <2> QED BY <1>1, <1>3, <2>1, <2>2
  <1> QED BY <1>2, <1>3

\* The files, the inventory and the pointers are as they were.
LEMMA HealthyStep ==
  ASSUME \A x \in Plugins : Healthy(x), NEW p \in Procs, NEW me, Moves(p, me),
         UNCHANGED <<inventory, pointer, packages>>,
         \A x \in Plugins : \A v \in inventory.versions[x] : Trashed(proc[p], x, v) =>
            Trashed(me, x, v) \/ <<x, v>> \in packages,
         \A x \in Plugins : x \notin disturbed' =>
            x \notin disturbed \/ (~Outside(me) /\ me.plugin = x),
         \A x \in Plugins : x \notin disturbed' /\ ~Outside(proc[p]) /\ proc[p].plugin = x =>
            (~Outside(me) /\ me.plugin = x) \/ pointer[x] = inventory.active[x]
  PROVE  \A x \in Plugins : Healthy(x)'
  <1>1. proc'[p] = me /\ \A q \in Procs : q # p => proc'[q] = proc[q]
    BY MovesFacts
  <1> SUFFICES ASSUME NEW x \in Plugins PROVE Healthy(x)'
    OBVIOUS
  <1>2. ASSUME NEW v \in inventory.versions[x]
        PROVE  <<x, v>> \in packages \/ \E q \in Procs : Trashed(proc'[q], x, v)
    <2>1. <<x, v>> \in packages \/ \E q \in Procs : Trashed(proc[q], x, v)
      BY DEF Healthy
    <2> QED BY <1>1, <2>1
  <1>3. ASSUME x \notin disturbed', ~Busy(x)', inventory.versions[x] # {}
        PROVE  pointer[x] = inventory.active[x]
    <2>1. \A q \in Procs : Outside(proc'[q]) \/ proc'[q].plugin # x
      BY <1>3 DEF Busy, Outside
    <2>2. Outside(me) \/ me.plugin # x BY <1>1, <2>1
    <2>3. x \notin disturbed BY <1>3, <2>2
    <2>4. CASE ~Outside(proc[p]) /\ proc[p].plugin = x BY <1>3, <2>2, <2>4
    <2>5. CASE Outside(proc[p]) \/ proc[p].plugin # x
      <3>1. ~Busy(x) BY <1>1, <2>1, <2>5 DEF Busy, Outside
      <3> QED BY <1>3, <2>3, <3>1 DEF Healthy
    <2> QED BY <2>4, <2>5
  <1>4. (\A v \in inventory.versions[x] :
           <<x, v>> \in packages \/ \E q \in Procs : Trashed(proc[q], x, v))'
    BY <1>2 DEF Trashed, IsRemove
  <1> QED BY <1>3, <1>4 DEF Healthy

\* The store is as it was, and so is what the others know of it.
LEMMA KnowsStep ==
  ASSUME \A q \in Procs : Knows(proc[q]), NEW p \in Procs, NEW me, Moves(p, me),
         UNCHANGED <<inventory, pointer, packages>>, Knows(me)
  PROVE  \A q \in Procs : Knows(proc[q])'
  <1>1. proc'[p] = me /\ \A q \in Procs : q # p => proc'[q] = proc[q]
    BY MovesFacts
  <1>2. ASSUME NEW q \in Procs PROVE Knows(proc[q])'
    <2>1. Knows(proc'[q]) BY <1>1
    <2>2. Keeping(proc[q])' <=> Keeping(proc'[q]) BY DEF Keeping
    <2>3. Replacing(proc[q])' <=> Replacing(proc'[q]) BY DEF Replacing
    <2>4. Changed(proc[q])' = Changed(proc'[q]) BY DEF Changed
    <2> QED BY <2>1, <2>2, <2>3, <2>4 DEF Knows, Dir
  <1> QED BY <1>2

\* p is alone with the store: the others know nothing of it.
LEMMA KnowsAlone ==
  ASSUME NEW p \in Procs, NEW me, Moves(p, me), \A q \in Procs \ {p} : ~Active(proc[q]),
         Keeping(me) => inventory' = me.orig,
         Replacing(me) => inventory' = Changed(me),
         me.pc \in Section /\ me.pointed => pointer'[me.plugin] = Changed(me).active[me.plugin],
         me.pc \in Section /\ me.op = "install" /\ me.moved => Dir(me) \in packages'
  PROVE  \A q \in Procs : Knows(proc[q])'
  <1>1. proc'[p] = me /\ \A q \in Procs : q # p => proc'[q] = proc[q]
    BY MovesFacts
  <1>2. ASSUME NEW q \in Procs PROVE Knows(proc[q])'
    <2>1. Keeping(proc[q])' <=> Keeping(proc'[q]) BY DEF Keeping
    <2>2. Replacing(proc[q])' <=> Replacing(proc'[q]) BY DEF Replacing
    <2>3. Changed(proc[q])' = Changed(proc'[q]) BY DEF Changed
    <2>4. CASE q = p BY <1>1, <2>1, <2>2, <2>3, <2>4 DEF Knows, Dir
    <2>5. CASE q # p
      <3>1. proc'[q] = proc[q] /\ ~Active(proc[q]) BY <1>1, <2>5
      <3>2. ~Keeping(proc[q]) /\ ~Replacing(proc[q]) /\ proc[q].pc \notin Section
        BY <3>1, OutsideFacts
      <3> QED BY <2>1, <2>2, <3>1, <3>2 DEF Knows
    <2> QED BY <2>4, <2>5
  <1> QED BY <1>2

LEMMA Assemble ==
  ASSUME \A q \in Procs : Placed(proc'[q]) /\ Begun(proc[q])', damage' = {} => Protected'
  PROVE  HealInv'
  <1>1. \A q \in Procs : Placed(proc[q])' <=> Placed(proc'[q])
    BY DEF Placed, IsRemove
  <1> QED BY <1>1 DEF HealInv

\* An operation is outside when it has done nothing yet, is over or has died.
LEMMA OutsideStep ==
  ASSUME Protected, NEW p \in Procs, NEW me, Moves(p, me), Outside(me),
         UNCHANGED <<inventory, pointer, packages>>,
         me.pc = "initialize" => \A q \in Procs \ {p} : ~Active(proc[q]),
         disturbed \subseteq disturbed',
         \A x \in Plugins : \A v \in inventory.versions[x] : Trashed(proc[p], x, v) =>
            Trashed(me, x, v) \/ <<x, v>> \in packages,
         \A x \in Plugins : x \notin disturbed' /\ ~Outside(proc[p]) /\ proc[p].plugin = x =>
            pointer[x] = inventory.active[x]
  PROVE  Protected'
  <1>1. ~Active(me) /\ me.pc \notin Section /\ ~PointerUndone(me)
    BY DEF Outside, Active, PointerUndone, Undoing
  <1>2. Alone' BY <1>1, AloneStep DEF Protected
  <1>3. \A q \in Procs \ {p} : PointerUndone(proc[q]) => proc[q].plugin \in disturbed'
    BY DEF Protected, Marked
  <1>4. Marked' BY <1>1, <1>3, MarkedStep DEF Protected
  <1>5. \A q \in Procs : Knows(proc[q])' BY <1>1, OutsideFacts, KnowsStep DEF Protected
  <1>6. \A x \in Plugins : Healthy(x)' BY HealthyStep DEF Protected
  <1> QED BY <1>2, <1>4, <1>5, <1>6 DEF Protected

\* The facts about one process that every step starts from.
LEMMA MeHeals ==
  ASSUME StoreInv, HealInv, NEW p \in Procs
  PROVE  /\ proc \in [Procs -> Proc] /\ proc[p] \in Proc /\ Sound(proc[p]) /\ Placed(proc[p]) /\ Begun(proc[p])
         /\ proc[p].plugin \in Plugins
         /\ faults \in Nat /\ crashes \in Nat /\ disturbed \subseteq Plugins
  BY StoreParts, StoreAssumption DEF HealInv, StoreTyped, Proc

LEMMA CallHeals ==
  ASSUME StoreInv, HealInv, NEW p \in Procs, NEW op \in Ops, NEW x \in Plugins,
         NEW v \in Versions \cup {None}, NEW r \in Versions \cup {None}, Call(p, op, x, v, r)
  PROVE  HealInv'
  <1> DEFINE c == Called(op, x, v, r)
  <1>1. op = "removeAll" <=> v = None
    BY DEF Call
  <1>2. c \in Proc /\ c.pc = "initialize" /\ Placed(c)
    BY <1>1, CalledSound, CalledPlaced
  <1>3. PICK me \in IF initialized THEN Entered(c) ELSE {c} : proc' = [proc EXCEPT ![p] = me]
    BY DEF Call
  <1> HIDE DEF c
  <1>4. Placed(me) /\ me.pc \in {"initialize", "waiting", "next", "idle"} /\ Outside(me)
        /\ (me.pc # "idle" => (me.pc = "initialize" <=> ~initialized))
    <2>1. CASE initialized
      BY <1>2, <1>3, <2>1, EnteredPlaced DEF Outside, Section, Undoing
    <2>2. CASE ~initialized
      BY <1>2, <1>3, <2>2 DEF Outside, Section, Undoing
    <2> QED BY <2>1, <2>2, MeHeals
  <1>5. Moves(p, me) BY <1>3, MeHeals DEF Moves
  <1>6. proc[p].pc = "idle" /\ damage' = damage /\ initialized' = initialized
        /\ crashes' = crashes /\ disturbed' = disturbed /\ UNCHANGED <<inventory, pointer, packages>>
    BY DEF Call, disk
  <1>7. \A q \in Procs : Placed(proc'[q]) /\ Begun(proc[q])'
    BY <1>4, <1>5, <1>6, MeHeals, PlacedStep DEF Section, Undoing
  <1>8. ~initialized => \A q \in Procs : ~Active(proc[q])
    BY DEF HealInv, Begun, Active
  <1>9. Outside(proc[p]) /\ \A y, w : ~Trashed(proc[p], y, w)
    BY <1>6 DEF Outside, Trashed, Section, Undoing
  <1>10. damage' = {} => Protected'
    BY <1>4, <1>5, <1>6, <1>8, <1>9, OutsideStep DEF HealInv
  <1> QED BY <1>7, <1>10, Assemble

LEMMA InitializeHeals ==
  ASSUME StoreInv, HealInv, NEW p \in Procs, Initialize(p)
  PROVE  HealInv'
  <1>1. PICK me \in Entered(proc[p]) \cup {NoOp} : proc' = [proc EXCEPT ![p] = me]
    BY DEF Initialize, Return
  <1>2. proc[p].pc = "initialize" /\ initialized' = TRUE /\ inventory' = NoPlugins /\ damage' = damage
        /\ disturbed' = disturbed /\ crashes' = crashes /\ UNCHANGED <<pointer, packages>>
    BY DEF Initialize, bounds
  <1>3. Placed(me) /\ me.pc \in {"waiting", "next", "idle"}
    BY <1>1, <1>2, MeHeals, EnteredPlaced, NoOpPlaced
  <1>4. Outside(me) /\ ~Active(me) /\ me.pc \notin Section /\ ~PointerUndone(me)
    BY <1>3 DEF Outside, Active, Section, Undoing, PointerUndone
  <1>5. Moves(p, me) BY <1>1, MeHeals DEF Moves
  <1>6. \A q \in Procs : Placed(proc'[q]) /\ Begun(proc[q])'
    BY <1>2, <1>3, <1>5, MeHeals, PlacedStep
  <1>7. ASSUME damage = {} PROVE Protected'
    <2>1. Protected BY <1>7 DEF HealInv
    <2>2. \A q \in Procs \ {p} : ~Active(proc[q]) BY <1>2, <2>1 DEF Protected, Alone
    <2>3. Alone' BY <1>3, <1>4, <1>5, <2>1, AloneStep DEF Protected
    <2>4. \A q \in Procs \ {p} : PointerUndone(proc[q]) => proc[q].plugin \in disturbed'
      BY <1>2, <2>1 DEF Protected, Marked
    <2>5. Marked' BY <1>4, <1>5, <2>1, <2>4, MarkedStep DEF Protected
    <2>6. ~Keeping(me) /\ ~Replacing(me) BY <1>4, OutsideFacts
    <2>7. \A q \in Procs : Knows(proc[q])' BY <1>4, <1>5, <2>2, <2>6, KnowsAlone
    <2>8. \A x \in Plugins : inventory'.versions[x] = {} BY <1>2 DEF NoPlugins
    <2>9. \A x \in Plugins : Healthy(x)' BY <2>8 DEF Healthy
    <2> QED BY <2>3, <2>5, <2>7, <2>9 DEF Protected
  <1> QED BY <1>2, <1>6, <1>7, Assemble

LEMMA NextVersionHeals ==
  ASSUME StoreInv, HealInv, NEW p \in Procs, NextVersion(p)
  PROVE  HealInv'
  <1>1. \E me : Placed(me) /\ me.pc \in {"waiting", "idle"} /\ proc' = [proc EXCEPT ![p] = me]
    <2>1. CASE Return(p) BY <2>1, NoOpPlaced DEF Return
    <2>2. ASSUME NEW v, NEW r, NEW rest,
                 proc' = [proc EXCEPT ![p] = [Called("removeAll", proc[p].plugin, v, r) EXCEPT
                            !.pc = "waiting", !.status = "created", !.todo = rest]]
          PROVE  \E me : Placed(me) /\ me.pc \in {"waiting", "idle"} /\ proc' = [proc EXCEPT ![p] = me]
      <3> DEFINE me == [Called("removeAll", proc[p].plugin, v, r) EXCEPT
                            !.pc = "waiting", !.status = "created", !.todo = rest]
      <3>1. Placed(me) /\ me.pc = "waiting" BY DEF Called, Placed, Section, Undoing, Accepted
      <3> QED BY <2>2, <3>1
    <2> DEFINE x == proc[p].plugin  todo == proc[p].todo  current == inventory.versions[x]
    <2>3. Return(p) \/
            \E v \in Greatest(todo) :
            \E r \in IF inventory.active[x] = v /\ current # {v} THEN Greatest(current \ {v}) ELSE {None} :
               proc' = [proc EXCEPT ![p] = [Called("removeAll", x, v, r) EXCEPT
                           !.pc = "waiting", !.status = "created", !.todo = todo \ {v}]]
      BY DEF NextVersion
    <2> QED BY <2>1, <2>2, <2>3
  <1>2. PICK me : Placed(me) /\ me.pc \in {"waiting", "idle"} /\ proc' = [proc EXCEPT ![p] = me]
    BY <1>1
  <1>3. proc[p].pc = "next" /\ UNCHANGED <<initialized, inventory, pointer, packages, damage, disturbed, crashes>>
    BY DEF NextVersion, disk, bounds
  <1>4. Outside(me) /\ Outside(proc[p]) /\ \A y, w : ~Trashed(proc[p], y, w)
    BY <1>2, <1>3 DEF Outside, Trashed, Section, Undoing
  <1>5. Moves(p, me) BY <1>2, MeHeals DEF Moves
  <1>6. initialized BY <1>3, MeHeals DEF Begun
  <1>7. \A q \in Procs : Placed(proc'[q]) /\ Begun(proc[q])'
    BY <1>2, <1>3, <1>5, <1>6, MeHeals, PlacedStep
  <1>8. damage' = {} => Protected'
    BY <1>2, <1>3, <1>4, <1>5, OutsideStep DEF HealInv
  <1> QED BY <1>7, <1>8, Assemble

LEMMA ReleaseHeals ==
  ASSUME StoreInv, HealInv, NEW p \in Procs, Release(p)
  PROVE  HealInv'
  <1>1. PICK me \in {[proc[p] EXCEPT !.pc = "next"], NoOp} : proc' = [proc EXCEPT ![p] = me]
    BY DEF Release, Step, Return
  <1>2. proc[p].pc = "release" /\ UNCHANGED <<initialized, inventory, pointer, packages, damage, disturbed, crashes>>
    BY DEF Release, disk, bounds
  <1>3. Placed(me) /\ me.pc \in {"next", "idle"}
    <2>1. CASE me = [proc[p] EXCEPT !.pc = "next"]
      BY <2>1, MeHeals DEF Proc, Placed, Section, Undoing, Accepted
    <2> QED BY <1>1, <2>1, NoOpPlaced
  <1>4. Outside(me) /\ \A y, w : ~Trashed(proc[p], y, w)
    BY <1>2, <1>3 DEF Outside, Trashed, Section, Undoing
  <1>5. Moves(p, me) BY <1>1, MeHeals DEF Moves
  <1>6. initialized BY <1>2, MeHeals DEF Begun, Section
  <1>7. \A q \in Procs : Placed(proc'[q]) /\ Begun(proc[q])'
    BY <1>2, <1>3, <1>5, <1>6, MeHeals, PlacedStep
  <1>8. ASSUME damage = {} PROVE pointer[proc[p].plugin] = inventory.active[proc[p].plugin]
    <2>1. Knows(proc[p]) BY <1>8 DEF HealInv, Protected
    <2>2. Placed(proc[p]) BY MeHeals
    <2> QED BY <1>2, <2>1, <2>2 DEF Knows, Replacing, Placed, Section, Accepted
  <1>9. damage' = {} => Protected'
    BY <1>2, <1>3, <1>4, <1>5, <1>8, OutsideStep DEF HealInv
  <1> QED BY <1>7, <1>9, Assemble

LEMMA FailHeals ==
  ASSUME StoreInv, HealInv, NEW p \in Procs, Fail(p)
  PROVE  HealInv'
  <1>1. Moves(p, NoOp) /\ proc[p].pc = "failed"
        /\ UNCHANGED <<initialized, inventory, pointer, packages, damage, disturbed, crashes>>
    BY MeHeals DEF Fail, Return, Moves, disk, bounds
  <1>2. \A q \in Procs : Placed(proc'[q]) /\ Begun(proc[q])'
    BY <1>1, MeHeals, NoOpPlaced, PlacedStep DEF Section, Undoing
  <1>3. \A y, w : ~Trashed(proc[p], y, w)
    BY <1>1, MeHeals DEF Placed, Trashed
  <1>4. damage = {} => proc[p].plugin \in disturbed
    BY <1>1 DEF HealInv, Protected, Marked, PointerUndone
  <1>5. damage' = {} => Protected'
    BY <1>1, <1>3, <1>4, NoOpPlaced, OutsideStep DEF HealInv
  <1> QED BY <1>2, <1>5, Assemble

LEMMA CrashHeals ==
  ASSUME StoreInv, HealInv, NEW p \in Procs, Crash(p)
  PROVE  HealInv'
  <1> DEFINE me == [proc[p] EXCEPT !.pc = "dead"]
  <1>1. Moves(p, me) /\ crashes' = crashes + 1 /\ disturbed' = disturbed \cup {proc[p].plugin}
        /\ UNCHANGED <<initialized, inventory, pointer, packages, damage>>
    BY MeHeals DEF Crash, Step, Moves, disk
  <1>2. Placed(me) /\ me.pc = "dead" /\ Outside(me)
    BY MeHeals DEF Proc, Placed, Outside, Section, Undoing, Accepted
  <1>3. \A y, w : Trashed(proc[p], y, w) => Trashed(me, y, w)
    BY MeHeals DEF Proc, Trashed, IsRemove
  <1> HIDE DEF me
  <1>4. \A q \in Procs : Placed(proc'[q]) /\ Begun(proc[q])'
    BY <1>1, <1>2, MeHeals, PlacedStep DEF Section, Undoing
  <1>5. damage' = {} => Protected'
    BY <1>1, <1>2, <1>3, OutsideStep DEF HealInv
  <1> QED BY <1>4, <1>5, Assemble

-----------------------------------------------------------------------------
(* Inside the section.                                                     *)

\* Whoever is in the section is alone with the store.
LEMMA HolderAlone ==
  ASSUME StoreInv, Protected, NEW p \in Procs, Active(proc[p])
  PROVE  /\ \A q \in Procs \ {p} : ~Active(proc[q]) /\ proc[q].pc \notin Section
         /\ \A q \in Procs \ {p} : Knows(proc[q]) /\ ~Keeping(proc[q]) /\ ~Replacing(proc[q])
  <1>1. \A q \in Procs \ {p} : ~Active(proc[q]) BY DEF Protected, Alone
  <1> QED BY <1>1, OutsideFacts

LEMMA AcquireHeals ==
  ASSUME StoreInv, HealInv, NEW p \in Procs, Acquire(p)
  PROVE  HealInv'
  <1> DEFINE me == [proc[p] EXCEPT !.pc = "locked"]
  <1>1. /\ Moves(p, me) /\ proc[p].pc = "waiting" /\ lock = Free
        /\ UNCHANGED <<initialized, inventory, pointer, packages, disturbed, crashes>>
        /\ damage' = IF \E q \in Procs \ {p} : proc[q].pc \in Undoing \cup {"initialize"}
                     THEN damage \cup {"overlap"} ELSE damage
    BY MeHeals DEF Acquire, Step, Moves, disk, bounds
  <1>2. Placed(me) /\ me.pc = "locked" /\ me.plugin = proc[p].plugin /\ ~me.loaded /\ ~me.pointed /\ ~me.moved
    BY <1>1, MeHeals DEF Proc, Placed, Section, Undoing, Accepted, IsRemove
  <1> HIDE DEF me
  <1>3. initialized BY <1>1, MeHeals DEF Begun
  <1>4. \A q \in Procs : Placed(proc'[q]) /\ Begun(proc[q])'
    BY <1>1, <1>2, <1>3, MeHeals, PlacedStep
  <1>5. ASSUME damage' = {} PROVE Protected'
    <2>1. damage = {} /\ \A q \in Procs \ {p} : proc[q].pc \notin Undoing \cup {"initialize"}
      BY <1>1, <1>5
    <2>2. Protected BY <2>1 DEF HealInv
    <2>3. \A q \in Procs : proc[q].pc \notin Section
      BY <1>1, StoreAssumption DEF StoreInv, OneHolder
    <2>4. \A q \in Procs \ {p} : ~Active(proc[q]) /\ proc[q].pc # "initialize" /\ ~PointerUndone(proc[q])
      BY <2>1, <2>3 DEF Active, PointerUndone, Undoing
    <2>5. Alone' BY <1>1, <1>2, <2>2, <2>4, AloneStep DEF Protected
    <2>6. ~PointerUndone(me) BY <1>2 DEF PointerUndone
    <2>7. Marked' BY <1>1, <2>2, <2>4, <2>6, MarkedStep DEF Protected
    <2>8. Knows(me) BY <1>2 DEF Knows, Keeping, Replacing
    <2>9. \A q \in Procs : Knows(proc[q])' BY <1>1, <2>2, <2>8, KnowsStep DEF Protected
    <2>10. Outside(proc[p]) /\ \A y, w : ~Trashed(proc[p], y, w)
      BY <1>1 DEF Outside, Trashed, Section, Undoing
    <2>11. \A x \in Plugins : Healthy(x)' BY <1>1, <2>2, <2>10, HealthyStep DEF Protected
    <2> QED BY <2>5, <2>7, <2>9, <2>11 DEF Protected
  <1> QED BY <1>4, <1>5, Assemble

LEMMA RefusedHeals ==
  ASSUME StoreInv, HealInv, NEW p \in Procs, Refused(p)
  PROVE  HealInv'
  <1> DEFINE me == [proc[p] EXCEPT !.pc = "undoInventory"]
  <1>1. /\ Moves(p, me) /\ proc[p].pc = "waiting"
        /\ UNCHANGED <<initialized, inventory, pointer, packages, disturbed, crashes, damage>>
    BY MeHeals DEF Refused, Step, Moves, disk, bounds
  <1>2. /\ Placed(me) /\ me.pc = "undoInventory" /\ me.plugin = proc[p].plugin
        /\ ~me.loaded /\ ~me.moved
    BY <1>1, MeHeals DEF Proc, Placed, Section, Undoing, Accepted, IsRemove
  <1> HIDE DEF me
  <1>3. initialized BY <1>1, MeHeals DEF Begun
  <1>4. \A q \in Procs : Placed(proc'[q]) /\ Begun(proc[q])'
    BY <1>1, <1>2, <1>3, MeHeals, PlacedStep
  <1>5. ASSUME damage' = {} PROVE Protected'
    <2>1. Protected BY <1>1, <1>5 DEF HealInv
    <2>2. ~Active(me) /\ me.pc \notin Section /\ ~PointerUndone(me)
      BY <1>2 DEF Active, Section, PointerUndone
    <2>3. Alone' BY <1>1, <1>2, <2>1, <2>2, AloneStep DEF Protected
    <2>4. \A q \in Procs \ {p} : PointerUndone(proc[q]) => proc[q].plugin \in disturbed'
      BY <1>1, <2>1 DEF Protected, Marked
    <2>5. Marked' BY <1>1, <2>1, <2>2, <2>4, MarkedStep DEF Protected
    <2>6. \A q \in Procs : Knows(proc[q])' BY <1>1, <2>1, <2>2, OutsideFacts, KnowsStep DEF Protected
    <2>7. Outside(proc[p]) /\ \A y, w : ~Trashed(proc[p], y, w)
      BY <1>1 DEF Outside, Trashed, Section, Undoing
    <2>8. \A x \in Plugins : Healthy(x)' BY <1>1, <2>1, <2>7, HealthyStep DEF Protected
    <2> QED BY <2>3, <2>5, <2>6, <2>8 DEF Protected
  <1> QED BY <1>4, <1>5, Assemble

\* A step inside the section, or out of it into the handler, that writes nothing.
LEMMA InsideStep ==
  ASSUME StoreInv, Protected, NEW p \in Procs, NEW me, Moves(p, me),
         proc[p].pc \in Section, me.pc \in Section \cup {"undoInventory"},
         me.plugin = proc[p].plugin,
         UNCHANGED <<inventory, pointer, packages>>,
         \A x \in Plugins : x \notin disturbed' => x \notin disturbed \/ x = me.plugin,
         \A x \in Plugins : \A v \in inventory.versions[x] : Trashed(proc[p], x, v) =>
            Trashed(me, x, v) \/ <<x, v>> \in packages,
         Knows(me)
  PROVE  Protected'
  <1>1. ~Outside(me) /\ ~PointerUndone(me) /\ me.pc # "initialize" /\ Active(proc[p])
    BY DEF Outside, Section, Undoing, PointerUndone, Active
  <1>2. Alone' BY <1>1, AloneStep DEF Protected
  <1>3. \A q \in Procs \ {p} : ~PointerUndone(proc[q])
    BY DEF Protected, Marked
  <1>4. Marked' BY <1>1, <1>3, MarkedStep DEF Protected
  <1>5. \A q \in Procs : Knows(proc[q])' BY KnowsStep DEF Protected
  <1>6. \A x \in Plugins : Healthy(x)' BY <1>1, HealthyStep DEF Protected
  <1> QED BY <1>2, <1>4, <1>5, <1>6 DEF Protected

\* An exception leaves the section with what the operation knew.
LEMMA LeaveHeals ==
  ASSUME StoreInv, HealInv, NEW p \in Procs, proc[p].pc \in Section, NEW local \in Proc,
         proc' = [proc EXCEPT ![p] = [local EXCEPT !.pc = "undoInventory"]],
         UNCHANGED <<initialized, inventory, pointer, packages, disturbed, crashes, damage>>,
         local.plugin = proc[p].plugin, local.op = proc[p].op, local.version = proc[p].version,
         proc[p].moved => local.moved,
         local.moved => local.loaded,
         IsRemove(local) /\ local.saved => local.moved,
         local.op = "install" /\ local.moved => local.version \notin local.orig.versions[local.plugin],
         damage = {} /\ local.loaded => inventory = IF local.saved THEN Changed(local) ELSE local.orig
  PROVE  HealInv'
  <1> DEFINE me == [local EXCEPT !.pc = "undoInventory"]
  <1>1. Moves(p, me) BY MeHeals DEF Moves
  <1>2. /\ me.pc = "undoInventory" /\ me.plugin = local.plugin /\ me.op = local.op /\ me.orig = local.orig
        /\ me.version = local.version /\ me.replacement = local.replacement /\ me.moved = local.moved
        /\ me.saved = local.saved /\ me.loaded = local.loaded
    BY DEF Proc
  <1> HIDE DEF me
  <1>3. Placed(me) BY <1>2 DEF Placed, Section, Undoing, Accepted, IsRemove
  <1>4. initialized BY MeHeals DEF Begun
  <1>5. \A q \in Procs : Placed(proc'[q]) /\ Begun(proc[q])'
    BY <1>1, <1>2, <1>3, <1>4, MeHeals, PlacedStep
  <1>6. ASSUME damage' = {} PROVE Protected'
    <2>1. Protected BY <1>6 DEF HealInv
    <2>2. Changed(me) = Changed(local) BY <1>2 DEF Changed
    <2>3. Knows(me)
      BY <1>2, <1>6, <2>2 DEF Knows, Keeping, Replacing, Section
    <2>4. \A y, w : Trashed(proc[p], y, w) => Trashed(me, y, w)
      BY <1>2 DEF Trashed, IsRemove, Undoing
    <2> QED BY <1>1, <1>2, <2>1, <2>3, <2>4, InsideStep
  <1> QED BY <1>5, <1>6, Assemble

\* A step of the holder, or of its handler, that may write.
LEMMA WriteStep ==
  ASSUME Protected, NEW p \in Procs, NEW me, Moves(p, me),
         ~Outside(proc[p]), ~Outside(me), me.plugin = proc[p].plugin,
         Active(me) => Active(proc[p]),
         me.pc \in Section => proc[p].pc \in Section,
         disturbed \subseteq disturbed',
         PointerUndone(me) => me.plugin \in disturbed' /\ \A q \in Procs \ {p} : proc[q].pc \notin Section,
         \A q \in Procs : Knows(proc[q])',
         \A x \in Plugins \ {me.plugin} :
            /\ inventory'.versions[x] = inventory.versions[x] /\ inventory'.active[x] = inventory.active[x]
            /\ pointer'[x] = pointer[x],
         \A x \in Plugins : \A v \in inventory'.versions[x] :
            \/ <<x, v>> \in packages' \/ Trashed(me, x, v)
            \/ v \in inventory.versions[x] /\ <<x, v>> \notin packages /\ ~Trashed(proc[p], x, v)
  PROVE  Protected'
  <1>0. proc'[p] = me /\ \A q \in Procs : q # p => proc'[q] = proc[q]
    BY MovesFacts
  <1>1. me.pc # "initialize" BY DEF Outside, Section, Undoing
  <1>2. Alone' BY <1>1, AloneStep DEF Protected
  <1>3. \A q \in Procs \ {p} : PointerUndone(proc[q]) => proc[q].plugin \in disturbed'
    BY DEF Protected, Marked
  <1>4. Marked' BY <1>3, MarkedStep DEF Protected
  <1>5. ASSUME NEW x \in Plugins PROVE Healthy(x)'
    <2>1. ASSUME NEW v \in inventory'.versions[x]
          PROVE  <<x, v>> \in packages' \/ \E q \in Procs : Trashed(proc'[q], x, v)
      <3>1. CASE <<x, v>> \in packages' \/ Trashed(me, x, v) BY <1>0, <3>1
      <3>2. CASE v \in inventory.versions[x] /\ <<x, v>> \notin packages /\ ~Trashed(proc[p], x, v)
        <4>1. Healthy(x) BY DEF Protected
        <4>2. \E q \in Procs : Trashed(proc[q], x, v) BY <3>2, <4>1 DEF Healthy
        <4> QED BY <1>0, <3>2, <4>2
      <3> QED BY <3>1, <3>2
    <2>2. ASSUME x \notin disturbed', ~Busy(x)', inventory'.versions[x] # {}
          PROVE  pointer'[x] = inventory'.active[x]
      <3>1. \A q \in Procs : Outside(proc'[q]) \/ proc'[q].plugin # x
        BY <2>2 DEF Busy, Outside
      <3>2. x # me.plugin BY <1>0, <3>1
      <3>3. ~Busy(x) BY <1>0, <3>1, <3>2 DEF Busy, Outside
      <3>4. Healthy(x) BY DEF Protected
      <3> QED BY <2>2, <3>2, <3>3, <3>4 DEF Healthy
    <2>3. (\A v \in inventory.versions[x] :
             <<x, v>> \in packages \/ \E q \in Procs : Trashed(proc[q], x, v))'
      BY <2>1 DEF Trashed, IsRemove
    <2> QED BY <2>2, <2>3 DEF Healthy
  <1> QED BY <1>2, <1>4, <1>5 DEF Protected

\* What an operation makes of the inventory concerns its plugin only.
LEMMA ChangedFacts ==
  ASSUME NEW me \in Proc
  PROVE  /\ \A y \in Plugins \ {me.plugin} : /\ Changed(me).versions[y] = me.orig.versions[y]
                                             /\ Changed(me).active[y] = me.orig.active[y]
         /\ me.op = "install" => Changed(me).versions[me.plugin] = me.orig.versions[me.plugin] \cup {me.version}
         /\ me.op = "rollback" => Changed(me).versions[me.plugin] = me.orig.versions[me.plugin]
         /\ me.op \notin {"install", "rollback"} =>
              Changed(me).versions[me.plugin] = me.orig.versions[me.plugin] \ {me.version}
         /\ IsRemove(me) <=> me.op \notin {"install", "rollback"}
  <1> DEFINE x == me.plugin  inv == me.orig  v == me.version
  <1>1. /\ inv \in Inventory /\ x \in Plugins /\ me.op \in Ops
        /\ inv.versions \in [Plugins -> SUBSET Versions] /\ inv.active \in [Plugins -> Versions \cup {None}]
    BY DEF Proc, Inventory
  <1>2. IsRemove(me) <=> me.op \notin {"install", "rollback"}
    BY <1>1 DEF Ops, IsRemove
  <1>3. CASE me.op = "install"
    <2>1. Changed(me) = [inv EXCEPT !.versions[x] = @ \cup {v}, !.active[x] = v] BY <1>3 DEF Changed
    <2>2. Changed(me).versions = [inv.versions EXCEPT ![x] = @ \cup {v}]
          /\ Changed(me).active = [inv.active EXCEPT ![x] = v]
      BY <1>1, <2>1 DEF Inventory
    <2> QED BY <1>1, <1>2, <1>3, <2>2
  <1>4. CASE me.op = "rollback"
    <2>1. Changed(me) = [inv EXCEPT !.active[x] = v] BY <1>4 DEF Changed
    <2>2. Changed(me).versions = inv.versions /\ Changed(me).active = [inv.active EXCEPT ![x] = v]
      BY <1>1, <2>1 DEF Inventory
    <2> QED BY <1>1, <1>2, <1>4, <2>2
  <1>5. CASE me.op \notin {"install", "rollback"}
    <2>1. Changed(me) = [inv EXCEPT !.versions[x] = @ \ {v}, !.active[x] = IF @ = v THEN me.replacement ELSE @]
      BY <1>5 DEF Changed
    <2>2. /\ Changed(me).versions = [inv.versions EXCEPT ![x] = @ \ {v}]
          /\ Changed(me).active = [inv.active EXCEPT ![x] = IF @ = v THEN me.replacement ELSE @]
      BY <1>1, <2>1 DEF Inventory
    <2> QED BY <1>1, <1>2, <1>5, <2>2
  <1> QED BY <1>3, <1>4, <1>5

LEMMA LoadHeals ==
  ASSUME StoreInv, HealInv, NEW p \in Procs, Load(p)
  PROVE  HealInv'
  <1> DEFINE old == proc[p]
             read == [old EXCEPT !.loaded = TRUE, !.orig = inventory]
             known == [read EXCEPT !.prev = IF old.op = "install" THEN None ELSE pointer[old.plugin],
                                   !.status = IF old.op = "rollback" THEN "validated" ELSE @]
             next == [known EXCEPT !.pc = FirstWrite(old.op)]
  <1>1. /\ old \in Proc /\ old.pc = "locked" /\ ~old.loaded /\ ~old.moved /\ ~old.saved /\ ~old.pointed
        /\ initialized
        /\ UNCHANGED <<initialized, inventory, pointer, packages, disturbed, crashes, damage>>
    BY MeHeals DEF Load, disk, bounds, Placed, Begun, Section
  <1>2. inventory \in Inventory /\ pointer \in [Plugins -> Versions \cup {None}]
    BY StoreParts DEF StoreTyped
  <1>3. /\ read \in Proc /\ read.loaded /\ read.orig = inventory /\ ~read.moved /\ ~read.saved /\ ~read.pointed
        /\ read.plugin = old.plugin /\ read.op = old.op /\ read.version = old.version
    BY <1>1, <1>2 DEF Proc
  <1>4. /\ known \in Proc /\ known.loaded /\ known.orig = inventory /\ ~known.moved /\ ~known.saved /\ ~known.pointed
        /\ known.plugin = old.plugin /\ known.op = old.op /\ known.version = old.version
    BY <1>1, <1>2 DEF Proc, Statuses
  <1>5. CASE Leave(p, read)
    <2>1. proc' = [proc EXCEPT ![p] = [read EXCEPT !.pc = "undoInventory"]] BY <1>5 DEF Leave
    <2> HIDE DEF read
    <2> QED BY <1>1, <1>3, <2>1, LeaveHeals DEF Section
  <1>6. CASE Leave(p, known)
    <2>1. proc' = [proc EXCEPT ![p] = [known EXCEPT !.pc = "undoInventory"]] BY <1>6 DEF Leave
    <2> HIDE DEF known
    <2> QED BY <1>1, <1>4, <2>1, LeaveHeals DEF Section
  <1>7. CASE proc' = [proc EXCEPT ![p] = next]
    <2>1. old.op \in Ops BY <1>1 DEF Proc
    <2>2. /\ next.pc = FirstWrite(old.op) /\ next.loaded /\ next.orig = inventory /\ ~next.moved /\ ~next.saved
          /\ ~next.pointed /\ next.plugin = old.plugin /\ next.op = old.op
      BY <1>4 DEF Proc
    <2>3. Moves(p, next) BY <1>7, MeHeals DEF Moves
    <2> HIDE DEF next
    <2>4. next.pc \in {"stage", "save", "move"} /\ (next.pc = "stage" => next.op = "install")
          /\ (next.pc = "save" => next.op = "rollback") /\ (next.pc = "move" => IsRemove(next))
      BY <2>1, <2>2 DEF FirstWrite, IsRemove, Ops
    <2>5. Placed(next) BY <2>2, <2>4 DEF Placed, Section, Undoing, Accepted, IsRemove
    <2>6. \A q \in Procs : Placed(proc'[q]) /\ Begun(proc[q])'
      BY <1>1, <2>3, <2>4, <2>5, MeHeals, PlacedStep
    <2>7. Knows(next) BY <2>2, <2>4 DEF Knows, Keeping, Replacing
    <2>8. \A y, w : ~Trashed(old, y, w) BY <1>1 DEF Trashed
    <2>9. next.pc \in Section /\ old.pc \in Section BY <1>1, <2>4 DEF Section
    <2>10. damage' = {} => Protected'
      BY <1>1, <2>2, <2>3, <2>7, <2>8, <2>9, InsideStep DEF HealInv
    <2> QED BY <2>6, <2>10, Assemble
  <1> QED BY <1>5, <1>6, <1>7 DEF Load

LEMMA FaultHeals ==
  ASSUME StoreInv, HealInv, NEW p \in Procs, Fault(p)
  PROVE  HealInv'
  <1> DEFINE old == proc[p]  local == [old EXCEPT !.pointed = @ \/ old.pc = "point"]
  <1>1. /\ old \in Proc /\ old.pc \in Section /\ Placed(old)
        /\ proc' = [proc EXCEPT ![p] = [local EXCEPT !.pc = "undoInventory"]]
        /\ UNCHANGED <<initialized, inventory, pointer, packages, disturbed, crashes, damage>>
    BY MeHeals DEF Fault, Leave, disk
  <1>2. /\ local \in Proc /\ local.plugin = old.plugin /\ local.op = old.op /\ local.version = old.version
        /\ local.moved = old.moved /\ local.saved = old.saved /\ local.loaded = old.loaded
        /\ local.orig = old.orig /\ local.replacement = old.replacement
    BY <1>1 DEF Proc
  <1> HIDE DEF local
  <1>3. Changed(local) = Changed(old) BY <1>2 DEF Changed
  <1>4. damage = {} => Knows(old) BY DEF HealInv, Protected
  <1>5. damage = {} /\ local.loaded => inventory = IF local.saved THEN Changed(local) ELSE local.orig
    BY <1>1, <1>2, <1>3, <1>4 DEF Knows, Keeping, Replacing
  <1>6. /\ local.moved => local.loaded
        /\ IsRemove(local) /\ local.saved => local.moved
        /\ local.op = "install" /\ local.moved => local.version \notin local.orig.versions[local.plugin]
    BY <1>1, <1>2 DEF Placed, IsRemove
  <1> QED BY <1>1, <1>2, <1>5, <1>6, LeaveHeals

LEMMA StageHeals ==
  ASSUME StoreInv, HealInv, NEW p \in Procs, Stage(p)
  PROVE  HealInv'
  <1> DEFINE old == proc[p]
             staged == [old EXCEPT !.moved = TRUE, !.status = "staged"]
             me == [old EXCEPT !.moved = TRUE, !.status = "staged", !.pc = "save"]
  <1>1. /\ old \in Proc /\ old.pc = "stage" /\ Placed(old) /\ old.loaded /\ ~old.saved /\ ~old.pointed
        /\ old.op = "install" /\ initialized
        /\ UNCHANGED <<initialized, inventory, pointer, disturbed, crashes, damage>>
    BY MeHeals DEF Stage, bounds, Placed, Begun, Section, Accepted
  <1>2. old.version \notin old.orig.versions[old.plugin]
    BY <1>1, MeHeals DEF Sound, Accepted, Section, Rejects
  <1>3. damage = {} => inventory = old.orig
    BY <1>1 DEF HealInv, Protected, Knows, Keeping, Section
  <1>4. CASE Leave(p, staged) /\ UNCHANGED packages
    <2>1. /\ staged \in Proc /\ staged.plugin = old.plugin /\ staged.op = "install" /\ staged.version = old.version
          /\ staged.moved /\ ~staged.saved /\ staged.loaded /\ staged.orig = old.orig
      BY <1>1 DEF Proc, Statuses
    <2>2. proc' = [proc EXCEPT ![p] = [staged EXCEPT !.pc = "undoInventory"]] BY <1>4 DEF Leave
    <2> HIDE DEF staged
    <2>3. ~IsRemove(staged) BY <2>1 DEF IsRemove
    <2> QED BY <1>1, <1>2, <1>3, <1>4, <2>1, <2>2, <2>3, LeaveHeals DEF Section
  <1>5. CASE packages' = packages \cup {Dir(old)} /\ proc' = [proc EXCEPT ![p] = me]
    <2>1. /\ me.pc = "save" /\ me.plugin = old.plugin /\ me.op = "install" /\ me.version = old.version
          /\ me.moved /\ ~me.saved /\ me.loaded /\ me.orig = old.orig /\ ~me.pointed
      BY <1>1 DEF Proc
    <2>2. Moves(p, me) BY <1>5, MeHeals DEF Moves
    <2> HIDE DEF me
    <2>3. Placed(me) BY <1>2, <2>1 DEF Placed, Section, Undoing, Accepted, IsRemove
    <2>4. \A q \in Procs : Placed(proc'[q]) /\ Begun(proc[q])'
      BY <1>1, <2>1, <2>2, <2>3, MeHeals, PlacedStep
    <2>5. ASSUME damage' = {} PROVE Protected'
      <3>1. Protected BY <1>1, <2>5 DEF HealInv
      <3>2. Active(old) /\ ~Outside(old) /\ ~Outside(me) /\ old.pc \in Section /\ ~PointerUndone(me)
        BY <1>1, <2>1 DEF Active, Outside, Section, PointerUndone
      <3>3. \A q \in Procs \ {p} : ~Active(proc[q]) BY <3>1, <3>2, HolderAlone
      <3>4. \A q \in Procs : Knows(proc[q])'
        BY <1>1, <1>3, <1>5, <2>1, <2>2, <2>5, <3>3, KnowsAlone DEF Replacing, Dir
      <3>5. \A y, w : ~Trashed(old, y, w) BY <1>1 DEF Trashed, Undoing
      <3> QED BY <1>1, <1>5, <2>1, <2>2, <3>1, <3>2, <3>4, <3>5, WriteStep
    <2> QED BY <2>4, <2>5, Assemble
  <1> QED BY <1>4, <1>5 DEF Stage, Dir

LEMMA MoveHeals ==
  ASSUME StoreInv, HealInv, NEW p \in Procs, Move(p)
  PROVE  HealInv'
  <1> DEFINE old == proc[p]  me == [old EXCEPT !.moved = TRUE, !.pc = "point"]
  <1>1. /\ old \in Proc /\ old.pc = "move" /\ Placed(old) /\ old.loaded /\ ~old.saved /\ ~old.pointed
        /\ IsRemove(old) /\ initialized
        /\ UNCHANGED <<initialized, inventory, pointer, disturbed, crashes, damage>>
        /\ packages' = packages \ {Dir(old)}
    BY MeHeals DEF Move, bounds, Placed, Begun, Section, Accepted, Dir
  <1>2. /\ me.pc = "point" /\ me.plugin = old.plugin /\ me.op = old.op /\ me.version = old.version
        /\ me.moved /\ ~me.saved /\ me.loaded /\ me.orig = old.orig /\ ~me.pointed
    BY <1>1 DEF Proc
  <1>3. Moves(p, me) BY MeHeals DEF Move, Moves
  <1> HIDE DEF me
  <1>4. IsRemove(me) /\ me.op # "install" BY <1>1, <1>2 DEF IsRemove
  <1>5. Placed(me) BY <1>2, <1>4 DEF Placed, Section, Undoing, Accepted
  <1>6. \A q \in Procs : Placed(proc'[q]) /\ Begun(proc[q])'
    BY <1>1, <1>2, <1>3, <1>5, MeHeals, PlacedStep
  <1>7. ASSUME damage' = {} PROVE Protected'
    <2>1. Protected BY <1>1, <1>7 DEF HealInv
    <2>2. Active(old) /\ ~Outside(old) /\ ~Outside(me) /\ old.pc \in Section /\ ~PointerUndone(me)
      BY <1>1, <1>2 DEF Active, Outside, Section, PointerUndone
    <2>3. \A q \in Procs \ {p} : ~Active(proc[q]) BY <2>1, <2>2, HolderAlone
    <2>4. inventory = old.orig BY <1>1, <2>1 DEF Protected, Knows, Keeping, Section
    <2>5. \A q \in Procs : Knows(proc[q])'
      BY <1>1, <1>2, <1>3, <1>4, <2>3, <2>4, KnowsAlone DEF Replacing
    <2>6. \A y, w : ~Trashed(old, y, w) BY <1>1 DEF Trashed, Undoing
    <2>7. \A y, w : <<y, w>> = Dir(old) => Trashed(me, y, w)
      BY <1>2, <1>4 DEF Trashed, Dir
    <2> QED BY <1>1, <1>2, <1>3, <2>1, <2>2, <2>5, <2>6, <2>7, WriteStep
  <1> QED BY <1>6, <1>7, Assemble

LEMMA SaveHeals ==
  ASSUME StoreInv, HealInv, NEW p \in Procs, Save(p)
  PROVE  HealInv'
  <1> DEFINE old == proc[p]  me == [old EXCEPT !.saved = TRUE, !.pc = IF IsRemove(old) THEN "commit" ELSE "point"]
  <1>1. /\ old \in Proc /\ old.pc = "save" /\ Placed(old) /\ old.loaded /\ ~old.saved /\ initialized
        /\ UNCHANGED <<initialized, pointer, packages, disturbed, crashes, damage>>
        /\ inventory' = Changed(old)
    BY MeHeals DEF Save, bounds, Placed, Begun, Section, Accepted
  <1>2. /\ me.pc = (IF IsRemove(old) THEN "commit" ELSE "point")
        /\ me.plugin = old.plugin /\ me.op = old.op /\ me.version = old.version /\ me.moved = old.moved
        /\ me.saved /\ me.loaded /\ me.orig = old.orig /\ me.pointed = old.pointed
        /\ me.replacement = old.replacement
    BY <1>1 DEF Proc
  <1>3. Moves(p, me) BY MeHeals DEF Save, Moves
  <1> HIDE DEF me
  <1>4. Changed(me) = Changed(old) /\ (IsRemove(me) <=> IsRemove(old))
    BY <1>2 DEF Changed, IsRemove
  <1>5. Knows(old) /\ old.op = "install" => TRUE OBVIOUS
  <1>6. ASSUME damage' = {} PROVE Protected'
    <2>1. Protected /\ Knows(old) BY <1>1, <1>6 DEF HealInv, Protected
    <2>2. Active(old) /\ ~Outside(old) /\ ~Outside(me) /\ old.pc \in Section /\ me.pc \in Section /\ ~PointerUndone(me)
      BY <1>1, <1>2 DEF Active, Outside, Section, PointerUndone
    <2>3. \A q \in Procs \ {p} : ~Active(proc[q]) BY <2>1, <2>2, HolderAlone
    <2>4. inventory = old.orig BY <1>1, <2>1 DEF Knows, Keeping, Section
    <2>5. me.pointed => pointer'[me.plugin] = Changed(me).active[me.plugin]
      BY <1>1, <1>2, <1>4, <2>1, <2>2 DEF Knows
    <2>6. old.op = "install" => Dir(old) \in packages
      BY <1>1, <2>1, <2>2 DEF Knows, Placed
    <2>7. ~Keeping(me) BY <1>2 DEF Keeping
    <2>8. Dir(me) = Dir(old) BY <1>2 DEF Dir
    <2>9. \A q \in Procs : Knows(proc[q])'
      BY <1>1, <1>2, <1>3, <1>4, <2>3, <2>5, <2>6, <2>7, <2>8, KnowsAlone
    <2>10. \A x \in Plugins \ {me.plugin} :
              /\ inventory'.versions[x] = inventory.versions[x] /\ inventory'.active[x] = inventory.active[x]
              /\ pointer'[x] = pointer[x]
      BY <1>1, <1>2, <2>4, ChangedFacts
    <2>11. ASSUME NEW x \in Plugins, NEW v \in inventory'.versions[x]
           PROVE  \/ <<x, v>> \in packages'
                  \/ v \in inventory.versions[x] /\ <<x, v>> \notin packages /\ ~Trashed(old, x, v)
      <3>1. CASE x # old.plugin
        BY <1>1, <1>2, <2>10, <3>1 DEF Trashed
      <3>2. CASE x = old.plugin /\ old.op = "install"
        <4>1. v \in inventory.versions[x] \/ v = old.version
          BY <1>1, <2>4, <3>2, ChangedFacts
        <4>2. ~IsRemove(old) BY <3>2 DEF IsRemove
        <4> QED BY <1>1, <2>6, <3>2, <4>1, <4>2 DEF Trashed, Dir
      <3>3. CASE x = old.plugin /\ old.op = "rollback"
        <4>1. v \in inventory.versions[x] BY <1>1, <2>4, <3>3, ChangedFacts
        <4>2. ~IsRemove(old) BY <3>3 DEF IsRemove
        <4> QED BY <1>1, <4>1, <4>2 DEF Trashed
      <3>4. CASE x = old.plugin /\ old.op \notin {"install", "rollback"}
        <4>1. v \in inventory.versions[x] /\ v # old.version
          BY <1>1, <2>4, <3>4, ChangedFacts
        <4> QED BY <1>1, <4>1 DEF Trashed
      <3> QED BY <3>1, <3>2, <3>3, <3>4
    <2> QED BY <1>1, <1>2, <1>3, <2>1, <2>2, <2>9, <2>10, <2>11, WriteStep
  <1>7. Placed(me)
    BY <1>1, <1>2, <1>4 DEF Placed, Section, Undoing, Accepted, IsRemove
  <1>8. \A q \in Procs : Placed(proc'[q]) /\ Begun(proc[q])'
    BY <1>1, <1>2, <1>3, <1>7, MeHeals, PlacedStep
  <1> QED BY <1>6, <1>8, Assemble

LEMMA PointHeals ==
  ASSUME StoreInv, HealInv, NEW p \in Procs, Point(p)
  PROVE  HealInv'
  <1> DEFINE old == proc[p]  me == [old EXCEPT !.pointed = TRUE, !.pc = IF IsRemove(old) THEN "save" ELSE "commit"]
  <1>1. /\ old \in Proc /\ old.pc = "point" /\ Placed(old) /\ old.loaded /\ initialized
        /\ UNCHANGED <<initialized, inventory, packages, disturbed, crashes, damage>>
        /\ pointer' = [pointer EXCEPT ![old.plugin] = Changed(old).active[old.plugin]]
        /\ old.plugin \in Plugins
    BY MeHeals DEF Point, bounds, Placed, Begun, Section, Accepted
  <1>2. /\ me.pc = (IF IsRemove(old) THEN "save" ELSE "commit")
        /\ me.plugin = old.plugin /\ me.op = old.op /\ me.version = old.version /\ me.moved = old.moved
        /\ me.saved = old.saved /\ me.loaded /\ me.orig = old.orig /\ me.pointed
        /\ me.replacement = old.replacement
    BY <1>1 DEF Proc
  <1>3. Moves(p, me) BY MeHeals DEF Point, Moves
  <1> HIDE DEF me
  <1>4. Changed(me) = Changed(old) /\ (IsRemove(me) <=> IsRemove(old)) /\ Dir(me) = Dir(old)
    BY <1>2 DEF Changed, IsRemove, Dir
  <1>5. pointer \in [Plugins -> Versions \cup {None}] BY StoreParts DEF StoreTyped
  <1>6. pointer'[old.plugin] = Changed(old).active[old.plugin] /\ \A x \in Plugins \ {old.plugin} : pointer'[x] = pointer[x]
    BY <1>1, <1>5
  <1>7. ASSUME damage' = {} PROVE Protected'
    <2>1. Protected /\ Knows(old) BY <1>1, <1>7 DEF HealInv, Protected
    <2>2. Active(old) /\ ~Outside(old) /\ ~Outside(me) /\ old.pc \in Section /\ me.pc \in Section /\ ~PointerUndone(me)
      BY <1>1, <1>2 DEF Active, Outside, Section, PointerUndone
    <2>3. \A q \in Procs \ {p} : ~Active(proc[q]) BY <2>1, <2>2, HolderAlone
    <2>4. (Keeping(me) => inventory' = me.orig) /\ (Replacing(me) => inventory' = Changed(me))
      BY <1>1, <1>2, <1>4, <2>1, <2>2 DEF Knows, Keeping, Replacing
    <2>5. \A q \in Procs : Knows(proc[q])'
      BY <1>1, <1>2, <1>3, <1>4, <1>6, <2>1, <2>2, <2>3, <2>4, KnowsAlone DEF Knows
    <2>6. \A y, w : Trashed(old, y, w) => Trashed(me, y, w)
      BY <1>1, <1>2, <1>4 DEF Trashed
    <2> QED BY <1>1, <1>2, <1>3, <1>6, <2>1, <2>2, <2>5, <2>6, WriteStep
  <1>8. Placed(me)
    BY <1>1, <1>2, <1>4 DEF Placed, Section, Undoing, Accepted, IsRemove
  <1>9. \A q \in Procs : Placed(proc'[q]) /\ Begun(proc[q])'
    BY <1>1, <1>2, <1>3, <1>8, MeHeals, PlacedStep
  <1> QED BY <1>7, <1>9, Assemble

LEMMA CommitHealsStep ==
  ASSUME StoreInv, HealInv, NEW p \in Procs, Commit(p)
  PROVE  HealInv'
  <1> DEFINE old == proc[p]  me == [old EXCEPT !.status = "committed", !.pc = "release"]
  <1>1. /\ old \in Proc /\ old.pc = "commit" /\ Placed(old) /\ old.loaded /\ old.saved /\ old.pointed /\ initialized
        /\ UNCHANGED <<initialized, inventory, pointer, packages, crashes, damage>>
        /\ disturbed' = disturbed \ {old.plugin}
    BY MeHeals DEF Commit, bounds, disk, Placed, Begun, Section, Accepted
  <1>2. /\ me.pc = "release" /\ me.plugin = old.plugin /\ me.op = old.op /\ me.version = old.version
        /\ me.moved = old.moved /\ me.saved /\ me.loaded /\ me.orig = old.orig /\ me.pointed
        /\ me.replacement = old.replacement
    BY <1>1 DEF Proc
  <1>3. Moves(p, me) BY MeHeals DEF Commit, Recorded, Moves
  <1> HIDE DEF me
  <1>4. Changed(me) = Changed(old) /\ (IsRemove(me) <=> IsRemove(old)) /\ Dir(me) = Dir(old)
    BY <1>2 DEF Changed, IsRemove, Dir
  <1>5. ASSUME damage' = {} PROVE Protected'
    <2>1. Protected /\ Knows(old) BY <1>1, <1>5 DEF HealInv, Protected
    <2>2. old.pc \in Section /\ me.pc \in Section BY <1>1, <1>2 DEF Section
    <2>3. Knows(me)
      BY <1>1, <1>2, <1>4, <2>1, <2>2 DEF Knows, Keeping, Replacing
    <2>4. \A y, w : ~Trashed(old, y, w) BY <1>1 DEF Trashed, Undoing
    <2> QED BY <1>1, <1>2, <1>3, <2>1, <2>2, <2>3, <2>4, InsideStep
  <1>6. Placed(me)
    BY <1>1, <1>2, <1>4 DEF Placed, Section, Undoing, Accepted, IsRemove
  <1>7. \A q \in Procs : Placed(proc'[q]) /\ Begun(proc[q])'
    BY <1>1, <1>2, <1>3, <1>6, MeHeals, PlacedStep
  <1> QED BY <1>5, <1>7, Assemble

-----------------------------------------------------------------------------
(* The handlers.                                                           *)

\* The handler of an operation that loaded nothing leaves everyone's knowledge alone.
LEMMA HandlerKnows ==
  ASSUME Protected, NEW p \in Procs, NEW me, Moves(p, me), ~Active(me),
         \A q \in Procs \ {p} : proc[q].pc \notin Section, UNCHANGED inventory
  PROVE  \A q \in Procs : Knows(proc[q])'
  <1>1. proc'[p] = me /\ \A q \in Procs : q # p => proc'[q] = proc[q]
    BY MovesFacts
  <1>2. ASSUME NEW q \in Procs PROVE Knows(proc[q])'
    <2>1. Keeping(proc[q])' <=> Keeping(proc'[q]) BY DEF Keeping
    <2>2. Replacing(proc[q])' <=> Replacing(proc'[q]) BY DEF Replacing
    <2>3. Changed(proc[q])' = Changed(proc'[q]) BY DEF Changed
    <2>4. CASE q = p BY <1>1, <2>1, <2>2, <2>3, <2>4, OutsideFacts DEF Knows
    <2>5. CASE q # p
      <3>1. proc'[q] = proc[q] /\ Knows(proc[q]) /\ proc[q].pc \notin Section
        BY <1>1, <2>5 DEF Protected
      <3> QED BY <2>1, <2>2, <2>3, <3>1 DEF Knows
    <2> QED BY <2>4, <2>5
  <1> QED BY <1>2

LEMMA UndoInventoryHeals ==
  ASSUME StoreInv, HealInv, NEW p \in Procs, UndoInventory(p)
  PROVE  HealInv'
  <1> DEFINE old == proc[p]  me == [old EXCEPT !.pc = IF old.op = "install" THEN "undoPointer" ELSE "undoFiles"]
             restores == old.loaded /\ (old.op = "install" => old.saved)
  <1>1. /\ old \in Proc /\ old.pc = "undoInventory" /\ Placed(old) /\ initialized
        /\ UNCHANGED <<initialized, pointer, packages, crashes, disturbed>>
        /\ \/ inventory' = (IF restores THEN old.orig ELSE inventory) /\ damage' = damage
           \/ damage' = damage \cup {"unrestored"}
    BY MeHeals DEF UndoInventory, Placed, Begun, Undoing
  <1>2. /\ me.pc = (IF old.op = "install" THEN "undoPointer" ELSE "undoFiles")
        /\ me.plugin = old.plugin /\ me.op = old.op /\ me.version = old.version /\ me.moved = old.moved
        /\ me.saved = old.saved /\ me.loaded = old.loaded /\ me.orig = old.orig /\ me.pointed = old.pointed
        /\ me.replacement = old.replacement
    BY <1>1 DEF Proc
  <1>3. Moves(p, me) BY MeHeals DEF UndoInventory, Step, Moves
  <1> HIDE DEF me
  <1>4. (IsRemove(me) <=> IsRemove(old)) /\ (IsRemove(me) => me.op # "install")
    BY <1>2 DEF IsRemove
  <1>5. ASSUME damage' = {} PROVE Protected'
    <2>1. damage = {} /\ inventory' = (IF restores THEN old.orig ELSE inventory) BY <1>1, <1>5
    <2>2. Protected /\ Knows(old) BY <2>1 DEF HealInv, Protected
    <2>3. ~Outside(old) /\ ~Outside(me) /\ me.pc \notin Section /\ ~PointerUndone(me) /\ (Active(me) <=> Active(old))
          /\ (Active(old) <=> old.loaded)
      BY <1>1, <1>2 DEF Active, Outside, Section, Undoing, PointerUndone
    <2>4. \A y, w : Trashed(old, y, w) => Trashed(me, y, w)
      BY <1>1, <1>2, <1>4 DEF Trashed, Undoing
    <2>5. CASE ~old.loaded
      <3>1. inventory' = inventory BY <2>1, <2>5
      <3>2. Knows(me) BY <2>3, <2>5, OutsideFacts
      <3>3. \A q \in Procs : Knows(proc[q])' BY <1>1, <1>3, <2>2, <3>1, <3>2, KnowsStep DEF Protected
      <3> QED BY <1>1, <1>2, <1>3, <2>2, <2>3, <2>4, <3>1, <3>3, WriteStep
    <2>6. CASE old.loaded
      <3>1. \A q \in Procs \ {p} : ~Active(proc[q]) BY <2>2, <2>3, <2>6, HolderAlone
      <3>2. inventory' = old.orig
        BY <1>1, <2>1, <2>2, <2>6 DEF Knows, Keeping
      <3>3. ~Replacing(me) BY <1>2 DEF Replacing, Section
      <3>4. \A q \in Procs : Knows(proc[q])'
        BY <1>2, <1>3, <2>3, <3>1, <3>2, <3>3, KnowsAlone
      <3>5. inventory = old.orig \/ (old.saved /\ inventory = Changed(old))
        BY <1>1, <2>2, <2>6 DEF Knows, Keeping, Replacing
      <3>6. \A x \in Plugins \ {me.plugin} :
              /\ inventory'.versions[x] = inventory.versions[x] /\ inventory'.active[x] = inventory.active[x]
              /\ pointer'[x] = pointer[x]
        <4>1. CASE inventory = old.orig BY <1>1, <3>2, <4>1
        <4>2. CASE inventory = Changed(old)
          <5>1. \A x \in Plugins \ {old.plugin} : /\ Changed(old).versions[x] = old.orig.versions[x]
                                                  /\ Changed(old).active[x] = old.orig.active[x]
            BY <1>1, ChangedFacts
          <5> QED BY <1>1, <1>2, <3>2, <4>2, <5>1
        <4> QED BY <3>5, <4>1, <4>2
      <3>7. ASSUME NEW x \in Plugins, NEW v \in inventory'.versions[x]
            PROVE  v \in inventory.versions[x] \/ Trashed(me, x, v)
        <4>1. CASE x # me.plugin \/ inventory = old.orig BY <3>2, <3>6, <4>1
        <4>2. CASE x = me.plugin /\ old.saved /\ inventory = Changed(old)
          <5>1. v \in old.orig.versions[old.plugin] BY <1>2, <3>2, <4>2
          <5>2. CASE IsRemove(old)
            <6>1. old.moved BY <1>1, <4>2, <5>2 DEF Placed
            <6>2. v = old.version => Trashed(me, x, v)
              BY <1>2, <1>4, <4>2, <5>2, <6>1 DEF Trashed, Undoing
            <6>3. v # old.version => v \in inventory.versions[x]
              BY <1>1, <1>2, <4>2, <5>1, ChangedFacts
            <6> QED BY <6>2, <6>3
          <5>3. CASE ~IsRemove(old)
            BY <1>1, <1>2, <4>2, <5>1, <5>3, ChangedFacts
          <5> QED BY <5>2, <5>3
        <4> QED BY <3>5, <4>1, <4>2
      <3> QED BY <1>1, <1>2, <1>3, <2>2, <2>3, <2>4, <3>4, <3>6, <3>7, WriteStep
    <2> QED BY <2>5, <2>6
  <1>6. Placed(me)
    BY <1>1, <1>2, <1>4 DEF Placed, Section, Undoing, Accepted, IsRemove
  <1>7. \A q \in Procs : Placed(proc'[q]) /\ Begun(proc[q])'
    BY <1>1, <1>2, <1>3, <1>6, MeHeals, PlacedStep
  <1> QED BY <1>5, <1>7, Assemble

LEMMA UndoPointerHeals ==
  ASSUME StoreInv, HealInv, NEW p \in Procs, UndoPointer(p)
  PROVE  HealInv'
  <1> DEFINE old == proc[p]  me == [old EXCEPT !.pc = IF old.op = "install" THEN "undoFiles" ELSE "failed"]
  <1>1. /\ old \in Proc /\ old.pc = "undoPointer" /\ Placed(old) /\ initialized /\ old.plugin \in Plugins
        /\ UNCHANGED <<initialized, inventory, packages, crashes>>
        /\ disturbed' = disturbed \cup {old.plugin}
        /\ damage' = IF \E q \in Procs \ {p} : proc[q].pc \in Section THEN damage \cup {"overlap"} ELSE damage
    BY MeHeals DEF UndoPointer, Placed, Begun, Undoing, bounds
  <1>2. /\ me.pc = (IF old.op = "install" THEN "undoFiles" ELSE "failed")
        /\ me.plugin = old.plugin /\ me.op = old.op /\ me.version = old.version /\ me.moved = old.moved
        /\ me.saved = old.saved /\ me.loaded = old.loaded /\ me.orig = old.orig /\ me.pointed = old.pointed
    BY <1>1 DEF Proc
  <1>3. Moves(p, me) BY MeHeals DEF UndoPointer, Step, Moves
  <1>4. \A x \in Plugins \ {old.plugin} : pointer'[x] = pointer[x]
    <2>1. pointer \in [Plugins -> Versions \cup {None}] BY StoreParts DEF StoreTyped
    <2> QED BY <2>1 DEF UndoPointer
  <1> HIDE DEF me
  <1>5. (IsRemove(me) <=> IsRemove(old)) /\ (IsRemove(me) => me.op # "install")
    BY <1>2 DEF IsRemove
  <1>6. ASSUME damage' = {} PROVE Protected'
    <2>1. damage = {} /\ \A q \in Procs \ {p} : proc[q].pc \notin Section BY <1>1, <1>6
    <2>2. Protected /\ Knows(old) BY <2>1 DEF HealInv, Protected
    <2>3. ~Outside(old) /\ ~Outside(me) /\ me.pc \notin Section /\ (Active(me) <=> Active(old))
          /\ (Active(old) <=> old.loaded)
      BY <1>1, <1>2 DEF Active, Outside, Section, Undoing
    <2>4. \A y, w : ~Trashed(old, y, w)
      BY <1>1 DEF Trashed, Placed
    <2>5. \A q \in Procs : Knows(proc[q])'
      <3>1. CASE ~old.loaded BY <1>1, <1>3, <2>1, <2>2, <2>3, <3>1, HandlerKnows
      <3>2. CASE old.loaded
        <4>1. \A q \in Procs \ {p} : ~Active(proc[q]) BY <2>2, <2>3, <3>2, HolderAlone
        <4>2. inventory = old.orig BY <1>1, <2>2, <3>2 DEF Knows, Keeping
        <4>3. ~Replacing(me) BY <1>2 DEF Replacing, Section
        <4> QED BY <1>1, <1>2, <1>3, <2>3, <4>1, <4>2, <4>3, KnowsAlone
      <3> QED BY <3>1, <3>2
    <2> QED BY <1>1, <1>2, <1>3, <1>4, <2>1, <2>2, <2>3, <2>4, <2>5, WriteStep
  <1>7. Placed(me)
    BY <1>1, <1>2, <1>5 DEF Placed, Section, Undoing, Accepted, IsRemove
  <1>8. \A q \in Procs : Placed(proc'[q]) /\ Begun(proc[q])'
    BY <1>1, <1>2, <1>3, <1>7, MeHeals, PlacedStep
  <1> QED BY <1>6, <1>8, Assemble

LEMMA MovedLoaded ==
  ASSUME NEW me, Placed(me), me.pc \in Section \cup Undoing, ~me.loaded
  PROVE  ~me.moved
  BY DEF Placed

LEMMA UndoFilesHeals ==
  ASSUME StoreInv, HealInv, NEW p \in Procs, UndoFiles(p)
  PROVE  HealInv'
  <1> DEFINE old == proc[p]
             me == [old EXCEPT !.moved = FALSE, !.pc = IF old.op = "install" THEN "failed" ELSE "undoPointer"]
  <1>1. /\ old \in Proc /\ old.pc = "undoFiles" /\ Placed(old) /\ initialized
        /\ UNCHANGED <<initialized, inventory, pointer, crashes, disturbed, damage>>
        /\ ~old.moved => packages' = packages
        /\ old.moved /\ old.op = "install" => packages' = packages \ {Dir(old)}
        /\ old.moved /\ old.op # "install" => packages' = packages \cup {Dir(old)}
    <2>1. old \in Proc /\ Placed(old) /\ Begun(old) BY MeHeals
    <2>2. /\ old.pc = "undoFiles"
          /\ packages' = CASE old.moved /\ old.op = "install" -> packages \ {Dir(old)}
                           [] old.moved /\ old.op # "install" -> packages \cup {Dir(old)}
                           [] OTHER -> packages
          /\ UNCHANGED <<initialized, inventory, pointer, crashes, disturbed, damage>>
      BY DEF UndoFiles, bounds, Dir
    <2>3. initialized BY <2>1, <2>2 DEF Begun, Undoing
    <2> HIDE DEF old
    <2>4. ~old.moved => packages' = packages BY <2>2
    <2>5. old.moved /\ old.op = "install" => packages' = packages \ {Dir(old)} BY <2>2
    <2>6. old.moved /\ old.op # "install" => packages' = packages \cup {Dir(old)} BY <2>2
    <2> QED BY <2>1, <2>2, <2>3, <2>4, <2>5, <2>6
  <1>2. /\ me.pc = (IF old.op = "install" THEN "failed" ELSE "undoPointer")
        /\ me.plugin = old.plugin /\ me.op = old.op /\ me.version = old.version /\ ~me.moved
        /\ me.saved = old.saved /\ me.loaded = old.loaded /\ me.orig = old.orig /\ me.pointed = old.pointed
    BY <1>1 DEF Proc
  <1>3. Moves(p, me) BY MeHeals DEF UndoFiles, Moves
  <1> HIDE DEF me
  <1>4. (IsRemove(me) <=> IsRemove(old)) /\ (IsRemove(me) => me.op # "install")
    BY <1>2 DEF IsRemove
  <1>5. ASSUME damage' = {} PROVE Protected'
    <2>1. Protected /\ Knows(old) BY <1>1, <1>5 DEF HealInv, Protected
    <2>2. ~Outside(old) /\ ~Outside(me) /\ me.pc \notin Section /\ (Active(me) <=> Active(old))
          /\ (Active(old) <=> old.loaded)
      BY <1>1, <1>2 DEF Active, Outside, Section, Undoing
    <2>3. PointerUndone(me) =>
            me.plugin \in disturbed' /\ \A q \in Procs \ {p} : proc[q].pc \notin Section
      BY <1>1, <1>2, <2>1 DEF PointerUndone, Protected, Marked
    <2>4. CASE ~old.loaded
      <3>1. ~old.moved BY <1>1, <2>4, MovedLoaded DEF Undoing
      <3>2. packages' = packages BY <1>1, <3>1
      <3>3. Knows(me) BY <2>2, <2>4, OutsideFacts
      <3>4. \A q \in Procs : Knows(proc[q])' BY <1>1, <1>3, <2>1, <3>2, <3>3, KnowsStep DEF Protected
      <3>5. \A y, w : ~Trashed(old, y, w) BY <3>1 DEF Trashed
      <3> QED BY <1>1, <1>2, <1>3, <2>1, <2>2, <2>3, <3>2, <3>4, <3>5, WriteStep
    <2>5. CASE old.loaded
      <3>1. \A q \in Procs \ {p} : ~Active(proc[q]) BY <2>1, <2>2, <2>5, HolderAlone
      <3>2. inventory = old.orig BY <1>1, <2>1, <2>5 DEF Knows, Keeping
      <3>3. ~Replacing(me) BY <1>2 DEF Replacing, Section
      <3>4. \A q \in Procs : Knows(proc[q])'
        BY <1>1, <1>2, <1>3, <2>2, <3>1, <3>2, <3>3, KnowsAlone
      <3>5. ASSUME NEW x \in Plugins, NEW v \in inventory.versions[x]
            PROVE  <<x, v>> \in packages' \/ (<<x, v>> \notin packages /\ ~Trashed(old, x, v))
        <4>1. CASE ~old.moved BY <1>1, <4>1 DEF Trashed
        <4>2. CASE old.moved /\ old.op = "install"
          <5>1. old.version \notin inventory.versions[old.plugin] BY <1>1, <3>2, <4>2 DEF Placed, Undoing
          <5>2. <<x, v>> # Dir(old) BY <5>1 DEF Dir
          <5>3. ~IsRemove(old) BY <4>2 DEF IsRemove
          <5> QED BY <1>1, <4>2, <5>2, <5>3 DEF Trashed
        <4>3. CASE old.moved /\ old.op # "install"
          BY <1>1, <4>3 DEF Trashed, Dir
        <4> QED BY <4>1, <4>2, <4>3
      <3> QED BY <1>1, <1>2, <1>3, <2>1, <2>2, <2>3, <3>4, <3>5, WriteStep
    <2> QED BY <2>4, <2>5
  <1>6. Placed(me)
    BY <1>1, <1>2, <1>4 DEF Placed, Section, Undoing, Accepted, IsRemove
  <1>7. \A q \in Procs : Placed(proc'[q]) /\ Begun(proc[q])'
    BY <1>1, <1>2, <1>3, <1>6, MeHeals, PlacedStep
  <1> QED BY <1>5, <1>7, Assemble

-----------------------------------------------------------------------------
LEMMA InitHeals == Init => HealInv
  <1> SUFFICES ASSUME Init PROVE HealInv
    OBVIOUS
  <1>1. \A p \in Procs : proc[p] = NoOp BY DEF Init
  <1>2. \A p \in Procs : Placed(proc[p]) /\ Begun(proc[p]) /\ ~Active(proc[p]) /\ ~PointerUndone(proc[p])
    BY <1>1, NoOpPlaced DEF Begun, Active, PointerUndone, Section, Undoing
  <1>3. \A p \in Procs : Knows(proc[p]) BY <1>2, OutsideFacts
  <1>4. \A x \in Plugins : Healthy(x)
    <2>1. /\ pointer = inventory.active /\ inventory \in Inventory
          /\ packages = {d \in Plugins \X Versions : d[2] \in inventory.versions[d[1]]}
      BY DEF Init
    <2>2. \A x \in Plugins : \A v \in inventory.versions[x] : v \in Versions BY <2>1 DEF Inventory
    <2> QED BY <2>1, <2>2 DEF Healthy
  <1> QED BY <1>2, <1>3, <1>4 DEF HealInv, Protected, Alone, Marked

LEMMA StepHeals == StoreInv /\ HealInv /\ [Next]_vars => HealInv'
  <1> SUFFICES ASSUME StoreInv, HealInv, [Next]_vars PROVE HealInv'
    OBVIOUS
  <1>1. CASE UNCHANGED vars
    <2>1. UNCHANGED <<initialized, inventory, pointer, packages, proc, crashes, disturbed, damage>>
      BY <1>1 DEF vars, disk, bounds
    <2>2. \A p \in Procs : (Placed(proc[p]) /\ Begun(proc[p]))'
      BY <2>1 DEF HealInv, Placed, Begun, IsRemove
    <2>3. \A p \in Procs : Knows(proc[p]) => Knows(proc[p])'
      BY <2>1 DEF Knows, Keeping, Replacing, Changed, Dir
    <2>4. \A x \in Plugins : Healthy(x) => Healthy(x)'
      BY <2>1 DEF Healthy, Trashed, IsRemove, Busy
    <2>5. (Alone => Alone') /\ (Marked => Marked')
      BY <2>1 DEF Alone, Active, Marked, PointerUndone
    <2> QED BY <2>1, <2>2, <2>3, <2>4, <2>5 DEF HealInv, Protected
  <1>2. ASSUME NEW p \in Procs, NEW op \in Ops, NEW x \in Plugins, NEW v \in Versions \cup {None},
               NEW r \in Versions \cup {None}, Call(p, op, x, v, r)
        PROVE  HealInv'
    BY <1>2, CallHeals
  <1>3. ASSUME NEW p \in Procs, Progress(p)
        PROVE  HealInv'
    BY <1>3, InitializeHeals, NextVersionHeals, AcquireHeals, RefusedHeals, LoadHeals, StageHeals, MoveHeals,
       SaveHeals, PointHeals, CommitHealsStep, ReleaseHeals, UndoInventoryHeals, UndoPointerHeals,
       UndoFilesHeals, FailHeals DEF Progress
  <1>4. ASSUME NEW p \in Procs, Fault(p) \/ Crash(p)
        PROVE  HealInv'
    BY <1>4, FaultHeals, CrashHeals
  <1> QED BY <1>1, <1>2, <1>3, <1>4 DEF Next

\* While the store was only written under protection, process, inventory, pointers and package
\* directories agree, through every error and death.
THEOREM StoreHeals == Spec => [](StoreInv /\ HealInv)
  <1>1. Init => StoreInv /\ HealInv BY InitSound, InitHeals
  <1>2. StoreInv /\ HealInv /\ [Next]_vars => StoreInv' /\ HealInv' BY StepSound, StepHeals
  <1> QED BY <1>1, <1>2, PTL DEF Spec

\* An operation that fails has put back the inventory it loaded (plugin_installer.py:296-321,
\* plugin_lifecycle.py and plugin_management.py, their except blocks).
THEOREM FailureKeepsInventoryHolds == Spec => []FailureKeepsInventory
  <1>1. HealInv => FailureKeepsInventory
    BY DEF HealInv, Protected, Knows, Keeping, FailureKeepsInventory
  <1> QED BY <1>1, StoreHeals, PTL

\* Every listed version has its directory or a removal that holds it; once the last journalled
\* operation on a plugin committed its pointer names the active version, and while nothing died
\* the store reports no issue for it.
THEOREM CommitHealsHolds == Spec => []CommitHeals
  <1>1. ASSUME StoreInv, HealInv PROVE CommitHeals
    <2> SUFFICES ASSUME damage = {}, NEW x \in Plugins
                 PROVE  /\ Backed(x)
                        /\ x \notin disturbed /\ ~Busy(x) =>
                             /\ "pointer" \notin Issues(x)
                             /\ crashes = 0 => Issues(x) = {}
      BY DEF CommitHeals
    <2>1. Healthy(x) BY <1>1 DEF HealInv, Protected
    <2>2. Backed(x) BY <2>1 DEF Healthy, Backed, Trashed
    <2>3. x \notin disturbed /\ ~Busy(x) => "pointer" \notin Issues(x)
      BY <2>1 DEF Healthy, Issues
    <2>4. ASSUME ~Busy(x), crashes = 0, NEW v \in inventory.versions[x] PROVE <<x, v>> \in packages
      <3> SUFFICES ASSUME NEW p \in Procs, Trashed(proc[p], x, v) PROVE FALSE
        BY <2>1 DEF Healthy
      <3>1. proc[p].pc # "dead" BY <1>1, <2>4 DEF HealInv, Begun
      <3>2. Busy(x) BY <3>1 DEF Trashed, Busy, Section
      <3> QED BY <2>4, <3>2
    <2>5. x \notin disturbed /\ ~Busy(x) /\ crashes = 0 => Issues(x) = {}
      BY <2>3, <2>4 DEF Issues
    <2> QED BY <2>2, <2>3, <2>5
  <1> QED BY <1>1, StoreHeals, PTL
=============================================================================
