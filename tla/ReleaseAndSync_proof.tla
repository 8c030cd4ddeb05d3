------------------------ MODULE ReleaseAndSync_proof ------------------------
(***************************************************************************)
(* Two components that share nothing, proved in one module.                *)
(*                                                                         *)
(* The release of a version, for any number of builders, runs of the       *)
(* pipeline, commits, edits and faults: what a run that reports            *)
(* "published" has published, and what one that failed leaves behind.      *)
(*                                                                         *)
(* The sync resolver, for every queue of patches: any number of them, on   *)
(* any targets, several on one.  Its invariant says what the stored report *)
(* promises of its skipped patches, what a backup holds while an           *)
(* application is under way, and which operation of the queue wrote a file *)
(* last.                                                                   *)
(***************************************************************************)
EXTENDS Release, SyncResolver, TLAPS

-----------------------------------------------------------------------------
(* Types.                                                                    *)

Marks == (Builders \cup {"none", "edited"}) \X Nat
Listings == [ReleaseFiles -> Marks]
Indexes  == [root : Builders \cup {"none", "directory"}, entries : Listings]

Places ==
  Ended \cup ReleaseFiles \cup {"clean", "tag", "artifacts", "ci", "verify", "create", "list", "delete", "untag"}

Runs == [Publishers -> [pc : Places, index : Indexes, commit : 0..MaxCommits]]

Staged == [Builders -> [pc : {"idle", "archive", "index", "replace", "done"}, staging : Listings]]

Releases == [by : Publishers \cup {"none"}, commit : 0..MaxCommits, pushed : BOOLEAN, assets : Listings]

Types ==
  /\ head \in Commits /\ main \in Commits /\ dirty \in BOOLEAN
  /\ tag \in 0..MaxCommits /\ tagging \in BOOLEAN
  /\ rtag \in [commit : 0..MaxCommits, pushed : BOOLEAN] /\ release \in Releases
  /\ build \in Staged /\ dir \in Listings /\ index \in [{"built", "directory"} -> Indexes]
  /\ run \in Runs /\ server \in [empty : BOOLEAN, digests : BOOLEAN]
  /\ bounds \in [edits : 0..MaxFileEdits, faults : 0..MaxFaults]
  /\ passed \subseteq Commits /\ stranded \subseteq Publishers

-----------------------------------------------------------------------------
(* The inductive invariant.  The local tag is set once, so whatever is said   *)
(* about the tag stays true; and who has the release on GitHub is somewhere   *)
(* between its creation and its deletion, or is known to be stranded.         *)

Tagged == {"artifacts", "ci", "verify", "create"}

Holding == ReleaseFiles \cup {"list", "delete", "published"}

TagKnown ==
  /\ tagging => tag # 0
  /\ rtag.pushed => rtag.commit = tag /\ tag # 0
  /\ release.pushed => release.by # "none" /\ release.commit = tag

Guarded(p) ==
  /\ run[p].pc \in Tagged => run[p].commit = tag /\ tag # 0
  /\ run[p].pc \in {"verify", "create"} => run[p].commit \in passed
  /\ release.by = p => run[p].commit = tag /\ run[p].commit \in passed

Held(p) ==
  /\ run[p].pc \in Holding => release.by = p
  /\ release.by = p => run[p].pc \in Holding \/ (p \in stranded /\ run[p].pc \in {"failed", "dead"})
  /\ run[p].pc = "published" /\ server.digests => release.assets = run[p].index.entries

ReleaseInv == Types /\ TagKnown /\ \A p \in Publishers : Guarded(p) /\ Held(p)

-----------------------------------------------------------------------------
(* The steps of one run leave the others where they are.                      *)

Moved(p, place) ==
  /\ run' \in Runs /\ run'[p].pc = place
  /\ \A q \in Publishers : /\ run'[q].index = run[q].index /\ run'[q].commit = run[q].commit
                           /\ q # p => run'[q].pc = run[q].pc

LEMMA GotoMoves ==
  ASSUME Types, NEW p \in Publishers, NEW place \in Places, Goto(p, place)
  PROVE  Moved(p, place)
  BY DEF Types, Goto, Moved, Runs

LEMMA NothingListed == Empty \in Listings
  BY DEF Empty, Nothing, Listings, Marks

LEMMA NoTagIsTyped == NoTag \in [commit : 0..MaxCommits, pushed : BOOLEAN]
  <1>1. 0 \in 0..MaxCommits
    BY ReleaseAssumption
  <1> QED BY <1>1 DEF NoTag

(* Builders, editors, committers and the maintainer do not touch runs or      *)
(* releases.                                                                  *)
LEMMA LocalStep ==
  ASSUME ReleaseInv, UNCHANGED <<release, run, server, passed, stranded>>, Types', TagKnown',
         tag # 0 => tag' = tag
  PROVE  ReleaseInv'
  <1>1. ASSUME NEW p \in Publishers
        PROVE  Guarded(p)' /\ Held(p)'
    <2>1. run[p].pc \in Tagged => tag' = run[p].commit /\ tag' # 0
      BY DEF ReleaseInv, Guarded
    <2>2. release.by = p => tag' = run[p].commit
      BY ReleaseAssumption DEF ReleaseInv, Guarded, Types, Commits
    <2> QED BY <2>1, <2>2 DEF ReleaseInv, Guarded, Held
  <1> QED BY <1>1 DEF ReleaseInv

(* A step of the guard, and any other step of a run that neither writes the   *)
(* release nor says that it is published.                                     *)
LEMMA QuietStep ==
  ASSUME ReleaseInv, NEW p \in Publishers, NEW place \in Places \ Holding, Moved(p, place),
         UNCHANGED <<local, main, disk, server, release, stranded>>,
         rtag' \in {rtag, NoTag}, bounds' \in [edits : 0..MaxFileEdits, faults : 0..MaxFaults],
         release.by # p, passed \subseteq passed', passed' \subseteq Commits,
         place \in Tagged => run[p].commit = tag /\ tag # 0,
         place \in {"verify", "create"} => run[p].commit \in passed'
  PROVE  ReleaseInv'
  <1> USE DEF local, disk
  <1>1. Types'
    <2>1. NoTag \in [commit : 0..MaxCommits, pushed : BOOLEAN]
      BY NoTagIsTyped
    <2>2. rtag' \in [commit : 0..MaxCommits, pushed : BOOLEAN]
      BY <2>1 DEF ReleaseInv, Types
    <2> QED BY <2>2 DEF ReleaseInv, Types, Moved
  <1>2. TagKnown'
    BY DEF ReleaseInv, TagKnown, NoTag
  <1>3. ASSUME NEW q \in Publishers
        PROVE  Guarded(q)' /\ Held(q)'
    <2>1. CASE q = p
      BY <2>1 DEF ReleaseInv, Guarded, Held, Moved, Holding
    <2>2. CASE q # p
      BY <2>2 DEF ReleaseInv, Guarded, Held, Moved
    <2> QED BY <2>1, <2>2
  <1> QED BY <1>1, <1>2, <1>3 DEF ReleaseInv

LEMMA FaultCounts ==
  ASSUME Types, Fault
  PROVE  bounds' \in [edits : 0..MaxFileEdits, faults : 0..MaxFaults]
  BY ReleaseAssumption DEF Types, Fault

(* Until a run has created a release it holds none.                           *)
Early == Places \ (Holding \cup {"failed", "dead"})

LEMMA EarlyHoldsNothing ==
  ASSUME ReleaseInv, NEW p \in Publishers, run[p].pc \in Early
  PROVE  release.by # p
  BY DEF ReleaseInv, Held, Early

-----------------------------------------------------------------------------
(* The guard.                                                                 *)

LEMMA GuardStep ==
  ASSUME ReleaseInv, NEW p \in Publishers, Guard(p)
  PROVE  ReleaseInv'
  <1> USE DEF Readonly, Elsewhere
  <1>0. Types /\ bounds \in [edits : 0..MaxFileEdits, faults : 0..MaxFaults] /\ passed \subseteq Commits
    BY DEF ReleaseInv, Types
  <1>1. CASE Load(p)
    <2>1. PICK x \in DOMAIN index : run' = [run EXCEPT ![p].pc = "clean", ![p].index = index[x]]
      BY <1>1 DEF Load
    <2>2. run[p].pc = "idle" /\ index[x] \in Indexes
      BY <1>0, <1>1 DEF Load, Types
    <2>3. release.by # p
      BY <2>2, EarlyHoldsNothing DEF Early, Places, Holding, ReleaseFiles, Ended
    <2>4. /\ run' \in Runs /\ run'[p].pc = "clean" /\ run'[p].commit = run[p].commit
          /\ \A q \in Publishers : q # p => run'[q] = run[q]
      BY <1>0, <2>1, <2>2 DEF Types, Runs, Places
    <2>5. Types' /\ TagKnown'
      BY <1>1, <2>4 DEF Load, ReleaseInv, Types, TagKnown, local, disk
    <2>6. ASSUME NEW q \in Publishers
          PROVE  Guarded(q)' /\ Held(q)'
      <3>1. CASE q = p
        BY <1>1, <2>3, <2>4, <3>1 DEF Load, Guarded, Held, Tagged, Holding, ReleaseFiles
      <3>2. CASE q # p
        BY <1>1, <2>4, <3>2 DEF Load, ReleaseInv, Guarded, Held, local, disk
      <3> QED BY <3>1, <3>2
    <2> QED BY <2>5, <2>6 DEF ReleaseInv
  <1>2. CASE GuardClean(p)
    <2> DEFINE place == IF dirty THEN "failed" ELSE "tag"
    <2>1. Moved(p, place)
      BY <1>0, <1>2, GotoMoves DEF GuardClean, Places, Ended
    <2>2. release.by # p
      BY <1>2, EarlyHoldsNothing DEF GuardClean, Early, Places, Holding, ReleaseFiles
    <2> QED BY <1>0, <1>2, <2>1, <2>2, QuietStep DEF GuardClean, Places, Holding, ReleaseFiles, Ended, Tagged
  <1>3. CASE GuardTag(p)
    <2> DEFINE place == IF tag = head THEN "artifacts" ELSE "failed"
    <2>1. run' = [run EXCEPT ![p].pc = place, ![p].commit = head] /\ run[p].pc = "tag"
      BY <1>3 DEF GuardTag
    <2>2. head \in 1..MaxCommits /\ head \in 0..MaxCommits
      BY <1>0, ReleaseAssumption DEF Types, Commits
    <2>3. /\ run' \in Runs /\ run'[p].pc = place /\ run'[p].commit = head
          /\ \A q \in Publishers : q # p => run'[q] = run[q]
      BY <1>0, <2>1, <2>2 DEF Types, Runs, Places, Ended
    <2>4. release.by # p
      BY <2>1, EarlyHoldsNothing DEF Early, Places, Holding, ReleaseFiles
    <2>5. UNCHANGED <<local, main, disk, server, passed, rtag, release, stranded>>
      BY <1>3 DEF GuardTag
    <2>7. Types' /\ TagKnown'
      BY <1>3, <2>3 DEF GuardTag, ReleaseInv, Types, TagKnown, local, disk
    <2>6. ASSUME NEW q \in Publishers
          PROVE  Guarded(q)' /\ Held(q)'
      <3>1. CASE q = p
        BY <1>3, <2>2, <2>3, <2>4, <3>1 DEF GuardTag, Guarded, Held, Tagged, Holding, ReleaseFiles, local
      <3>2. CASE q # p
        BY <2>3, <2>5, <3>2 DEF ReleaseInv, Guarded, Held, local
      <3> QED BY <3>1, <3>2
    <2> QED BY <2>6, <2>7 DEF ReleaseInv
  <1>4. CASE GuardArtifacts(p)
    <2> DEFINE place == IF Verifies(run[p].index) THEN "ci" ELSE "failed"
    <2>1. Moved(p, place)
      BY <1>0, <1>4, GotoMoves DEF GuardArtifacts, Places, Ended
    <2>2. release.by # p /\ run[p].commit = tag /\ tag # 0
      BY <1>4, EarlyHoldsNothing DEF GuardArtifacts, Early, Places, Holding, ReleaseFiles, ReleaseInv, Guarded, Tagged
    <2> QED BY <1>0, <1>4, <2>1, <2>2, QuietStep DEF GuardArtifacts, Places, Holding, ReleaseFiles, Ended
  <1>5. CASE GuardCI(p)
    <2>1. release.by # p /\ run[p].commit = tag /\ tag # 0
      BY <1>5, EarlyHoldsNothing DEF GuardCI, Early, Places, Holding, ReleaseFiles, ReleaseInv, Guarded, Tagged
    <2>2. UNCHANGED <<local, main, disk, server, release, stranded, rtag>>
      BY <1>5 DEF GuardCI, github
    <2>3. CASE Goto(p, "verify") /\ passed' = passed \cup {run[p].commit} /\ UNCHANGED bounds
      <3>1. run[p].commit \in Commits
        BY <1>0, <2>1, ReleaseAssumption DEF Types, Commits
      <3>2. Moved(p, "verify")
        BY <1>0, <2>3, GotoMoves DEF Places
      <3> QED BY <1>0, <2>1, <2>2, <2>3, <3>1, <3>2, QuietStep DEF Places, Holding, ReleaseFiles, Ended
    <2>4. CASE Goto(p, "failed") /\ passed' = passed /\ (UNCHANGED bounds \/ Fault)
      <3>1. Moved(p, "failed")
        BY <1>0, <2>4, GotoMoves DEF Places, Ended
      <3>2. bounds' \in [edits : 0..MaxFileEdits, faults : 0..MaxFaults]
        BY <1>0, <2>4, FaultCounts
      <3> QED BY <1>0, <2>1, <2>2, <2>4, <3>1, <3>2, QuietStep DEF Places, Holding, ReleaseFiles, Ended, Tagged
    <2> QED BY <1>5, <2>3, <2>4 DEF GuardCI
  <1> QED BY <1>1, <1>2, <1>3, <1>4, <1>5 DEF Guard

-----------------------------------------------------------------------------
(* Publication.                                                               *)

(* A step of the run that has the release.                                    *)
LEMMA HolderStep ==
  ASSUME ReleaseInv, NEW p \in Publishers, release.by = p,
         NEW place \in Holding \cup {"untag", "failed", "dead"}, Moved(p, place),
         UNCHANGED <<local, main, disk, server, rtag, passed>>,
         bounds' \in [edits : 0..MaxFileEdits, faults : 0..MaxFaults],
         stranded' \in {stranded, stranded \cup {p}}, release' \in Releases,
         \/ release' = NoRelease
         \/ /\ release'.by = p /\ release'.commit = release.commit /\ release'.pushed = release.pushed
            /\ place \in {"failed", "dead"} => p \in stranded'
            /\ place # "untag",
         place \in Holding => release' # NoRelease,
         place = "published" /\ server.digests => release'.assets = run[p].index.entries
  PROVE  ReleaseInv'
  <1> USE DEF local, disk
  <1>1. Types'
    BY DEF ReleaseInv, Types, Moved
  <1>2. TagKnown'
    BY DEF ReleaseInv, TagKnown, NoRelease
  <1>3. p # "none" /\ NoRelease.by = "none"
    BY ReleaseAssumption DEF NoRelease
  <1>4. ASSUME NEW q \in Publishers
        PROVE  Guarded(q)' /\ Held(q)'
    <2>1. CASE q = p
      BY <1>3, <2>1 DEF ReleaseInv, Guarded, Held, Moved, Holding, ReleaseFiles, Tagged
    <2>2. CASE q # p
      <3>1. release.by # q /\ release'.by # q /\ run[q].pc \notin Holding
        BY <1>3, <2>2, ReleaseAssumption DEF ReleaseInv, Held
      <3> QED BY <2>2, <3>1 DEF ReleaseInv, Guarded, Held, Moved, Holding
    <2> QED BY <2>1, <2>2
  <1> QED BY <1>1, <1>2, <1>4 DEF ReleaseInv

LEMMA VerifyStep ==
  ASSUME ReleaseInv, NEW p \in Publishers, VerifyAgain(p)
  PROVE  ReleaseInv'
  <1> DEFINE place == IF Verifies(run[p].index) THEN "create" ELSE "failed"
  <1>0. Types /\ bounds \in [edits : 0..MaxFileEdits, faults : 0..MaxFaults] /\ passed \subseteq Commits
    BY DEF ReleaseInv, Types
  <1>1. Moved(p, place)
    BY <1>0, GotoMoves DEF VerifyAgain, Places, Ended
  <1>2. release.by # p /\ run[p].commit = tag /\ tag # 0 /\ run[p].commit \in passed
    BY EarlyHoldsNothing DEF VerifyAgain, Early, Places, Holding, ReleaseFiles, ReleaseInv, Guarded, Tagged
  <1> QED BY <1>0, <1>1, <1>2, QuietStep DEF VerifyAgain, Readonly, Elsewhere, Places, Holding, ReleaseFiles, Ended

(* GitHub makes the release of the tag as it has it, or of main.              *)
LEMMA CreateStep ==
  ASSUME ReleaseInv, NEW p \in Publishers, Create(p)
  PROVE  ReleaseInv'
  <1> DEFINE made == IF rtag = NoTag THEN [commit |-> main, pushed |-> FALSE] ELSE rtag
  <1> USE DEF Elsewhere
  <1>0. Types /\ bounds \in [edits : 0..MaxFileEdits, faults : 0..MaxFaults] /\ passed \subseteq Commits
    BY DEF ReleaseInv, Types
  <1>1. UNCHANGED <<local, main, disk, server, passed>> /\ run[p].pc = "create"
    BY DEF Create
  <1>2. release.by # p /\ run[p].commit = tag /\ tag # 0 /\ run[p].commit \in passed
    BY <1>1, EarlyHoldsNothing DEF Early, Places, Holding, ReleaseFiles, ReleaseInv, Guarded, Tagged
  <1>3. CASE Goto(p, "failed") /\ (UNCHANGED bounds \/ Fault) /\ UNCHANGED <<rtag, release, stranded>>
    <2>1. Moved(p, "failed")
      BY <1>0, <1>3, GotoMoves DEF Places, Ended
    <2>2. bounds' \in [edits : 0..MaxFileEdits, faults : 0..MaxFaults]
      BY <1>0, <1>3, FaultCounts
    <2> QED BY <1>0, <1>1, <1>2, <1>3, <2>1, <2>2, QuietStep DEF Places, Holding, ReleaseFiles, Ended, Tagged
  <1>4. CASE /\ release = NoRelease /\ rtag' = made
             /\ release' = [by |-> p, commit |-> made.commit, pushed |-> made.pushed, assets |-> Empty]
             /\ \/ Goto(p, "archive") /\ UNCHANGED <<bounds, stranded>>
                \/ Goto(p, "failed") /\ Fault /\ stranded' = stranded \cup {p}
    <2>1. PICK place \in {"archive", "failed"} :
            /\ Goto(p, place) /\ (UNCHANGED bounds \/ Fault)
            /\ stranded' \in {stranded, stranded \cup {p}} /\ (place = "failed" => p \in stranded')
      BY <1>4
    <2>2. Moved(p, place)
      BY <1>0, <2>1, GotoMoves DEF Places, Ended, ReleaseFiles
    <2>3. bounds' \in [edits : 0..MaxFileEdits, faults : 0..MaxFaults]
      BY <1>0, <2>1, FaultCounts
    <2>4. made \in [commit : 0..MaxCommits, pushed : BOOLEAN]
      <3>1. main \in 0..MaxCommits
        BY <1>0, ReleaseAssumption DEF Types, Commits
      <3> QED BY <1>0, <3>1 DEF Types
    <2>5. made.pushed => made.commit = tag
      BY DEF ReleaseInv, TagKnown, NoTag
    <2> HIDE DEF made
    <2>6. /\ release' \in Releases /\ release'.by = p /\ release'.commit = made.commit
          /\ release'.pushed = made.pushed
      BY <1>4, <2>4, NothingListed DEF Releases
    <2>7. Types'
      BY <1>0, <1>1, <1>4, <2>1, <2>2, <2>3, <2>4, <2>6 DEF Types, Moved, local, disk
    <2>8. TagKnown'
      <3>1. tag' = tag /\ tagging' = tagging /\ p # "none"
        BY <1>1, ReleaseAssumption DEF local
      <3> QED BY <1>2, <1>4, <2>5, <2>6, <3>1 DEF ReleaseInv, TagKnown
    <2>9. ASSUME NEW q \in Publishers
          PROVE  Guarded(q)' /\ Held(q)'
      <3>1. CASE q = p
        BY <1>1, <1>2, <2>1, <2>2, <2>6, <3>1 DEF Guarded, Held, Moved, Holding, ReleaseFiles, Tagged, local
      <3>2. CASE q # p
        <4>1. release.by = "none" /\ q # "none"
          BY <1>4, ReleaseAssumption DEF NoRelease
        <4>2. run[q].pc \notin Holding
          BY <4>1 DEF ReleaseInv, Held
        <4> QED BY <1>1, <2>2, <2>6, <3>2, <4>2 DEF ReleaseInv, Guarded, Held, Moved, Holding, local
      <3> QED BY <3>1, <3>2
    <2> QED BY <2>7, <2>8, <2>9 DEF ReleaseInv
  <1> QED BY <1>3, <1>4 DEF Create

LEMMA HolderIs ==
  ASSUME ReleaseInv, NEW p \in Publishers, run[p].pc \in Holding
  PROVE  /\ release.by = p /\ release \in Releases
         /\ release # NoRelease
  BY ReleaseAssumption DEF ReleaseInv, Types, Held, NoRelease

LEMMA UploadStep ==
  ASSUME ReleaseInv, NEW p \in Publishers, Upload(p)
  PROVE  ReleaseInv'
  <1>0. Types
    BY DEF ReleaseInv
  <1>1. UNCHANGED <<local, main, disk, server, passed, rtag, stranded>>
    BY DEF Upload, Elsewhere
  <1>2. PICK f \in ReleaseFiles :
          /\ run[p].pc = f
          /\ \/ /\ release' = [release EXCEPT !.assets[f] = dir[f]]
                /\ \/ Goto(p, IF f = "archive" THEN "artifacts.json" ELSE "list") /\ UNCHANGED bounds
                   \/ Goto(p, "delete") /\ Fault
             \/ Goto(p, "delete") /\ Fault /\ UNCHANGED release
    BY DEF Upload
  <1>3. release.by = p /\ release \in Releases /\ release # NoRelease
    BY <1>2, HolderIs DEF Holding
  <1>4. PICK place \in {"artifacts.json", "list", "delete"} : Goto(p, place) /\ (UNCHANGED bounds \/ Fault)
    BY <1>2
  <1>5. Moved(p, place)
    BY <1>0, <1>4, GotoMoves DEF Places, ReleaseFiles
  <1>6. bounds' \in [edits : 0..MaxFileEdits, faults : 0..MaxFaults]
    BY <1>0, <1>4, FaultCounts DEF Types
  <1>7. /\ release' \in Releases /\ release'.by = p
        /\ release'.commit = release.commit /\ release'.pushed = release.pushed
    <2>1. dir[f] \in Marks
      BY <1>0 DEF Types, Listings
    <2>2. CASE release' = [release EXCEPT !.assets[f] = dir[f]]
      BY <1>3, <2>1, <2>2 DEF Releases, Listings
    <2>3. CASE release' = release
      BY <1>3, <2>3
    <2> QED BY <1>2, <2>2, <2>3
  <1>8. release' # NoRelease
    BY <1>7, ReleaseAssumption DEF NoRelease
  <1> QED BY <1>1, <1>3, <1>4, <1>5, <1>6, <1>7, <1>8, HolderStep DEF Holding, ReleaseFiles

LEMMA ListStep ==
  ASSUME ReleaseInv, NEW p \in Publishers, List(p)
  PROVE  ReleaseInv'
  <1>0. Types
    BY DEF ReleaseInv
  <1>1. UNCHANGED <<local, main, disk, server, passed, rtag, stranded, release>> /\ run[p].pc = "list"
    BY DEF List, Readonly, Elsewhere
  <1>2. release.by = p /\ release \in Releases /\ release # NoRelease
    BY <1>1, HolderIs DEF Holding
  <1>3. PICK place \in {"delete", "published"} :
          /\ Goto(p, place) /\ (UNCHANGED bounds \/ Fault)
          /\ place = "published" /\ server.digests => release.assets = run[p].index.entries
    BY DEF List
  <1>4. Moved(p, place)
    BY <1>0, <1>3, GotoMoves DEF Places, Ended
  <1>5. bounds' \in [edits : 0..MaxFileEdits, faults : 0..MaxFaults]
    BY <1>0, <1>3, FaultCounts DEF Types
  <1> QED BY <1>1, <1>2, <1>3, <1>4, <1>5, HolderStep DEF Holding

LEMMA DeleteReleaseStep ==
  ASSUME ReleaseInv, NEW p \in Publishers, DeleteRelease(p)
  PROVE  ReleaseInv'
  <1>0. Types
    BY DEF ReleaseInv
  <1>1. UNCHANGED <<local, main, disk, server, passed, rtag>> /\ run[p].pc = "delete"
    BY DEF DeleteRelease, Elsewhere
  <1>2. release.by = p /\ release \in Releases /\ release # NoRelease
    BY <1>1, HolderIs DEF Holding
  <1>3. PICK place \in {"untag", "failed"} :
          /\ Goto(p, place) /\ (UNCHANGED bounds \/ Fault)
          /\ stranded' \in {stranded, stranded \cup {p}}
          /\ \/ release' = NoRelease
             \/ release' = release /\ p \in stranded' /\ place = "failed"
    BY DEF DeleteRelease
  <1>4. Moved(p, place)
    BY <1>0, <1>3, GotoMoves DEF Places, Ended
  <1>5. bounds' \in [edits : 0..MaxFileEdits, faults : 0..MaxFaults]
    BY <1>0, <1>3, FaultCounts DEF Types
  <1>6. NoRelease \in Releases
    BY NothingListed, ReleaseAssumption DEF NoRelease, Releases
  <1> QED BY <1>1, <1>2, <1>3, <1>4, <1>5, <1>6, HolderStep DEF Holding, ReleaseFiles

LEMMA DeleteTagStep ==
  ASSUME ReleaseInv, NEW p \in Publishers, DeleteTag(p)
  PROVE  ReleaseInv'
  <1>0. Types /\ passed \subseteq Commits
    BY DEF ReleaseInv, Types
  <1>1. /\ UNCHANGED <<local, main, disk, server, passed, release, stranded>>
        /\ run[p].pc = "untag" /\ rtag' \in {rtag, NoTag}
    BY DEF DeleteTag, Elsewhere
  <1>2. release.by # p
    BY <1>1, EarlyHoldsNothing DEF Early, Places, Holding, ReleaseFiles
  <1>3. PICK place \in {"rolled back", "failed"} : Goto(p, place) /\ (UNCHANGED bounds \/ Fault)
    BY DEF DeleteTag
  <1>4. Moved(p, place)
    BY <1>0, <1>3, GotoMoves DEF Places, Ended
  <1>5. bounds' \in [edits : 0..MaxFileEdits, faults : 0..MaxFaults]
    BY <1>0, <1>3, FaultCounts DEF Types
  <1>6. place \in Places \ Holding /\ place \notin Tagged
    BY DEF Places, Holding, ReleaseFiles, Ended, Tagged
  <1> QED BY <1>0, <1>1, <1>2, <1>4, <1>5, <1>6, QuietStep DEF Tagged

LEMMA DieStep ==
  ASSUME ReleaseInv, NEW p \in Publishers, Die(p)
  PROVE  ReleaseInv'
  <1>0. Types /\ passed \subseteq Commits
    BY DEF ReleaseInv, Types
  <1>1. /\ UNCHANGED <<local, main, disk, server, passed, rtag, release>>
        /\ stranded' = IF release.by = p THEN stranded \cup {p} ELSE stranded
    BY DEF Die, Elsewhere
  <1>2. Moved(p, "dead")
    BY <1>0, GotoMoves DEF Die, Places, Ended
  <1>3. bounds' \in [edits : 0..MaxFileEdits, faults : 0..MaxFaults]
    BY <1>0, FaultCounts DEF Die
  <1>4. CASE release.by = p
    <2>1. release \in Releases /\ release.by = p
      BY <1>0, <1>4 DEF Types
    <2> QED BY <1>1, <1>2, <1>3, <1>4, <2>1, HolderStep DEF Holding, ReleaseFiles
  <1>5. CASE release.by # p
    BY <1>0, <1>1, <1>2, <1>3, <1>5, QuietStep DEF Places, Ended, Holding, ReleaseFiles, Tagged
  <1> QED BY <1>4, <1>5

-----------------------------------------------------------------------------
(* Everybody else.                                                            *)

LEMMA BuildStep ==
  ASSUME ReleaseInv, NEW b \in Builders, Build(b)
  PROVE  ReleaseInv'
  <1>0. Types
    BY DEF ReleaseInv
  <1>1. UNCHANGED <<local, github, run, server, bounds, passed, stranded>>
    BY DEF Build, BeginBuild, WriteArchive, WriteIndex, Replace, BuildRaises
  <1>2. ASSUME NEW place \in {"idle", "archive", "index", "replace", "done"}, NEW staging \in Listings,
               At(b, place, staging)
        PROVE  build' \in Staged
    BY <1>0, <1>2 DEF Types, At, Staged
  <1>3. [f \in ReleaseFiles |-> <<b, 1>>] \in Listings /\ <<b, 2>> \in Marks
    BY DEF Listings, Marks
  <1>4. [build[b].staging EXCEPT !["artifacts.json"] = <<b, 2>>] \in Listings
    BY <1>0, <1>3 DEF Types, Staged, Listings
  <1>5. build' \in Staged
    BY <1>2, <1>3, <1>4, NothingListed DEF Build, BeginBuild, WriteArchive, WriteIndex, Replace, BuildRaises
  <1>6. dir' \in Listings /\ index' \in [{"built", "directory"} -> Indexes]
    <2>1. CASE UNCHANGED <<dir, index>>
      BY <1>0, <2>1 DEF Types
    <2>2. CASE dir' = build[b].staging /\ index' = [index EXCEPT !["built"] = FinalIndex(b)]
      <3>1. FinalIndex(b) \in Indexes
        BY <1>3 DEF FinalIndex, Indexes
      <3>2. build[b].staging \in Listings
        BY <1>0 DEF Types, Staged
      <3> QED BY <1>0, <2>2, <3>1, <3>2 DEF Types
    <2> QED BY <2>1, <2>2 DEF Build, BeginBuild, WriteArchive, WriteIndex, Replace, BuildRaises
  <1>7. Types' /\ TagKnown'
    BY <1>0, <1>1, <1>5, <1>6 DEF ReleaseInv, Types, TagKnown, local, github
  <1> QED BY <1>1, <1>7, LocalStep DEF local, github

LEMMA MaintainerStep ==
  ASSUME ReleaseInv, IndexDirectory \/ CreateTag \/ PushTag \/ Environment
  PROVE  ReleaseInv'
  <1>0. Types
    BY DEF ReleaseInv
  <1>1. UNCHANGED <<release, run, server, passed, stranded>> /\ (tag # 0 => tag' = tag)
    BY DEF IndexDirectory, CreateTag, PushTag, Environment, Commit, Touch, Pull, Push, EditFile, local, github
  <1>2. CASE IndexDirectory
    <2>1. [root |-> "directory", entries |-> dir] \in Indexes
      BY <1>0 DEF Types, Indexes
    <2>2. Types' /\ TagKnown'
      BY <1>0, <1>2, <2>1 DEF IndexDirectory, ReleaseInv, Types, TagKnown, local, github
    <2> QED BY <1>1, <2>2, LocalStep
  <1>3. CASE CreateTag
    <2>1. head \in 0..MaxCommits /\ head # 0
      BY <1>0, ReleaseAssumption DEF Types, Commits
    <2>2. Types'
      BY <1>0, <1>3, <2>1 DEF CreateTag, Types, github, disk
    <2>3. TagKnown'
      <3>1. ~rtag.pushed /\ (release.pushed => release.commit = 0 /\ release.by # "none")
        BY <1>3 DEF CreateTag, ReleaseInv, TagKnown
      <3>2. release.pushed => release.commit \in passed
        BY <1>0, <3>1 DEF ReleaseInv, TagKnown, Guarded, Types, Releases
      <3>3. ~release.pushed
        BY <1>0, <3>1, <3>2, ReleaseAssumption DEF Types, Commits
      <3> QED BY <1>3, <2>1, <3>1, <3>3 DEF CreateTag, TagKnown, github
    <2> QED BY <1>1, <2>2, <2>3, LocalStep
  <1>4. CASE PushTag
    <2>1. Types'
      <3>1. [commit |-> tag, pushed |-> TRUE] \in [commit : 0..MaxCommits, pushed : BOOLEAN]
        BY <1>0 DEF Types
      <3>2. rtag' \in [commit : 0..MaxCommits, pushed : BOOLEAN]
        BY <1>0, <1>4, <3>1 DEF PushTag, Types
      <3>3. UNCHANGED <<head, dirty, tag, main, release, disk, run, server, bounds, passed, stranded>>
            /\ tagging' = FALSE
        BY <1>4 DEF PushTag
      <3> QED BY <1>0, <3>2, <3>3 DEF Types, disk
    <2>2. TagKnown'
      BY <1>4 DEF PushTag, ReleaseInv, TagKnown
    <2> QED BY <1>1, <2>1, <2>2, LocalStep
  <1>5. CASE Environment
    <2>1. TagKnown'
      BY <1>5 DEF Environment, Commit, Touch, Pull, Push, EditFile, ReleaseInv, TagKnown, local, github
    <2>2. CASE Commit \/ Touch \/ Pull \/ Push
      <3>1. head' \in Commits /\ main' \in Commits /\ dirty' \in BOOLEAN
        <4>1. MaxCommits \in Nat /\ head \in 1..MaxCommits /\ main \in 1..MaxCommits /\ dirty \in BOOLEAN
          BY <1>0, ReleaseAssumption DEF Types, Commits
        <4>2. CASE Commit
          <5>1. main' = main /\ dirty' = FALSE
            BY <4>2 DEF Commit, github
          <5>2. head' \in 1..MaxCommits
            BY <4>1, <4>2 DEF Commit
          <5> QED BY <4>1, <5>1, <5>2 DEF Commits
        <4>3. CASE Touch
          BY <4>1, <4>3 DEF Touch, Commits, github
        <4>4. CASE Pull
          BY <4>1, <4>4 DEF Pull, Commits, github
        <4>5. CASE Push
          <5>1. head' = head /\ dirty' = dirty
            BY <4>5 DEF Push, local
          <5>2. main' \in 1..MaxCommits
            BY <4>1, <4>5 DEF Push
          <5> QED BY <4>1, <5>1, <5>2 DEF Commits
        <4> QED BY <2>2, <4>2, <4>3, <4>4, <4>5
      <3>2. UNCHANGED <<tag, tagging, rtag, release, disk, run, server, bounds, passed, stranded>>
        BY <2>2 DEF Commit, Touch, Pull, Push, local, github
      <3>3. Types'
        BY <1>0, <3>1, <3>2 DEF Types, disk
      <3> QED BY <1>1, <2>1, <3>3, LocalStep
    <2>3. ASSUME NEW f \in ReleaseFiles, EditFile(f)
          PROVE  ReleaseInv'
      <3>1. /\ bounds.edits \in 0..MaxFileEdits /\ bounds.edits < MaxFileEdits
            /\ bounds' = [bounds EXCEPT !.edits = @ + 1] /\ dir' = [dir EXCEPT ![f] = <<"edited", bounds.edits>>]
            /\ UNCHANGED <<local, github, build, index, run, server, passed, stranded>>
        BY <1>0, <2>3 DEF EditFile, Types
      <3>2. bounds' \in [edits : 0..MaxFileEdits, faults : 0..MaxFaults]
        BY <1>0, <3>1, ReleaseAssumption DEF Types
      <3>3. dir' \in Listings
        <4>1. <<"edited", bounds.edits>> \in Marks
          BY <3>1, ReleaseAssumption DEF Marks
        <4> QED BY <1>0, <3>1, <4>1 DEF Types, Listings
      <3>4. Types'
        BY <1>0, <3>1, <3>2, <3>3 DEF Types, local, github
      <3> QED BY <1>1, <2>1, <3>4, LocalStep
    <2> QED BY <1>5, <2>2, <2>3 DEF Environment
  <1> QED BY <1>2, <1>3, <1>4, <1>5

-----------------------------------------------------------------------------
LEMMA ReleaseStarts == ReleaseInit => ReleaseInv
  <1> SUFFICES ASSUME ReleaseInit PROVE ReleaseInv
    OBVIOUS
  <1>1. NoIndex \in Indexes /\ NoRelease \in Releases /\ Empty \in Listings
    BY NothingListed, ReleaseAssumption DEF NoIndex, Indexes, NoRelease, Releases
  <1>2. run \in Runs /\ build \in Staged
    BY <1>1, ReleaseAssumption DEF ReleaseInit, Runs, Places, Ended, Staged
  <1>3. 1 \in Commits /\ 0 \in 0..MaxCommits
    BY ReleaseAssumption DEF Commits
  <1>4. bounds \in [edits : 0..MaxFileEdits, faults : 0..MaxFaults]
    BY ReleaseAssumption DEF ReleaseInit
  <1>5. Types
    BY <1>1, <1>2, <1>3, <1>4 DEF ReleaseInit, Types, NoTag
  <1>6. TagKnown
    BY DEF ReleaseInit, TagKnown, NoTag, NoRelease
  <1>7. ASSUME NEW p \in Publishers
        PROVE  Guarded(p) /\ Held(p)
    BY ReleaseAssumption DEF ReleaseInit, Guarded, Held, Tagged, Holding, ReleaseFiles, NoRelease
  <1> QED BY <1>5, <1>6, <1>7 DEF ReleaseInv

LEMMA ReleaseStep ==
  ASSUME ReleaseInv, [ReleaseNext]_releaseVars
  PROVE  ReleaseInv'
  <1>1. ASSUME NEW p \in Publishers, Publish(p)
        PROVE  ReleaseInv'
    BY <1>1, VerifyStep, CreateStep, UploadStep, ListStep, DeleteReleaseStep, DeleteTagStep, DieStep DEF Publish
  <1>2. CASE UNCHANGED releaseVars
    BY <1>2 DEF releaseVars, local, github, disk, ReleaseInv, Types, TagKnown, Guarded, Held
  <1> QED BY <1>1, <1>2, BuildStep, GuardStep, MaintainerStep DEF ReleaseNext

THEOREM ReleaseHolds == ReleaseSpec => []ReleaseInv
  BY ReleaseStarts, ReleaseStep, PTL DEF ReleaseSpec

(* Every variable keeps its type.                                             *)
THEOREM ReleaseTypeCorrect == ReleaseSpec => []ReleaseTypeOK
  <1>1. ReleaseInv => ReleaseTypeOK
    BY DEF ReleaseInv, Types, ReleaseTypeOK, Releases, Staged, Runs, Places
  <1> QED BY <1>1, ReleaseHolds, PTL

(* What is published is what its index says, and of the commit the guard saw. *)
THEOREM PublishedAsGuardedHolds == ReleaseSpec => []PublishedAsGuarded
  <1>1. ReleaseInv => PublishedAsGuarded
    <2> SUFFICES ASSUME ReleaseInv PROVE PublishedAsGuarded
      OBVIOUS
    <2>1. \A p \in Publishers : run[p].pc = "published" => release.by = p
      BY DEF ReleaseInv, Held, Holding
    <2>2. release.pushed => release.by \in Publishers /\ release.commit = tag
      BY DEF ReleaseInv, TagKnown, Types, Releases
    <2>3. \A p \in Publishers : release.by = p => run[p].commit = tag /\ run[p].commit \in passed
      BY DEF ReleaseInv, Guarded
    <2> QED BY <2>1, <2>2, <2>3 DEF PublishedAsGuarded, ReleaseInv, Held
  <1> QED BY <1>1, ReleaseHolds, PTL

(* A run that is over has published, or has left nothing, or was stranded.    *)
THEOREM FailedLeavesNothingHolds == ReleaseSpec => []FailedLeavesNothing
  <1>1. ReleaseInv => FailedLeavesNothing
    BY DEF ReleaseInv, Held, FailedLeavesNothing, Holding, ReleaseFiles, Ended
  <1> QED BY <1>1, ReleaseHolds, PTL

-----------------------------------------------------------------------------
(* The sync resolver: its report, its backups and its last writers.          *)

\* Behind the loop: the operations it has come through.
Done == ops \ left

\* The skipped patches are those with a decision to keep the current file.
ReportInv ==
  /\ status = "absent" => \A p \in Patches : kinds[p] = {}
  /\ \A p \in Patches : kinds[p] = {} => state[p] # "skipped"
  /\ status \in {"ready", "applied"} => \A p \in Patches : state[p] = "skipped" <=> Kept(p)
  /\ status # "absent" =>
       \A p, q \in Patches : p # q /\ PathOf[p] = PathOf[q] => "duplicate-write" \in kinds[p]

\* What apply_sync_report() works on, in the order of the queue.
LoopInv ==
  /\ pc = "idle" => ops = {} /\ left = {} /\ backups = NoBackups
  /\ pc # "idle" => status = "ready" /\ ops = {i \in Positions : ~Kept(Queue[i])}
  /\ \A j \in Done, i \in left : j < i

\* A file without a backup is untouched; a backup is what the file would be.
BackupInv ==
  /\ pc = "check" => backups = NoBackups
  /\ pc # "idle" => \A x \in Paths \ late :
       IF backups[x] = "unset" THEN files[x] = before[x] ELSE backups[x] = before[x]
  /\ pc \in {"backup", "write"} => \A i \in Done : backups[Target(i)] # "unset"
  /\ pc = "write" => \A i \in left : First(i) => backups[Target(i)] # "unset"

\* The base of a patch nobody decided about, from the second look on.
SeenBase(i) ==
  kinds[Queue[i]] = {} => Current(Queue[i]) = Base[Queue[i]] \/ Target(i) \in slipped

BaseInv ==
  /\ pc = "check" => \A i \in Done : SeenBase(i)
  /\ pc \in {"backup", "write"} => \A i \in left : SeenBase(i)

\* The operation i is the last for its target the loop has come through.
Latest(x, i) == i \in Done /\ Target(i) = x /\ \A j \in Done : Target(j) = x => j <= i

WrittenInv ==
  pc \in {"backup", "write"} => \A x \in Paths \ late :
    /\ (\A i \in Done : Target(i) # x) => files[x] = before[x]
    /\ (\E i \in Done : Target(i) = x) => \E i \in Done : Latest(x, i) /\ files[x] = Written(Queue[i])

IInv == TypeOK /\ ReportInv /\ LoopInv /\ BackupInv /\ BaseInv /\ WrittenInv

-----------------------------------------------------------------------------
(* Facts about the queue.                                                  *)

LEMMA QueueFacts ==
  /\ \A i \in Positions : Queue[i] \in Patches /\ PathOf[Queue[i]] \in Paths /\ Target(i) \in Paths
  /\ \A p \in Patches : \E i \in Positions : Queue[i] = p
  /\ \A p \in Patches : PathOf[p] \in Paths /\ Base[p] \in Contents
  /\ \A i, j \in Positions : Queue[i] = Queue[j] => i = j
  /\ Positions \subseteq Nat
  /\ "unset" \notin Contents
<1>1. \A i \in Positions : Queue[i] \in Patches BY DEF Patches, Positions
<1>2. \A p \in Patches : \E i \in Positions : Queue[i] = p BY DEF Patches, Positions
<1>3. \A p \in Patches : PathOf[p] \in Paths /\ Base[p] \in Contents
  BY SyncAssumption DEF SyncAssumption, Contents
<1>4. \A i, j \in Positions : Queue[i] = Queue[j] => i = j BY SyncAssumption DEF SyncAssumption
<1>5. Positions \subseteq Nat BY DEF Positions
<1>6. "unset" \notin Contents BY SyncAssumption DEF SyncAssumption, Contents, None, Manual
<1> QED BY <1>1, <1>2, <1>3, <1>4, <1>5, <1>6 DEF Target

LEMMA StartFacts ==
  /\ Files \in [Paths -> Contents] /\ NoBackups \in [Paths -> Contents \cup {"unset"}]
  /\ \A x \in Paths : NoBackups[x] = "unset"
  BY SyncAssumption DEF SyncAssumption, Contents, NoBackups

LEMMA BoundFacts == MaxEdits \in Nat /\ MaxDecisions \in Nat
  BY SyncAssumption DEF SyncAssumption

-----------------------------------------------------------------------------
LEMMA InitHolds == Init => IInv
<1> SUFFICES ASSUME Init PROVE IInv OBVIOUS
<1>1. TypeOK
  <2>1. [k \in Kinds |-> None] \in [Kinds -> Choices \cup {None}] OBVIOUS
  <2>2. choice \in [Patches -> [Kinds -> Choices \cup {None}]]
    BY <2>1 DEF Init
  <2>3. \A p \in Patches : ~Open(p, choice)
    BY DEF Init, Open
  <2> QED BY <2>2, <2>3, StartFacts, BoundFacts DEF Init, TypeOK
<1>2. ReportInv BY DEF Init, ReportInv, Kept
<1>3. LoopInv BY DEF Init, LoopInv, Done
<1> QED BY <1>1, <1>2, <1>3 DEF IInv, Init, BackupInv, BaseInv, WrittenInv

-----------------------------------------------------------------------------
(* Type correctness, action by action.                                     *)

LEMMA OpenIsReport ==
  ASSUME UNCHANGED <<kinds, choice, status>> PROVE
    ((\E p \in Patches : Open(p, choice)) => status \in {"absent", "blocked"})
      => ((\E p \in Patches : Open(p, choice)) => status \in {"absent", "blocked"})'
  BY DEF Open

LEMMA BuildTypes == ASSUME TypeOK, BuildReport PROVE TypeOK'
<1>1. kinds' \in [Patches -> SUBSET Kinds]
  <2>1. \A p \in Patches : {k \in Kinds : Conflicting(p, k)} \in SUBSET Kinds OBVIOUS
  <2> QED BY <2>1 DEF BuildReport
<1>2. state' \in [Patches -> {"queued", "ready", "conflict", "applied", "skipped"}]
  BY DEF BuildReport
<1>3. \A p \in Patches : Open(p, choice)' => kinds'[p] # {}
  BY DEF Open
<1>4. (\E p \in Patches : Open(p, choice)') => status' = "blocked"
  BY <1>3 DEF BuildReport
<1> QED BY <1>1, <1>2, <1>4 DEF BuildReport, TypeOK, applyVars

LEMMA ResolveTypes ==
  ASSUME TypeOK, NEW p \in Patches, NEW k \in Kinds, NEW c \in Choices, Resolve(p, k, c)
  PROVE TypeOK'
<1>1. choice' \in [Patches -> [Kinds -> Choices \cup {None}]]
  <2>1. choice \in [Patches -> [Kinds -> Choices \cup {None}]] BY DEF TypeOK
  <2>2. choice[p] \in [Kinds -> Choices \cup {None}] BY <2>1
  <2>3. [choice[p] EXCEPT ![k] = c] \in [Kinds -> Choices \cup {None}] BY <2>2
  <2>4. choice' = [choice EXCEPT ![p] = [choice[p] EXCEPT ![k] = c]] BY <2>1 DEF Resolve
  <2> QED BY <2>1, <2>3, <2>4
<1>2. state' \in [Patches -> {"queued", "ready", "conflict", "applied", "skipped"}]
  <2>1. state \in [Patches -> {"queued", "ready", "conflict", "applied", "skipped"}] BY DEF TypeOK
  <2>2. \A q \in Patches : Decided(q, choice') \in {"ready", "skipped"} BY DEF Decided
  <2> QED BY <2>1, <2>2 DEF Resolve, Store
<1>3. \A q \in Patches : Open(q, choice)' <=> Open(q, choice')
  BY DEF Resolve, Open
<1>4. (\E q \in Patches : Open(q, choice)') => status' = "blocked"
  BY <1>3 DEF Resolve, Store
<1>5. decisions' \in 0..MaxDecisions /\ status' \in {"blocked", "ready"}
  BY BoundFacts DEF Resolve, TypeOK, Store
<1> QED BY <1>1, <1>2, <1>4, <1>5 DEF Resolve, TypeOK, applyVars, ghostVars

LEMMA BeginTypes == ASSUME TypeOK, BeginApply PROVE TypeOK'
  BY OpenIsReport DEF BeginApply, TypeOK, reportVars

LEMMA OverTypes ==
  ASSUME TypeOK, Over, UNCHANGED <<reportVars, files, edits, decisions, ghostVars>> PROVE TypeOK'
  BY OpenIsReport, StartFacts DEF Over, TypeOK, reportVars, ghostVars

LEMMA CheckTypes == ASSUME TypeOK, NEW i \in Positions, CheckBase(i) PROVE TypeOK'
<1>1. CASE Over
  BY <1>1, OpenIsReport, StartFacts DEF CheckBase, Over, TypeOK, reportVars
<1>2. CASE left' = left \ {i} /\ slipped' = slipped \ {Target(i)} /\ UNCHANGED <<pc, ops, backups>>
  BY <1>2, OpenIsReport DEF CheckBase, TypeOK, reportVars
<1> QED BY <1>1, <1>2 DEF CheckBase

LEMMA BackupTypes == ASSUME TypeOK, NEW i \in Positions, Backup(i) PROVE TypeOK'
<1>1. backups' \in [Paths -> Contents \cup {"unset"}]
  BY QueueFacts DEF Backup, BackupOf, TypeOK
<1> QED BY <1>1, OpenIsReport DEF Backup, TypeOK, reportVars, ghostVars

LEMMA WriteTypes == ASSUME TypeOK, NEW i \in Positions, Write(i) PROVE TypeOK'
<1>1. Written(Queue[i]) \in Contents BY QueueFacts DEF Written, Contents
<1>2. files' \in [Paths -> Contents] BY <1>1 DEF Write, TypeOK
<1> QED BY <1>2, OpenIsReport DEF Write, TypeOK, reportVars, ghostVars

LEMMA RestoreTypes == ASSUME TypeOK, NEW x \in Paths, Restore(x) PROVE TypeOK'
<1>1. files' \in [Paths -> Contents] BY DEF Restore, TypeOK
<1>2. backups' \in [Paths -> Contents \cup {"unset"}] BY DEF Restore, TypeOK
<1> QED BY <1>1, <1>2, OpenIsReport DEF Restore, TypeOK, reportVars, ghostVars

LEMMA SaveTypes == ASSUME TypeOK, LoopInv, Save PROVE TypeOK'
<1>1. state' \in [Patches -> {"queued", "ready", "conflict", "applied", "skipped"}]
  BY DEF Save, Store, TypeOK
<1>2. status = "ready" BY DEF Save, LoopInv
<1>3. \A p \in Patches : ~Open(p, choice)
  BY <1>2 DEF TypeOK
<1>4. \A p \in Patches : Open(p, choice)' <=> Open(p, choice)
  BY DEF Save, Open
<1> QED BY <1>1, <1>3, <1>4, StartFacts DEF Save, Store, Over, TypeOK, ghostVars

LEMMA EditTypes ==
  ASSUME TypeOK, NEW x \in Paths, NEW c \in {None, "old", "user"}, Edit(x, c) PROVE TypeOK'
<1>1. c \in Contents BY DEF Contents
<1>2. files' \in [Paths -> Contents] /\ before' \in [Paths -> Contents]
  BY <1>1 DEF Edit, TypeOK
<1>3. edits' \in 0..MaxEdits BY BoundFacts DEF Edit, TypeOK
<1>4. slipped' \subseteq Paths /\ late' \subseteq Paths BY DEF Edit, TypeOK
<1> QED BY <1>2, <1>3, <1>4, OpenIsReport DEF Edit, TypeOK, reportVars, applyVars

LEMMA TypesHold == ASSUME TypeOK, LoopInv, [Next]_vars PROVE TypeOK'
<1>1. CASE UNCHANGED vars
  BY <1>1, OpenIsReport DEF vars, TypeOK, reportVars, applyVars, ghostVars
<1>2. CASE User
  BY <1>2, BuildTypes, ResolveTypes, BeginTypes DEF User, ResolveSelectedConflict, ApplyCurrentSync
<1>3. CASE \E i \in Positions : CheckBase(i) \/ Backup(i) \/ Write(i)
  BY <1>3, CheckTypes, BackupTypes, WriteTypes
<1>4. CASE Checked
  BY <1>4, OpenIsReport DEF Checked, TypeOK, reportVars, ghostVars
<1>5. CASE WriteFails
  BY <1>5, OpenIsReport DEF WriteFails, TypeOK, reportVars, ghostVars
<1>6. CASE Save BY <1>6, SaveTypes
<1>7. CASE Restored BY <1>7, OverTypes DEF Restored
<1>8. CASE \E x \in Paths : Restore(x) BY <1>8, RestoreTypes
<1>9. CASE Crash BY <1>9, OverTypes DEF Crash
<1>10. CASE \E x \in Paths : \E c \in {None, "old", "user"} : Edit(x, c) BY <1>10, EditTypes
<1> QED BY <1>1, <1>2, <1>3, <1>4, <1>5, <1>6, <1>7, <1>8, <1>9, <1>10 DEF Next, Apply

-----------------------------------------------------------------------------
(* The stored report changes when it is built, when a conflict is decided  *)
(* and when the application is over.                                       *)

LEMMA ReportKept == ASSUME ReportInv, UNCHANGED reportVars PROVE ReportInv'
  BY DEF ReportInv, reportVars, Kept

LEMMA BuildReports == ASSUME TypeOK, ReportInv, BuildReport PROVE ReportInv'
<1>1. \A p \in Patches : state'[p] # "skipped" BY DEF BuildReport
<1>2. \A p \in Patches : kinds[p] = {} BY DEF BuildReport, ReportInv
<1>3. status' \in {"blocked", "ready"} BY DEF BuildReport
<1>4. status' = "ready" => \A p \in Patches : kinds'[p] = {} BY DEF BuildReport
<1>5. status' = "ready" => \A p \in Patches : ~Kept(p)' BY <1>4 DEF Kept
<1>6. \A p, q \in Patches : p # q /\ PathOf[p] = PathOf[q] => "duplicate-write" \in kinds'[p]
  <2> SUFFICES ASSUME NEW p \in Patches, NEW q \in Patches, p # q, PathOf[p] = PathOf[q]
               PROVE  "duplicate-write" \in kinds'[p]
    OBVIOUS
  <2>1. "duplicate-write" \in Kinds BY DEF Kinds
  <2>2. Conflicting(p, "duplicate-write") BY DEF Conflicting
  <2> QED BY <2>1, <2>2 DEF BuildReport
<1> QED BY <1>1, <1>3, <1>5, <1>6 DEF ReportInv

LEMMA ResolveReports ==
  ASSUME TypeOK, ReportInv, NEW p \in Patches, NEW k \in Kinds, NEW c \in Choices, Resolve(p, k, c)
  PROVE ReportInv'
<1>1. kinds' = kinds /\ kinds[p] # {} BY DEF Resolve
<1>2. status # "absent" BY <1>1 DEF ReportInv
<1>3. \A q \in Patches : state'[q] = IF kinds[q] = {} \/ Open(q, choice') THEN state[q]
                                     ELSE Decided(q, choice')
  BY DEF Resolve, Store
<1>4. \A q \in Patches : kinds[q] = {} => state'[q] # "skipped"
  BY <1>3 DEF ReportInv
<1>5. status' = "ready" => \A q \in Patches : ~Open(q, choice')
  BY DEF Resolve, Store
<1>6. status' \in {"blocked", "ready"} BY DEF Resolve, Store
<1>7. ASSUME status' = "ready", NEW q \in Patches PROVE state'[q] = "skipped" <=> Kept(q)'
  <2>1. CASE kinds[q] = {} BY <2>1, <1>4, <1>1 DEF Kept
  <2>2. CASE kinds[q] # {}
    BY <2>2, <1>1, <1>3, <1>5, <1>7 DEF Kept, Decided
  <2> QED BY <2>1, <2>2
<1> QED BY <1>1, <1>2, <1>4, <1>6, <1>7 DEF ReportInv

LEMMA SaveReports == ASSUME TypeOK, ReportInv, LoopInv, Save PROVE ReportInv'
<1>1. status = "ready" /\ status' = "applied" /\ kinds' = kinds /\ choice' = choice
  BY DEF Save, LoopInv, Store
<1>2. \A p \in Patches : Kept(p)' <=> Kept(p) BY <1>1 DEF Kept
<1>3. ops = {i \in Positions : ~Kept(Queue[i])} BY DEF Save, LoopInv
<1>4. \A p \in Patches : (\E i \in ops : Queue[i] = p) <=> ~Kept(p)
  BY <1>3, QueueFacts
<1>5. \A p \in Patches : state'[p] = IF \E i \in ops : Queue[i] = p THEN "applied" ELSE state[p]
  BY DEF Save, Store
<1>6. \A p \in Patches : state'[p] = "skipped" <=> Kept(p)
  BY <1>1, <1>4, <1>5 DEF ReportInv
<1>7. \A p \in Patches : kinds[p] = {} => ~Kept(p) BY DEF Kept
<1> QED BY <1>1, <1>2, <1>6, <1>7 DEF ReportInv

LEMMA ReportHolds == ASSUME TypeOK, ReportInv, LoopInv, [Next]_vars PROVE ReportInv'
<1>1. CASE BuildReport BY <1>1, BuildReports
<1>2. CASE ResolveSelectedConflict BY <1>2, ResolveReports DEF ResolveSelectedConflict
<1>3. CASE Save BY <1>3, SaveReports
<1>4. CASE UNCHANGED reportVars BY <1>4, ReportKept
<1>5. \/ BuildReport \/ ResolveSelectedConflict \/ Save \/ UNCHANGED reportVars
  <2>1. ApplyCurrentSync => UNCHANGED reportVars BY DEF ApplyCurrentSync, BeginApply
  <2>2. \A i \in Positions : CheckBase(i) \/ Backup(i) \/ Write(i) => UNCHANGED reportVars
    BY DEF CheckBase, Backup, Write
  <2>3. Checked \/ WriteFails \/ Restored \/ Crash => UNCHANGED reportVars
    BY DEF Checked, WriteFails, Restored, Crash
  <2>4. \A x \in Paths : Restore(x) => UNCHANGED reportVars BY DEF Restore
  <2>5. \A x \in Paths, c \in {None, "old", "user"} : Edit(x, c) => UNCHANGED reportVars
    BY DEF Edit
  <2>6. UNCHANGED vars => UNCHANGED reportVars BY DEF vars
  <2> QED BY <2>1, <2>2, <2>3, <2>4, <2>5, <2>6 DEF Next, User, Apply
<1> QED BY <1>1, <1>2, <1>3, <1>4, <1>5

-----------------------------------------------------------------------------
(* The loops.                                                              *)

\* The variables the loop facts are about, and the decisions behind them.
LEMMA LoopKept == ASSUME LoopInv, UNCHANGED <<reportVars, applyVars>> PROVE LoopInv'
  BY DEF LoopInv, reportVars, applyVars, Kept, Done, NoBackups

LEMMA OverLoops == ASSUME Over PROVE LoopInv'
  BY DEF Over, LoopInv, Done, NoBackups

LEMMA ReportLoops ==
  ASSUME LoopInv, pc = "idle", UNCHANGED applyVars PROVE LoopInv'
  BY DEF LoopInv, applyVars, Done, NoBackups

LEMMA BeginLoops == ASSUME ReportInv, BeginApply PROVE LoopInv'
<1>1. ops' = {i \in Positions : ~Kept(Queue[i])} BY QueueFacts DEF BeginApply, ReportInv
<1>2. UNCHANGED reportVars /\ status = "ready" BY DEF BeginApply
<1>3. \A p \in Patches : Kept(p)' <=> Kept(p) BY <1>2 DEF Kept, reportVars
<1>4. ops' = {i \in Positions : ~Kept(Queue[i])'} BY <1>1, <1>3, QueueFacts
<1>5. Done' = {} /\ pc' = "check" BY DEF BeginApply, Done
<1> QED BY <1>2, <1>4, <1>5 DEF LoopInv, reportVars

\* An operation is behind the loop and the rest of the queue still before it.
LEMMA StepLoops ==
  ASSUME TypeOK, LoopInv, UNCHANGED <<reportVars, ops>>, pc # "idle", pc' # "idle",
         \/ left' = left
         \/ left' = ops
         \/ \E i \in left : First(i) /\ left' = left \ {i}
  PROVE LoopInv'
<1>1. \A p \in Patches : Kept(p)' <=> Kept(p) BY DEF Kept, reportVars
<1>2. ops' = {i \in Positions : ~Kept(Queue[i])'} BY <1>1, QueueFacts DEF LoopInv
<1>3. \A j \in Done', i \in left' : j < i
  <2>1. CASE left' = left BY <2>1 DEF Done, LoopInv
  <2>2. CASE left' = ops BY <2>2 DEF Done
  <2>3. ASSUME NEW i \in left, First(i), left' = left \ {i} PROVE \A j \in Done', k \in left' : j < k
    <3>1. left \subseteq ops /\ ops \subseteq Nat BY QueueFacts DEF TypeOK
    <3>2. Done' = Done \cup {i} BY <2>3, <3>1 DEF Done
    <3>3. \A j \in left' : i < j BY <2>3, <3>1 DEF First
    <3> QED BY <2>3, <3>2, <3>3 DEF LoopInv
  <2> QED BY <2>1, <2>2, <2>3
<1> QED BY <1>2, <1>3 DEF LoopInv, reportVars

LEMMA LoopHolds == ASSUME TypeOK, ReportInv, LoopInv, [Next]_vars PROVE LoopInv'
<1>1. CASE UNCHANGED vars BY <1>1, LoopKept DEF vars
<1>2. CASE BuildReport BY <1>2, ReportLoops DEF BuildReport
<1>3. CASE ResolveSelectedConflict
  BY <1>3, ReportLoops DEF ResolveSelectedConflict, Resolve
<1>4. CASE ApplyCurrentSync BY <1>4, BeginLoops DEF ApplyCurrentSync
<1>5. ASSUME NEW i \in Positions, CheckBase(i) PROVE LoopInv'
  <2>1. CASE Over BY <2>1, OverLoops
  <2>2. CASE left' = left \ {i} /\ UNCHANGED <<pc, ops, backups>>
    BY <1>5, <2>2, StepLoops DEF CheckBase, First
  <2> QED BY <1>5, <2>1, <2>2 DEF CheckBase
<1>6. ASSUME NEW i \in Positions, Backup(i) PROVE LoopInv'
  BY <1>6, StepLoops DEF Backup
<1>7. ASSUME NEW i \in Positions, Write(i) PROVE LoopInv'
  BY <1>7, StepLoops DEF Write, First
<1>8. CASE Checked BY <1>8, StepLoops DEF Checked
<1>9. CASE WriteFails BY <1>9, StepLoops DEF WriteFails
<1>10. CASE Save BY <1>10, OverLoops DEF Save
<1>11. CASE Restored BY <1>11, OverLoops DEF Restored
<1>12. CASE \E x \in Paths : Restore(x) BY <1>12, StepLoops DEF Restore
<1>13. CASE Crash BY <1>13, OverLoops DEF Crash
<1>14. CASE \E x \in Paths : \E c \in {None, "old", "user"} : Edit(x, c)
  BY <1>14, LoopKept DEF Edit
<1> QED BY <1>1, <1>2, <1>3, <1>4, <1>5, <1>6, <1>7, <1>8, <1>9, <1>10, <1>11, <1>12, <1>13, <1>14
        DEF Next, User, Apply

-----------------------------------------------------------------------------
(* Files, backups and bases: what holds while an application is under way. *)

Running == BackupInv /\ BaseInv /\ WrittenInv

LEMMA IdleRuns == ASSUME pc' = "idle" PROVE Running'
  BY DEF Running, BackupInv, BaseInv, WrittenInv

\* What a file holds, by the operations done and the decisions.
LEMMA SameWritten ==
  ASSUME UNCHANGED <<kinds, choice>>
  PROVE  /\ \A i : Written(Queue[i])' = Written(Queue[i])
         /\ Done' = Done => \A x, i : Latest(x, i)' <=> Latest(x, i)
<1>1. \A i : Written(Queue[i])' = Written(Queue[i]) BY DEF Written
<1>2. ASSUME Done' = Done PROVE \A x, i : Latest(x, i)' <=> Latest(x, i)
  BY <1>2 DEF Latest, Target
<1> QED BY <1>1, <1>2

LEMMA SameRuns ==
  ASSUME Running, UNCHANGED <<files, reportVars, applyVars, before, slipped, late>> PROVE Running'
<1>1. UNCHANGED <<kinds, choice, state, status, pc, ops, left, backups>>
  BY DEF reportVars, applyVars
<1>2. BackupInv' BY <1>1 DEF Running, BackupInv, Done, Target, First, NoBackups
<1>3. BaseInv' BY <1>1 DEF Running, BaseInv, Done, Target, SeenBase, Current
<1>4. Done' = Done BY <1>1 DEF Done
<1>5. WrittenInv' BY <1>1, <1>4, SameWritten DEF Running, WrittenInv, Target
<1> QED BY <1>2, <1>3, <1>5 DEF Running

LEMMA BeginRuns == ASSUME LoopInv, pc = "idle", BeginApply PROVE Running'
<1>1. backups' = NoBackups /\ pc' = "check" /\ files' = files /\ before' = files /\ Done' = {}
  BY DEF BeginApply, LoopInv, Done
<1>2. BackupInv' BY <1>1, StartFacts DEF BackupInv, NoBackups
<1>3. BaseInv' BY <1>1 DEF BaseInv
<1> QED BY <1>1, <1>2, <1>3 DEF Running, WrittenInv

\* The second look at a base; a later patch for the same target is in conflict.
LEMMA CheckRuns ==
  ASSUME TypeOK, ReportInv, LoopInv, Running, NEW i \in Positions, CheckBase(i), ~Over
  PROVE Running'
<1>1. /\ pc = "check" /\ First(i) /\ left' = left \ {i} /\ slipped' = slipped \ {Target(i)}
      /\ UNCHANGED <<pc, ops, backups, files, before, late>>
      /\ UNCHANGED <<kinds, choice>>
  BY DEF CheckBase, reportVars
<1>2. Forced(Queue[i]) \/ Current(Queue[i]) = Base[Queue[i]] BY DEF CheckBase
<1>3. BackupInv'
  <2>1. backups' = NoBackups /\ pc' = "check" BY <1>1 DEF Running, BackupInv
  <2>2. \A x \in Paths \ late' :
          IF backups'[x] = "unset" THEN files'[x] = before'[x] ELSE backups'[x] = before'[x]
    BY <1>1 DEF Running, BackupInv
  <2> QED BY <2>1, <2>2 DEF BackupInv, NoBackups
<1>4. BaseInv'
  <2>1. status # "absent" BY <1>1 DEF LoopInv
  <2>2. left \subseteq ops /\ ops \subseteq Positions BY DEF TypeOK
  <2>3. Done' = Done \cup {i} BY <1>1, <2>2 DEF Done, First
  <2>4. ASSUME NEW j \in Done', kinds[Queue[j]] = {}
        PROVE  Current(Queue[j]) = Base[Queue[j]] \/ Target(j) \in slipped'
    <3>1. CASE j = i BY <1>2, <2>4, <3>1 DEF Forced
    <3>2. CASE j # i
      <4>1. j \in Done /\ j \in Positions BY <2>2, <2>3, <3>2 DEF Done
      <4>2. SeenBase(j) BY <1>1, <4>1 DEF Running, BaseInv
      <4>3. Queue[j] # Queue[i] BY <3>2, <4>1, QueueFacts
      <4>4. Target(j) # Target(i)
        BY <2>1, <2>4, <4>1, <4>3, QueueFacts DEF ReportInv, Target
      <4> QED BY <1>1, <2>4, <4>2, <4>4 DEF SeenBase
    <3> QED BY <3>1, <3>2
  <2>5. \A j \in Done' : SeenBase(j)' BY <1>1, <2>4 DEF SeenBase, Current, Target
  <2> QED BY <1>1, <2>5 DEF BaseInv
<1>5. WrittenInv' BY <1>1 DEF WrittenInv
<1> QED BY <1>3, <1>4, <1>5 DEF Running

LEMMA CheckedRuns == ASSUME TypeOK, Running, Checked PROVE Running'
<1>1. /\ pc = "check" /\ left = {} /\ pc' = "backup" /\ left' = ops /\ ops' = ops
      /\ UNCHANGED <<backups, files, before, late, slipped, kinds, choice>>
  BY DEF Checked, reportVars, ghostVars
<1>2. Done' = {} /\ Done = ops BY <1>1 DEF Done
<1>3. backups = NoBackups BY <1>1 DEF Running, BackupInv
<1>4. \A x \in Paths \ late : files[x] = before[x]
  BY <1>1, <1>3, StartFacts DEF Running, BackupInv
<1>5. BackupInv'
  BY <1>1, <1>2, <1>3, <1>4, StartFacts DEF BackupInv
<1>6. \A i \in ops : SeenBase(i) BY <1>1, <1>2 DEF Running, BaseInv
<1>7. \A i \in left' : SeenBase(i)' BY <1>1, <1>6 DEF SeenBase, Current, Target
<1>8. BaseInv' BY <1>1, <1>7 DEF BaseInv
<1>9. WrittenInv' BY <1>1, <1>2, <1>4 DEF WrittenInv
<1> QED BY <1>5, <1>8, <1>9 DEF Running

\* backups.setdefault(): the first backup of a file is the one that stays.
LEMMA BackupRuns == ASSUME TypeOK, Running, NEW i \in Positions, Backup(i) PROVE Running'
<1>1. /\ pc = "backup" /\ pc' = "write" /\ First(i)
      /\ UNCHANGED <<ops, left, files, before, late, slipped, kinds, choice>>
      /\ backups' = BackupOf(Target(i))
  BY DEF Backup, reportVars, ghostVars
<1>2. Done' = Done /\ left \subseteq ops /\ ops \subseteq Positions BY <1>1 DEF Done, TypeOK
<1>3. backups \in [Paths -> Contents \cup {"unset"}] /\ files \in [Paths -> Contents] BY DEF TypeOK
<1>4. \A x \in Paths : backups'[x] = IF x = Target(i) /\ backups[x] = "unset" THEN files[x]
                                     ELSE backups[x]
  BY <1>1, <1>3, QueueFacts DEF BackupOf
<1>5. \A x \in Paths : backups[x] # "unset" => backups'[x] # "unset" BY <1>4
<1>6. backups'[Target(i)] # "unset" BY <1>3, <1>4, QueueFacts
<1>7. BackupInv'
  <2>1. \A x \in Paths \ late' :
          IF backups'[x] = "unset" THEN files'[x] = before'[x] ELSE backups'[x] = before'[x]
    BY <1>1, <1>4 DEF Running, BackupInv
  <2>2. \A j \in Done' : backups'[Target(j)] # "unset"
    BY <1>1, <1>2, <1>5, QueueFacts DEF Running, BackupInv, Done
  <2>3. \A j \in left' : First(j)' => j = i
    BY <1>1, <1>2, QueueFacts DEF First
  <2> QED BY <1>1, <1>6, <2>1, <2>2, <2>3 DEF BackupInv, Target
<1>8. BaseInv' BY <1>1 DEF Running, BaseInv, SeenBase, Current, Target
<1>9. WrittenInv' BY <1>1, <1>2, SameWritten DEF Running, WrittenInv, Target
<1> QED BY <1>7, <1>8, <1>9 DEF Running

\* A write makes its operation the last for its target; the base of another
\* patch nobody decided about is on another file.
LEMMA WriteRuns ==
  ASSUME TypeOK, ReportInv, LoopInv, Running, NEW i \in Positions, Write(i) PROVE Running'
<1>1. /\ pc = "write" /\ pc' = "backup" /\ First(i) /\ left' = left \ {i}
      /\ files' = [files EXCEPT ![Target(i)] = Written(Queue[i])]
      /\ UNCHANGED <<ops, backups, before, late, slipped, kinds, choice>>
  BY DEF Write, reportVars, ghostVars
<1>2. left \subseteq ops /\ ops \subseteq Positions BY DEF TypeOK
<1>3. Done' = Done \cup {i} /\ i \in left BY <1>1, <1>2 DEF Done, First
<1>4. \A x \in Paths : files'[x] = IF x = Target(i) THEN Written(Queue[i]) ELSE files[x]
  BY <1>1, QueueFacts DEF TypeOK
<1>5. backups[Target(i)] # "unset" BY <1>1, <1>3 DEF Running, BackupInv
<1>6. BackupInv'
  <2>1. \A x \in Paths \ late' :
          IF backups'[x] = "unset" THEN files'[x] = before'[x] ELSE backups'[x] = before'[x]
    BY <1>1, <1>4, <1>5 DEF Running, BackupInv
  <2>2. \A j \in Done' : backups'[Target(j)] # "unset"
    BY <1>1, <1>3, <1>5 DEF Running, BackupInv
  <2> QED BY <1>1, <2>1, <2>2 DEF BackupInv, Target
<1>7. BaseInv'
  <2>1. status # "absent" BY <1>1 DEF LoopInv
  <2>2. ASSUME NEW j \in left', kinds[Queue[j]] = {}
        PROVE  files'[PathOf[Queue[j]]] = Base[Queue[j]] \/ Target(j) \in slipped
    <3>1. j \in left /\ j # i /\ j \in Positions BY <1>1, <1>2
    <3>2. SeenBase(j) BY <1>1, <3>1 DEF Running, BaseInv
    <3>3. Queue[j] # Queue[i] BY <3>1, QueueFacts
    <3>4. Target(j) # Target(i) BY <2>1, <2>2, <3>1, <3>3, QueueFacts DEF ReportInv, Target
    <3> QED BY <1>4, <2>2, <3>1, <3>2, <3>4, QueueFacts DEF SeenBase, Current, Target
  <2>3. \A j \in left' : SeenBase(j)' BY <1>1, <2>2 DEF SeenBase, Current, Target
  <2> QED BY <1>1, <2>3 DEF BaseInv
<1>8. WrittenInv'
  <2> SUFFICES ASSUME NEW x \in Paths \ late
               PROVE  /\ (\A j \in Done' : Target(j) # x) => files'[x] = before[x]
                      /\ (\E j \in Done' : Target(j) = x) =>
                           \E j \in Done' : /\ Target(j) = x
                                            /\ \A l \in Done' : Target(l) = x => l <= j
                                            /\ files'[x] = Written(Queue[j])
    <3>1. \A j : Written(Queue[j])' = Written(Queue[j]) BY <1>1, SameWritten
    <3> QED BY <1>1, <3>1 DEF WrittenInv, Latest, Target
  <2>1. CASE x = Target(i)
    <3>1. \A l \in Done' : l <= i
      <4>1. \A l \in Done : l < i /\ l \in Nat BY <1>2, <1>3, QueueFacts DEF LoopInv, Done
      <4> QED BY <1>2, <1>3, <4>1, QueueFacts
    <3> QED BY <1>3, <1>4, <2>1, <3>1
  <2>2. CASE x # Target(i)
    <3>1. files'[x] = files[x] BY <1>4, <2>2
    <3>2. (\A j \in Done : Target(j) # x) => files[x] = before[x]
      BY <1>1 DEF Running, WrittenInv
    <3>3. (\E j \in Done : Target(j) = x) => \E j \in Done : Latest(x, j) /\ files[x] = Written(Queue[j])
      BY <1>1 DEF Running, WrittenInv
    <3> QED BY <1>3, <2>2, <3>1, <3>2, <3>3 DEF Latest
  <2> QED BY <2>1, <2>2
<1> QED BY <1>6, <1>7, <1>8 DEF Running

LEMMA FailRuns == ASSUME Running, WriteFails PROVE Running'
  BY DEF Running, WriteFails, BackupInv, BaseInv, WrittenInv, ghostVars

LEMMA RestoreRuns == ASSUME TypeOK, Running, NEW x \in Paths, Restore(x) PROVE Running'
<1>1. /\ pc = "undo" /\ pc' = "undo" /\ backups[x] # "unset"
      /\ UNCHANGED <<before, late>>
      /\ \A y \in Paths : files'[y] = IF y = x THEN backups[x] ELSE files[y]
      /\ \A y \in Paths : backups'[y] = IF y = x THEN "unset" ELSE backups[y]
  BY DEF Restore, ghostVars, TypeOK
<1>2. \A y \in Paths \ late :
        IF backups'[y] = "unset" THEN files'[y] = before[y] ELSE backups'[y] = before[y]
  BY <1>1 DEF Running, BackupInv
<1> QED BY <1>1, <1>2 DEF Running, BackupInv, BaseInv, WrittenInv

\* Another program's edit: of a file without a backup it is part of "before".
LEMMA EditRuns ==
  ASSUME TypeOK, Running, NEW x \in Paths, NEW c \in {None, "old", "user"}, Edit(x, c)
  PROVE Running'
<1>1. /\ UNCHANGED <<pc, ops, left, backups, kinds, choice>>
      /\ slipped' = slipped \cup {x}
      /\ \A y \in Paths : files'[y] = IF y = x THEN c ELSE files[y]
      /\ \A y \in Paths : before'[y] = IF y = x THEN c ELSE before[y]
      /\ late' = IF backups[x] # "unset" THEN late \cup {x} ELSE late
  BY DEF Edit, reportVars, applyVars, TypeOK
<1>2. Done' = Done /\ left \subseteq ops /\ ops \subseteq Positions BY <1>1 DEF Done, TypeOK
<1>3. BackupInv'
  <2>1. pc # "idle" => \A y \in Paths \ late' :
          IF backups'[y] = "unset" THEN files'[y] = before'[y] ELSE backups'[y] = before'[y]
    BY <1>1 DEF Running, BackupInv
  <2> QED BY <1>1, <1>2, <2>1 DEF Running, BackupInv, Target, First, NoBackups
<1>4. BaseInv'
  <2>1. \A i \in Positions : SeenBase(i) => SeenBase(i)'
    BY <1>1, QueueFacts DEF SeenBase, Current, Target
  <2> QED BY <1>1, <1>2, <2>1 DEF Running, BaseInv, Done
<1>5. WrittenInv'
  <2> SUFFICES ASSUME pc \in {"backup", "write"}, NEW y \in Paths \ late'
               PROVE  /\ (\A j \in Done : Target(j) # y) => files'[y] = before'[y]
                      /\ (\E j \in Done : Target(j) = y) =>
                           \E j \in Done : Latest(y, j) /\ files'[y] = Written(Queue[j])
    BY <1>1, <1>2, SameWritten DEF WrittenInv, Target
  <2>1. y \in Paths \ late BY <1>1
  <2>2. /\ (\A j \in Done : Target(j) # y) => files[y] = before[y]
        /\ (\E j \in Done : Target(j) = y) =>
             \E j \in Done : Latest(y, j) /\ files[y] = Written(Queue[j])
    BY <2>1 DEF Running, WrittenInv
  <2>3. (\E j \in Done : Target(j) = y) => y # x
    BY <1>1 DEF Running, BackupInv
  <2> QED BY <1>1, <2>2, <2>3
<1> QED BY <1>3, <1>4, <1>5 DEF Running

LEMMA RunsHold == ASSUME TypeOK, ReportInv, LoopInv, Running, [Next]_vars PROVE Running'
<1>1. CASE UNCHANGED vars BY <1>1, SameRuns DEF vars, ghostVars
<1>2. CASE BuildReport BY <1>2, IdleRuns DEF BuildReport, applyVars
<1>3. CASE ResolveSelectedConflict
  BY <1>3, IdleRuns DEF ResolveSelectedConflict, Resolve, applyVars
<1>4. CASE ApplyCurrentSync BY <1>4, BeginRuns DEF ApplyCurrentSync
<1>5. ASSUME NEW i \in Positions, CheckBase(i) PROVE Running'
  BY <1>5, CheckRuns, IdleRuns DEF Over
<1>6. ASSUME NEW i \in Positions, Backup(i) PROVE Running' BY <1>6, BackupRuns
<1>7. ASSUME NEW i \in Positions, Write(i) PROVE Running' BY <1>7, WriteRuns
<1>8. CASE Checked BY <1>8, CheckedRuns
<1>9. CASE WriteFails BY <1>9, FailRuns
<1>10. CASE Save \/ Restored \/ Crash
  BY <1>10, IdleRuns DEF Save, Restored, Crash, Over
<1>11. CASE \E x \in Paths : Restore(x) BY <1>11, RestoreRuns
<1>12. CASE \E x \in Paths : \E c \in {None, "old", "user"} : Edit(x, c) BY <1>12, EditRuns
<1> QED BY <1>1, <1>2, <1>3, <1>4, <1>5, <1>6, <1>7, <1>8, <1>9, <1>10, <1>11, <1>12
        DEF Next, User, Apply

-----------------------------------------------------------------------------
LEMMA NextHolds == ASSUME IInv, [Next]_vars PROVE IInv'
<1>1. TypeOK' /\ ReportInv' /\ LoopInv' BY TypesHold, ReportHolds, LoopHolds DEF IInv
<1>2. Running' BY RunsHold DEF IInv, Running
<1> QED BY <1>1, <1>2 DEF IInv, Running

(* The report, the loops, the backups and the files agree in every state   *)
(* of the resolver, with any number of patches, edits and decisions.       *)
THEOREM SyncHolds == Spec => []IInv
<1>1. Init => IInv BY InitHolds
<1>2. IInv /\ [Next]_vars => IInv' BY NextHolds
<1> QED BY <1>1, <1>2, PTL DEF Spec

(* A stored report always passes its own validation, and every variable    *)
(* has its type (SyncReport, apply_sync_report).                           *)
THEOREM SyncTypeCorrect == Spec => []TypeOK
<1>1. IInv => TypeOK BY DEF IInv
<1> QED BY <1>1, SyncHolds, PTL

(* An application that fails half-way leaves every file as it would be     *)
(* without it, whatever order the backups are written back in and however  *)
(* many patches share a file (apply_sync_report, its except branch).       *)
THEOREM FailureRestoresHolds == Spec => []FailureRestores
<1>1. IInv => FailureRestores
  BY StartFacts DEF IInv, BackupInv, FailureRestores
<1> QED BY <1>1, SyncHolds, PTL

(* A patch nobody decided anything about replaces the file its agent saw,  *)
(* unless it was edited after the second look (apply_sync_report).         *)
THEOREM BaseReplacedHolds == Spec => []BaseReplaced
<1>1. IInv => BaseReplaced
  BY DEF IInv, BaseInv, SeenBase, BaseReplaced
<1> QED BY <1>1, SyncHolds, PTL

\* The greatest operation done for a file is the one CHOOSE finds.
LEMMA LastIsLatest ==
  ASSUME IInv, pc = "backup", left = {}, NEW x \in Paths, NEW i \in Done, Latest(x, i)
  PROVE  LastFor(x) = i
<1> DEFINE Last(j) == /\ Target(j) = x /\ ~Kept(Queue[j])
                      /\ \A l \in Positions : l > j /\ Target(l) = x => Kept(Queue[l])
<1>1. Done = {j \in Positions : ~Kept(Queue[j])} BY DEF IInv, LoopInv, Done
<1>2. i \in Positions /\ Last(i)
  BY <1>1, QueueFacts DEF Latest
<1>3. \A j \in Positions : Last(j) => j = i
  BY <1>1, <1>2, QueueFacts
<1>4. LastFor(x) = CHOOSE j \in Positions : Last(j) BY DEF LastFor
<1> HIDE DEF Last
<1> QED BY <1>2, <1>3, <1>4

(* When the last operation is through, each file is what the decisions and *)
(* the order of the queue make it (resolve_sync_conflict,                  *)
(* apply_sync_report).                                                     *)
THEOREM AppliedAsDecidedHolds == Spec => []AppliedAsDecided
<1>1. ASSUME IInv PROVE AppliedAsDecided
  <2> SUFFICES ASSUME pc = "backup", left = {}, NEW x \in Paths \ late
               PROVE  files[x] = IF \E p \in Patches : PathOf[p] = x /\ ~Kept(p)
                                 THEN Written(Queue[LastFor(x)]) ELSE before[x]
    BY DEF AppliedAsDecided, Written
  <2>1. Done = {j \in Positions : ~Kept(Queue[j])} BY <1>1 DEF IInv, LoopInv, Done
  <2>2. (\E p \in Patches : PathOf[p] = x /\ ~Kept(p)) <=> \E j \in Done : Target(j) = x
    BY <2>1, QueueFacts DEF Target
  <2>3. CASE \E j \in Done : Target(j) = x
    <3>1. PICK i \in Done : Latest(x, i) /\ files[x] = Written(Queue[i])
      BY <1>1, <2>3 DEF IInv, WrittenInv
    <3>2. LastFor(x) = i BY <1>1, <3>1, LastIsLatest
    <3> QED BY <2>2, <2>3, <3>1, <3>2
  <2>4. CASE ~ \E j \in Done : Target(j) = x
    BY <1>1, <2>2, <2>4 DEF IInv, WrittenInv
  <2> QED BY <2>3, <2>4
<1> QED BY <1>1, SyncHolds, PTL
=============================================================================
