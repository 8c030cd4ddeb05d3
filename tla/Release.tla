------------------------------ MODULE Release -------------------------------
(***************************************************************************)
(* The release of one version: release_builder.py, artifact_index.py,      *)
(* release_tag.py, release_guard.py, github_release_publisher.py and       *)
(* release_pipeline.py.  Builders fill dist/<version>, a maintainer tags   *)
(* and indexes, runs of the pipeline publish to GitHub, and commits,       *)
(* pushes, CI runs and edits go on meanwhile.  Nothing is locked.          *)
(*                                                                         *)
(* The history of main is linear, a commit is its number, the local branch *)
(* is main.  The content of a file is who wrote it and for which time; all *)
(* contents are taken to have one size.                                    *)
(***************************************************************************)
EXTENDS Naturals

CONSTANTS
  Builders,     \* runs of build_release()
  Publishers,   \* runs of publish_release_pipeline()
  MaxCommits,   \* bound: commits of main
  MaxFileEdits,     \* bound: edits of released files
  MaxFaults     \* bound: requests that fail, replies that are lost, deaths

ASSUME ReleaseAssumption ==
  /\ MaxCommits \in Nat \ {0} /\ MaxFileEdits \in Nat /\ MaxFaults \in Nat
  /\ \A x \in Builders \cup Publishers : x \notin {"none", "edited", "directory"}

\* "archive" stands for all that build_release() writes before its index.
ReleaseFiles   == {"archive", "artifacts.json"}
Commits == 1..MaxCommits

VARIABLES
  head, dirty,   \* the local repository: HEAD, and whether git status lists anything
  tag, tagging,  \* the local tag, 0 for none; whether its push is due
  main,          \* GitHub: its main
  rtag,          \* GitHub: the tag, and whether it was pushed or made with a release
  release,       \* GitHub: the release of the tag and the run that made it
  build,         \* per builder: its place and its staging directory
  dir,           \* dist/<version>
  index,         \* "built": its artifacts.json; "directory": an index made over it later
  run,           \* per publisher: its place and its local variables
  server,        \* GitHub: what it leaves out of its answers
  bounds,        \* edits and faults so far
  passed,        \* history: commits whose CI run a guard saw to have succeeded
  stranded       \* history: runs that died, whose create reply was lost or whose DELETE failed

local  == <<head, dirty, tag, tagging>>
github == <<main, rtag, release>>
disk   == <<build, dir, index>>
releaseVars   == <<local, github, disk, run, server, bounds, passed, stranded>>

Nothing   == <<"none", 0>>
Empty     == [f \in ReleaseFiles |-> Nothing]
NoTag     == [commit |-> 0, pushed |-> FALSE]
NoRelease == [by |-> "none", commit |-> 0, pushed |-> FALSE, assets |-> Empty]
NoIndex   == [root |-> "none", entries |-> Empty]

Exists(d) == d # Empty

-----------------------------------------------------------------------------
(* build_release()                                                         *)

At(b, place, staging) == build' = [build EXCEPT ![b] = [pc |-> place, staging |-> staging]]

BeginBuild(b) ==
  /\ build[b].pc = "idle" /\ ~Exists(dir) /\ At(b, "archive", Empty)
  /\ UNCHANGED <<local, github, dir, index, run, server, bounds, passed, stranded>>

\* Archive, checksum and notes; then a first index of them, and the manifest.
WriteArchive(b) ==
  /\ build[b].pc = "archive"
  /\ At(b, "index", [f \in ReleaseFiles |-> <<b, 1>>])
  /\ UNCHANGED <<local, github, dir, index, run, server, bounds, passed, stranded>>

\* The last index, which lists its own file as the first index left it.
FinalIndex(b) == [root |-> b, entries |-> [f \in ReleaseFiles |-> <<b, 1>>]]

WriteIndex(b) ==
  /\ build[b].pc = "index"
  /\ At(b, "replace", [build[b].staging EXCEPT !["artifacts.json"] = <<b, 2>>])
  /\ UNCHANGED <<local, github, dir, index, run, server, bounds, passed, stranded>>

\* os.replace() raises when another build has filled the directory meanwhile.
Replace(b) ==
  /\ build[b].pc = "replace" /\ At(b, "done", Empty)
  /\ IF Exists(dir) THEN UNCHANGED <<dir, index>>
     ELSE /\ dir' = build[b].staging
          /\ index' = [index EXCEPT !["built"] = FinalIndex(b)]
  /\ UNCHANGED <<local, github, run, server, bounds, passed, stranded>>

\* Any exception removes the staging directory.
BuildRaises(b) ==
  /\ build[b].pc \in {"archive", "index"} /\ At(b, "done", Empty)
  /\ UNCHANGED <<local, github, dir, index, run, server, bounds, passed, stranded>>

-----------------------------------------------------------------------------
(* artifact_index.py                                                       *)

\* build_artifact_index() over the release directory.
IndexDirectory ==
  /\ Exists(dir) /\ index["directory"].entries # dir
  /\ index' = [index EXCEPT !["directory"] = [root |-> "directory", entries |-> dir]]
  /\ UNCHANGED <<local, github, build, dir, run, server, bounds, passed, stranded>>

\* What lies under an artifact_root now.
Under(root) == IF root = "directory" THEN dir ELSE build[root].staging

\* verify_artifact_index() finds no issue.
Verifies(i) == Under(i.root) = i.entries

-----------------------------------------------------------------------------
(* create_controlled_tag(), with or without push.                          *)

CreateTag ==
  /\ ~dirty /\ tag = 0
  /\ tag' = head /\ tagging' \in BOOLEAN
  /\ UNCHANGED <<head, dirty, github, disk, run, server, bounds, passed, stranded>>

\* git push refuses when GitHub has the tag.  A push that failed is not tried
\* again: the tag is an "existing" one then.
PushTag ==
  /\ tagging /\ tagging' = FALSE
  /\ \/ rtag = NoTag /\ rtag' = [commit |-> tag, pushed |-> TRUE]
     \/ UNCHANGED rtag
  /\ UNCHANGED <<head, dirty, tag, main, release, disk, run, server, bounds, passed, stranded>>

-----------------------------------------------------------------------------
(* guard_release()                                                         *)

Goto(p, place) == run' = [run EXCEPT ![p].pc = place]

\* A request, or its answer, that is lost.
Fault == bounds.faults < MaxFaults /\ bounds' = [bounds EXCEPT !.faults = @ + 1]

Elsewhere == UNCHANGED <<local, main, disk, server, passed>>
Readonly  == Elsewhere /\ UNCHANGED <<rtag, release, stranded>>

Load(p) ==
  /\ run[p].pc = "idle"
  /\ \E x \in DOMAIN index :
       /\ index[x] # NoIndex
       /\ run' = [run EXCEPT ![p].pc = "clean", ![p].index = index[x]]
  /\ Readonly /\ UNCHANGED bounds

GuardClean(p) ==
  /\ run[p].pc = "clean" /\ Goto(p, IF dirty THEN "failed" ELSE "tag")
  /\ Readonly /\ UNCHANGED bounds

\* Fault: the tag has to exist, no more.
GuardTagExists(p) ==
  /\ run[p].pc = "tag"
  /\ run' = [run EXCEPT ![p].pc = IF tag # 0 THEN "artifacts" ELSE "failed", ![p].commit = head]
  /\ Readonly /\ UNCHANGED bounds

\* The local tag points to HEAD.
GuardTag(p) ==
  /\ run[p].pc = "tag"
  /\ run' = [run EXCEPT ![p].pc = IF tag = head THEN "artifacts" ELSE "failed", ![p].commit = head]
  /\ Readonly /\ UNCHANGED bounds

GuardArtifacts(p) ==
  /\ run[p].pc = "artifacts" /\ Goto(p, IF Verifies(run[p].index) THEN "ci" ELSE "failed")
  /\ Readonly /\ UNCHANGED bounds

\* verify_github_ci(): the last completed run of a commit that was pushed.
GuardCI(p) ==
  /\ run[p].pc = "ci"
  /\ \/ /\ run[p].commit <= main /\ Goto(p, "verify")
        /\ passed' = passed \cup {run[p].commit} /\ UNCHANGED bounds
     \/ Goto(p, "failed") /\ UNCHANGED <<bounds, passed>>
     \/ Goto(p, "failed") /\ Fault /\ UNCHANGED passed
  /\ UNCHANGED <<local, github, disk, server, stranded>>

-----------------------------------------------------------------------------
(* publish_github_release() and the rollback of publish_release_pipeline() *)

VerifyAgain(p) ==
  /\ run[p].pc = "verify" /\ Goto(p, IF Verifies(run[p].index) THEN "create" ELSE "failed")
  /\ Readonly /\ UNCHANGED bounds

\* POST of the release: GitHub refuses the second one of a tag, and makes a
\* missing tag at target_commitish, its main.
Create(p) ==
  LET made == IF rtag = NoTag THEN [commit |-> main, pushed |-> FALSE] ELSE rtag IN
  /\ run[p].pc = "create"
  /\ \/ /\ release # NoRelease /\ Goto(p, "failed")
        /\ UNCHANGED <<rtag, release, bounds, stranded>>
     \/ /\ Goto(p, "failed") /\ Fault /\ UNCHANGED <<rtag, release, stranded>>
     \/ /\ release = NoRelease /\ rtag' = made
        /\ release' = [by |-> p, commit |-> made.commit, pushed |-> made.pushed, assets |-> Empty]
        /\ \/ Goto(p, "archive") /\ UNCHANGED <<bounds, stranded>>
           \/ Goto(p, "failed") /\ Fault /\ stranded' = stranded \cup {p}
  /\ Elsewhere

\* Fault: a run whose upload fails ends there.
UploadUntracked(p) ==
  /\ \E f \in ReleaseFiles :
       /\ run[p].pc = f
       /\ \/ /\ release' = [release EXCEPT !.assets[f] = dir[f]]
             /\ Goto(p, IF f = "archive" THEN "artifacts.json" ELSE "list") /\ UNCHANGED bounds
          \/ Goto(p, "failed") /\ Fault /\ UNCHANGED release
  /\ Elsewhere /\ UNCHANGED <<rtag, stranded>>

\* One entry after the other, each file as it is then.
Upload(p) ==
  /\ \E f \in ReleaseFiles :
       /\ run[p].pc = f
       /\ \/ /\ release' = [release EXCEPT !.assets[f] = dir[f]]
             /\ \/ Goto(p, IF f = "archive" THEN "artifacts.json" ELSE "list") /\ UNCHANGED bounds
                \/ Goto(p, "delete") /\ Fault
          \/ Goto(p, "delete") /\ Fault /\ UNCHANGED release
  /\ Elsewhere /\ UNCHANGED <<rtag, stranded>>

\* Fault: only the sizes of the assets are compared.
ListSizes(p) ==
  /\ run[p].pc = "list"
  /\ \/ Goto(p, "published") /\ UNCHANGED bounds
     \/ Goto(p, "delete") /\ Fault
  /\ Readonly

\* The assets GitHub lists against the index, by their digests if it gives them.
List(p) ==
  /\ run[p].pc = "list"
  /\ \/ /\ Goto(p, IF server.digests /\ release.assets # run[p].index.entries
                   THEN "delete" ELSE "published")
        /\ UNCHANGED bounds
     \/ Goto(p, "delete") /\ Fault
  /\ Readonly

\* A DELETE that is answered by an empty body has its effect and raises.
DeleteRelease(p) ==
  /\ run[p].pc = "delete"
  /\ \/ /\ release' = NoRelease /\ Goto(p, IF server.empty THEN "failed" ELSE "untag")
        /\ UNCHANGED <<bounds, stranded>>
     \/ release' = NoRelease /\ Goto(p, "failed") /\ Fault /\ UNCHANGED stranded
     \/ Goto(p, "failed") /\ Fault /\ stranded' = stranded \cup {p} /\ UNCHANGED release
  /\ Elsewhere /\ UNCHANGED rtag

\* The tag by its name; then the record of the rollback is saved.
DeleteTag(p) ==
  /\ run[p].pc = "untag"
  /\ \/ rtag' = NoTag /\ Goto(p, "rolled back") /\ UNCHANGED bounds
     \/ rtag' \in {rtag, NoTag} /\ Goto(p, "failed") /\ Fault
  /\ Elsewhere /\ UNCHANGED <<release, stranded>>

Ended == {"idle", "failed", "published", "rolled back", "dead"}

Die(p) ==
  /\ run[p].pc \notin Ended /\ Goto(p, "dead") /\ Fault
  /\ stranded' = IF release.by = p THEN stranded \cup {p} ELSE stranded
  /\ Elsewhere /\ UNCHANGED <<rtag, release>>

-----------------------------------------------------------------------------
(* Other people, Git and GitHub Actions.                                   *)

Commit ==
  /\ main <= head /\ head < MaxCommits
  /\ head' = head + 1 /\ dirty' = FALSE
  /\ UNCHANGED <<tag, tagging, github, disk, run, server, bounds, passed, stranded>>

Touch ==
  /\ ~dirty /\ dirty' = TRUE
  /\ UNCHANGED <<head, tag, tagging, github, disk, run, server, bounds, passed, stranded>>

Pull ==
  /\ head < main /\ ~dirty /\ head' = main
  /\ UNCHANGED <<dirty, tag, tagging, github, disk, run, server, bounds, passed, stranded>>

\* From here, or from elsewhere.
Push ==
  /\ \/ main < head /\ main' = head
     \/ head <= main /\ main < MaxCommits /\ main' = main + 1
  /\ UNCHANGED <<local, rtag, release, disk, run, server, bounds, passed, stranded>>

\* A released file is rewritten by hand.
EditFile(f) ==
  /\ Exists(dir) /\ bounds.edits < MaxFileEdits
  /\ dir' = [dir EXCEPT ![f] = <<"edited", bounds.edits>>]
  /\ bounds' = [bounds EXCEPT !.edits = @ + 1]
  /\ UNCHANGED <<local, github, build, index, run, server, passed, stranded>>

-----------------------------------------------------------------------------
ReleaseInit ==
  /\ head = 1 /\ main = 1 /\ dirty = FALSE /\ tag = 0 /\ tagging = FALSE
  /\ rtag = NoTag /\ release = NoRelease
  /\ build = [b \in Builders |-> [pc |-> "idle", staging |-> Empty]] /\ dir = Empty
  /\ index = [x \in {"built", "directory"} |-> NoIndex]
  /\ run = [p \in Publishers |-> [pc |-> "idle", index |-> NoIndex, commit |-> 0]]
  /\ server \in [empty : BOOLEAN, digests : BOOLEAN]
  /\ bounds = [edits |-> 0, faults |-> 0]
  /\ passed = {} /\ stranded = {}

Build(b) == BeginBuild(b) \/ WriteArchive(b) \/ WriteIndex(b) \/ Replace(b) \/ BuildRaises(b)

Guard(p) == Load(p) \/ GuardClean(p) \/ GuardTag(p) \/ GuardArtifacts(p) \/ GuardCI(p)

Publish(p) ==
  \/ VerifyAgain(p) \/ Create(p) \/ Upload(p) \/ List(p)
  \/ DeleteRelease(p) \/ DeleteTag(p) \/ Die(p)

Environment ==
  \/ Commit \/ Touch \/ Pull \/ Push
  \/ \E f \in ReleaseFiles : EditFile(f)

ReleaseNext ==
  \/ \E b \in Builders : Build(b)
  \/ \E p \in Publishers : Guard(p) \/ Publish(p)
  \/ IndexDirectory \/ CreateTag \/ PushTag \/ Environment

ReleaseSpec == ReleaseInit /\ [][ReleaseNext]_releaseVars

-----------------------------------------------------------------------------
\* Every variable has its type.
ReleaseTypeOK ==
  /\ head \in Commits /\ main \in Commits /\ dirty \in BOOLEAN
  /\ tag \in 0..MaxCommits /\ tagging \in BOOLEAN
  /\ rtag \in [commit : 0..MaxCommits, pushed : BOOLEAN]
  /\ release.by \in Publishers \cup {"none"} /\ release.commit \in 0..MaxCommits
  /\ \A b \in Builders : build[b].pc \in {"idle", "archive", "index", "replace", "done"}
  /\ \A p \in Publishers :
       /\ run[p].pc \in Ended \cup ReleaseFiles \cup {"clean", "tag", "artifacts", "ci", "verify", "create",
                                               "list", "delete", "untag"}
       /\ run[p].commit \in 0..MaxCommits
  /\ bounds.edits \in 0..MaxFileEdits /\ bounds.faults \in 0..MaxFaults
  /\ passed \subseteq Commits /\ stranded \subseteq Publishers

(* A run that reports "published" has published what the index says it     *)
(* verified, whatever was edited between verifying, uploading and listing, *)
(* as long as GitHub gives digests ("all artifacts still match size and    *)
(* SHA-256", docs/release-manager-v1.md); and whoever pushes, commits and  *)
(* tags meanwhile, a release of a tag that was pushed is of the commit its *)
(* run saw at HEAD and pass CI.                                            *)
PublishedAsGuarded ==
  /\ \A p \in Publishers : run[p].pc = "published" /\ server.digests =>
       release.by = p /\ release.assets = run[p].index.entries
  /\ release.pushed => release.commit = run[release.by].commit /\ release.commit \in passed

(* A run that is over leaves a release on GitHub only if it published it,  *)
(* or could not know of it, or could not delete it ("if GitHub creates the *)
(* Release but asset publication fails: the incomplete Release is          *)
(* deleted").                                                              *)
FailedLeavesNothing ==
  \A p \in Publishers : release.by = p /\ run[p].pc \in Ended =>
    run[p].pc = "published" \/ p \in stranded
=============================================================================
