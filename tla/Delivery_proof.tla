--------------------------- MODULE Delivery_proof ----------------------------
EXTENDS Delivery, TLAPS

-----------------------------------------------------------------------------
(* Types.                                                                  *)

Outcomes      == {"none", "completed", "failed"}
Verifications == [status : {"none", "pass", "fail"}, of : Trees]
Reviews       == [id : 0..MaxRuns, rev : Nat, sha : Trees, decision : [Files -> Decisions]]
Exports       == [exists : BOOLEAN, tree : Trees]
Manifests     == [run : Outcomes, verification : Verifications, review : 0..MaxRuns]
Bases         == [set : BOOLEAN, rev : Nat, tree : Trees]

Sessions ==
  [ticket : Tickets \cup {NoTicket}, run : Outcomes, verification : Verifications,
   review : Reviews, export : Exports]

Workers ==
  [pc : {"idle", "agents", "reset", "verify", "capture", "finish"}, ticket : Tickets \cup {NoTicket},
   todo : SUBSET Files, seen : Trees, verification : Verifications]

\* Where a request that decides may be.
Deciding == {"files", "restore", "save", "show", "verify"}

Handlers ==
  [pc : {"idle", "zip"} \cup Deciding, decision : {"none", "accepted", "reverted"}, todo : SUBSET Files,
   report : Reviews, loaded : Reviews, taken : SUBSET Files, seen : Trees]

GitTypes ==
  /\ tree \in Trees /\ head \in Trees /\ rev \in Nat /\ commits \in Nat /\ base \in Bases

StoreTypes ==
  /\ reviews \in [1..MaxRuns -> Reviews] /\ manifest \in [Tickets -> Manifests]
  /\ releases \in [Tickets -> Exports]

LocalTypes ==
  /\ shown \in Sessions /\ worker \in Workers /\ handler \in [Requests -> Handlers]
  /\ runs \in 0..MaxRuns

-----------------------------------------------------------------------------
(* What holds as long as nothing let evidence and files drift apart.       *)

\* Nobody need judge a file with this content: it was imported or accepted.
Judged(f, c) == c = Baseline[f] \/ <<f, c>> \in accepted

Settled(decision) == decision \in {"accepted", "reverted"}

\* A review that is held outside the store is the stored one, or an earlier
\* state of it.
Holds(report) ==
  LET stored == reviews[report.id] IN
  /\ report.id \in 1..MaxRuns /\ stored.id = report.id /\ stored.rev = report.rev /\ stored.sha = report.sha
  /\ \A f \in Files :
       /\ report.decision[f] = "none" <=> stored.decision[f] = "none"
       /\ Settled(report.decision[f]) => stored.decision[f] = report.decision[f]

ReviewsStored ==
  \A i \in 1..MaxRuns :
    /\ reviews[i].id \in {0, i} /\ (reviews[i].id = 0 => reviews[i] = NoReview)
    /\ reviews[i].id = i => i <= runs /\ reviews[i].rev <= commits
    /\ \A f \in Files : reviews[i].decision[f] = "accepted" => <<f, reviews[i].sha[f]>> \in accepted

\* While an attempt is carried forward, it is the base that holds what was
\* judged, and no review was captured at the commit HEAD is.
HeadJudged ==
  /\ rev <= commits /\ base.rev <= commits
  /\ \A f \in Files : IF base.set THEN Judged(f, base.tree[f]) ELSE Judged(f, head[f])
  /\ base.set => \A i \in 1..MaxRuns : reviews[i].id # 0 => reviews[i].rev # rev

\* A verification that passed saw the files of the review, the accepted ones
\* as they were captured and the others as they are.
Fits(v, review) ==
  v.status = "pass" =>
    /\ v.of \in verified
    /\ \A f \in Files : v.of[f] = IF review.decision[f] = "accepted" THEN review.sha[f] ELSE tree[f]

\* A file that need not be decided, or was reverted, is as it was judged.
Rests(review) ==
  \A f \in Files : review.decision[f] \in {"none", "reverted"} => Judged(f, tree[f])

Reverting == \E r \in Requests : handler[r].decision = "reverted"

\* The ticket of the latest run, whether it is the one that is open, and the
\* review its manifest names.
Last   == worker.ticket
Opened == shown.ticket = Last
Latest == reviews[manifest[Last].review]

\* There is a review of a completed run to export from.
Evidence == ~Running /\ Last \in Tickets /\ manifest[Last].run # "failed" /\ manifest[Last].review # 0

EvidenceKept ==
  Evidence =>
    /\ manifest[Last].run = "completed"
    /\ Rests(Latest)
    /\ ~Reverting => Fits(manifest[Last].verification, Latest)

\* What is shown of that ticket is what its manifest says; only the decisions
\* may lag behind, and files decided since are as they were captured.
EvidenceShown ==
  Evidence /\ Opened =>
    /\ shown.run = "completed" /\ shown.review.id = manifest[Last].review
    /\ ~Reverting => shown.verification = manifest[Last].verification
    /\ \A f \in Files : Latest.decision[f] = "accepted" /\ shown.review.decision[f] # "accepted"
                          => tree[f] = Latest.sha[f]

SessionLinked ==
  /\ shown.review.id # 0 => Holds(shown.review) /\ Opened /\ Last \in Tickets
  /\ shown.review.id = 0 => shown.review = NoReview
  /\ shown.ticket \in Tickets /\ ~Opened => manifest[shown.ticket] = NoManifest
  /\ ~Running /\ shown.run # "failed" /\ shown.review.id # 0 => Evidence
  /\ Last \in Tickets /\ manifest[Last].review # 0 => Latest.id = manifest[Last].review

\* The stages of the worker.
RunAtWork ==
  Running =>
    /\ Opened /\ Last \in Tickets /\ manifest[Last] = NoManifest /\ runs \in 1..MaxRuns
    /\ \A r \in Requests : handler[r] = Idle
    /\ worker.pc # "finish" => reviews[runs] = NoReview
    /\ worker.pc # "agents" => shown.run = "completed"
    /\ worker.pc \in {"verify", "capture"} => worker.seen = tree /\ ~base.set
    /\ worker.pc = "capture" =>
         worker.verification.of = tree /\ (worker.verification.status = "pass" => tree \in verified)
    /\ worker.pc = "finish" =>
         /\ shown.verification = worker.verification /\ shown.review = reviews[runs] /\ reviews[runs].id = runs
         /\ Fits(worker.verification, reviews[runs]) /\ Rests(reviews[runs])

\* The file a request has taken, until its decision is stored.
Takes(h) ==
  /\ h.loaded = reviews[h.report.id] /\ h.loaded.rev = rev
  /\ \E f \in Files : h.taken = {f} /\ h.loaded.decision[f] = "pending"
  /\ h.pc = "save" => \A f \in h.taken :
       IF h.decision = "accepted" THEN tree[f] = h.loaded.sha[f] ELSE Judged(f, tree[f])

\* The stages of a request that decides.
Decides(h) ==
  /\ h.decision \in {"accepted", "reverted"} /\ shown.review.id # 0
  /\ Holds(h.report) /\ h.report.id = shown.review.id
  /\ \A f \in Files : Settled(shown.review.decision[f]) => h.report.decision[f] = shown.review.decision[f]
  /\ h.pc \in {"restore", "save"} => Takes(h)
  /\ h.pc = "restore" => h.decision = "reverted"
  /\ h.pc = "verify" =>
       h.decision = "reverted" /\ h.seen = tree /\ shown.review = h.report /\ Drifted(h.report) = {}

RequestAtWork ==
  \A r \in Requests :
    /\ handler[r].pc = "idle" => handler[r] = Idle
    /\ handler[r].pc # "idle" => ~Running /\ \A q \in Requests \ {r} : handler[q] = Idle
    /\ handler[r].pc = "zip" => handler[r].decision = "none" /\ Ready
    /\ handler[r].pc \in Deciding => Decides(handler[r])

ExportsJudged == \A d \in delivered : d \in verified /\ \A f \in Files : Judged(f, d[f])

Clean ==
  /\ GitTypes /\ StoreTypes /\ LocalTypes
  /\ ReviewsStored /\ HeadJudged /\ EvidenceKept /\ EvidenceShown /\ SessionLinked
  /\ RunAtWork /\ RequestAtWork /\ ExportsJudged

DeliveryInv == damage = {} => Clean

-----------------------------------------------------------------------------
(* Lemmas about the operators.                                             *)

LEMMA NothingTypes ==
  /\ NoReview \in Reviews /\ NoVerification \in Verifications /\ NoExport \in Exports
  /\ NoManifest \in Manifests /\ NoBase \in Bases /\ Idle \in Handlers
  /\ \A t \in Tickets \cup {NoTicket} : Resting(t) \in Workers
  <1>1. NoReview \in Reviews /\ NoVerification \in Verifications /\ NoExport \in Exports /\ NoBase \in Bases
    BY DeliveryAssumption DEF NoReview, NoVerification, NoExport, NoBase, Reviews, Verifications, Exports,
       Bases, Decisions
  <1>2. NoManifest \in Manifests
    BY <1>1, DeliveryAssumption DEF NoManifest, Manifests, Outcomes
  <1>3. Idle \in Handlers
    BY <1>1, DeliveryAssumption DEF Idle, Handlers, Deciding
  <1>4. ASSUME NEW t \in Tickets \cup {NoTicket} PROVE Resting(t) \in Workers
    BY <1>1, DeliveryAssumption DEF Resting, Workers
  <1> QED BY <1>1, <1>2, <1>3, <1>4

LEMMA SessionType ==
  ASSUME NEW t \in Tickets \cup {NoTicket}, NEW run \in Outcomes, NEW v \in Verifications,
         NEW review \in Reviews, NEW export \in Exports
  PROVE  /\ Session(t, run, v, review, export) \in Sessions
         /\ Session(t, run, v, review, export).ticket = t
         /\ Session(t, run, v, review, export).run = run
         /\ Session(t, run, v, review, export).verification = v
         /\ Session(t, run, v, review, export).review = review
  BY DEF Session, Sessions

\* The history only grows.
LEMMA DamageStays ==
  ASSUME [Next]_vars, damage' = {}
  PROVE  damage = {}
  <1>1. CASE UNCHANGED vars
    BY <1>1 DEF vars, history
  <1>2. CASE StartRun
    BY <1>2 DEF StartRun
  <1>3. CASE Worker
    BY <1>3 DEF Worker, AgentWrites, AgentsComplete, RunFails, ResetForReview, WorkerVerifies, CaptureReview,
       FinishRun, history
  <1>4. ASSUME NEW r \in Requests,
               (\E decision \in {"accepted", "reverted"}, S \in SUBSET Files : Decide(r, decision, S)) \/ Export(r)
        PROVE  damage = {}
    BY <1>4 DEF Decide, Export, Request
  <1>5. ASSUME NEW r \in Requests, Handles(r) PROVE damage = {}
    <2>1. CASE \E f \in Files : TakeFile(r, f)
      BY <2>1 DEF TakeFile
    <2>2. CASE RestoreFile(r) \/ SaveDecision(r) \/ WriteZip(r) \/ \E status \in {"pass", "fail"} : VerifyAgain(r, status)
      BY <2>2 DEF RestoreFile, SaveDecision, WriteZip, VerifyAgain, history
    <2>3. CASE CheckpointAccepted(r)
      BY <2>3 DEF CheckpointAccepted
    <2>4. CASE ShowDecisions(r)
      BY <2>4 DEF ShowDecisions
    <2>5. CASE Raise(r)
      BY <2>5 DEF Raise
    <2> QED BY <1>5, <2>1, <2>2, <2>3, <2>4, <2>5 DEF Handles
  <1>6. ASSUME NEW t \in Tickets, NewTicket(t) \/ SelectTicket(t) PROVE damage = {}
    BY <1>6 DEF NewTicket, SelectTicket
  <1>7. CASE ResumeTicket
    BY <1>7 DEF ResumeTicket
  <1>8. ASSUME NEW f \in Files, NEW c \in Contents \cup {Absent}, Edit(f, c) PROVE damage = {}
    BY <1>8 DEF Edit
  <1>9. CASE Stop
    BY <1>9 DEF Stop
  <1> QED BY <1>1, <1>2, <1>3, <1>4, <1>5, <1>6, <1>7, <1>8, <1>9 DEF Next

\* Without a request that is at work none reverts.
LEMMA RestingRequests ==
  ASSUME Clean, \A r \in Requests : handler[r].pc = "idle"
  PROVE  ~Reverting /\ \A r \in Requests : handler[r] = Idle
  <1>1. \A r \in Requests : handler[r] = Idle
    BY DEF Clean, RequestAtWork
  <1>2. Idle.decision = "none"
    BY DEF Idle
  <1> QED BY <1>1, <1>2 DEF Reverting

LEMMA NoOverlap ==
  ASSUME NEW S, Overlap(S) = {}
  PROVE  \A r \in Requests \ S : handler[r].pc = "idle"
  BY DEF Overlap

\* The file that work left in the tree is committed; the base is what was
\* judged before the first such commit.
LEMMA CarriedForward ==
  ASSUME Clean, PrepareCleanWorktree, UNCHANGED <<reviews, accepted>>
  PROVE  /\ HeadJudged' /\ commits' \in Nat /\ commits <= commits' /\ rev' \in Nat
         /\ head' \in Trees /\ base' \in Bases
  <1>0. GitTypes /\ HeadJudged /\ ReviewsStored /\ StoreTypes
    BY DEF Clean
  <1>1. CASE tree = head
    BY <1>0, <1>1 DEF PrepareCleanWorktree, git, GitTypes, HeadJudged, Judged
  <1>2. CASE tree # head
    <2>1. /\ head' = [f \in Files |-> tree[f]] /\ rev' = commits + 1 /\ commits' = commits + 1
          /\ base' = IF base.set THEN base ELSE [set |-> TRUE, rev |-> rev, tree |-> head]
      <3>1. head' = [f \in Files |-> IF f \in Files THEN tree[f] ELSE head[f]]
        BY <1>2 DEF PrepareCleanWorktree, Checkpoint
      <3> QED BY <1>2, <3>1 DEF PrepareCleanWorktree, Checkpoint
    <2>2. /\ commits' \in Nat /\ commits <= commits' /\ rev' \in Nat /\ head' \in Trees
          /\ base' \in Bases /\ base'.set = TRUE /\ base'.rev <= commits
      BY <1>0, <2>1 DEF GitTypes, HeadJudged, Trees, Bases
    <2>3. \A f \in Files : Judged(f, base.tree[f])'
      BY <1>0, <2>1 DEF GitTypes, HeadJudged, Bases, Judged
    <2>4. ASSUME NEW i \in 1..MaxRuns, reviews'[i].id # 0 PROVE reviews'[i].rev # rev'
      <3>1. reviews[i].rev <= commits /\ reviews[i].rev \in Nat
        <4>1. reviews[i].id # 0 /\ reviews[i] \in Reviews
          BY <1>0, <2>4 DEF StoreTypes
        <4> QED BY <1>0, <4>1 DEF ReviewsStored, Reviews
      <3> QED BY <1>0, <2>1, <3>1 DEF GitTypes
    <2>5. rev' <= commits' /\ base'.rev <= commits'
      BY <1>0, <2>1, <2>2 DEF GitTypes, Bases
    <2> QED BY <2>2, <2>3, <2>4, <2>5 DEF HeadJudged
  <1> QED BY <1>1, <1>2

\* The base is forgotten and HEAD is what was judged.
LEMMA BaseRestored ==
  ASSUME Clean, RestoreReviewBase, UNCHANGED <<reviews, accepted>>
  PROVE  /\ HeadJudged' /\ commits' = commits /\ rev' \in Nat /\ head' \in Trees /\ base' \in Bases
         /\ ~base'.set
  <1>0. GitTypes /\ HeadJudged
    BY DEF Clean
  <1>1. base' = NoBase /\ base' \in Bases /\ base'.set = FALSE /\ base'.rev = 0 /\ commits' = commits
    BY NothingTypes DEF RestoreReviewBase, NoBase
  <1>2. head' \in Trees /\ rev' \in Nat /\ rev' <= commits /\ \A f \in Files : Judged(f, head[f])'
    <2>1. CASE base.set
      BY <1>0, <2>1 DEF RestoreReviewBase, GitTypes, HeadJudged, Bases, Judged
    <2>2. CASE ~base.set
      BY <1>0, <2>2 DEF RestoreReviewBase, GitTypes, HeadJudged, Bases, Judged
    <2> QED BY <2>1, <2>2
  <1>3. base'.rev <= commits'
    BY <1>0, <1>1 DEF GitTypes
  <1> QED BY <1>1, <1>2, <1>3 DEF HeadJudged

LEMMA DeliveryStarts == Init => DeliveryInv
  <1> SUFFICES ASSUME Init PROVE Clean
    BY DEF DeliveryInv
  <1>1. PICK t \in Tickets : shown = Session(t, "none", NoVerification, NoReview, NoExport)
    BY DEF Init
  <1>2. /\ shown \in Sessions /\ shown.ticket = t /\ shown.run = "none" /\ shown.review = NoReview
        /\ shown.verification = NoVerification
    BY <1>1, NothingTypes, SessionType DEF Outcomes
  <1>3. worker \in Workers /\ worker.pc = "idle" /\ worker.ticket = NoTicket /\ ~Running
    BY NothingTypes DEF Init, Resting, Running
  <1>4. GitTypes /\ StoreTypes /\ LocalTypes
    BY <1>2, <1>3, NothingTypes, DeliveryAssumption DEF Init, GitTypes, StoreTypes, LocalTypes
  <1>5. ReviewsStored /\ HeadJudged
    BY DEF Init, ReviewsStored, HeadJudged, NoReview, NoBase, Judged
  <1>6. EvidenceKept /\ EvidenceShown /\ RunAtWork /\ ExportsJudged
    BY <1>3, DeliveryAssumption DEF EvidenceKept, EvidenceShown, Evidence, Last, RunAtWork, ExportsJudged, Init
  <1>7. SessionLinked
    BY <1>2, <1>3, DeliveryAssumption DEF SessionLinked, Init, NoReview, Last, Opened
  <1>8. RequestAtWork
    BY DEF Init, RequestAtWork, Idle, Deciding
  <1> QED BY <1>4, <1>5, <1>6, <1>7, <1>8 DEF Clean

-----------------------------------------------------------------------------
(* The run.                                                                *)

\* Requests rest while there is a run.
LEMMA RequestsRest ==
  ASSUME \A r \in Requests : handler'[r] = Idle
  PROVE  RequestAtWork'
  BY DEF RequestAtWork, Idle, Deciding

LEMMA NoEvidenceYet ==
  ASSUME Running'
  PROVE  EvidenceKept' /\ EvidenceShown'
  BY DEF EvidenceKept, EvidenceShown, Evidence

\* A new state of the worker is one of its states.
LEMMA WorkerTypes ==
  ASSUME worker \in Workers,
         NEW p \in {"idle", "agents", "reset", "verify", "capture", "finish"}, NEW seen \in Trees,
         NEW v \in Verifications, NEW todo \in SUBSET Files
  PROVE  /\ [worker EXCEPT !.pc = p] \in Workers /\ [worker EXCEPT !.todo = todo] \in Workers
         /\ [worker EXCEPT !.pc = p, !.seen = seen] \in Workers
         /\ [worker EXCEPT !.pc = p, !.verification = v] \in Workers
  BY DEF Workers

LEMMA StartRunStep ==
  ASSUME Clean, StartRun, damage' = {}
  PROVE  Clean'
  <1>0. /\ GitTypes /\ StoreTypes /\ LocalTypes /\ ReviewsStored /\ HeadJudged /\ SessionLinked
        /\ ExportsJudged
    BY DEF Clean
  <1>1. \A r \in Requests : handler'[r] = Idle
    <2>1. Overlap({}) = {}
      BY DEF StartRun
    <2> QED BY <2>1, NoOverlap, RestingRequests DEF StartRun
  <1>2. shown.ticket \in Tickets /\ runs < MaxRuns /\ runs' = runs + 1 /\ runs' \in 1..MaxRuns
    BY <1>0, DeliveryAssumption DEF StartRun, LocalTypes, Sessions
  <1>3. worker' \in Workers /\ worker'.pc = "agents" /\ worker'.ticket = shown.ticket
    <2>1. worker' = [Resting(shown.ticket) EXCEPT !.pc = "agents", !.todo = Files]
      BY DEF StartRun
    <2>2. Resting(shown.ticket) \in Workers /\ Resting(shown.ticket).ticket = shown.ticket
      BY <1>2, NothingTypes DEF Resting
    <2> QED BY <2>1, <2>2 DEF Workers
  <1>4. manifest' \in [Tickets -> Manifests] /\ manifest'[shown.ticket] = NoManifest
    BY <1>0, <1>2, NothingTypes DEF StartRun, StoreTypes
  <1>5. /\ HeadJudged' /\ commits' \in Nat /\ commits <= commits' /\ rev' \in Nat
        /\ head' \in Trees /\ base' \in Bases
    BY CarriedForward DEF StartRun
  <1>6. GitTypes' /\ StoreTypes' /\ LocalTypes'
    BY <1>0, <1>2, <1>3, <1>4, <1>5 DEF StartRun, GitTypes, StoreTypes, LocalTypes
  <1>7. ReviewsStored' /\ reviews'[runs'] = NoReview
    <2>1. UNCHANGED <<reviews, accepted>>
      BY DEF StartRun
    <2>2. ASSUME NEW i \in 1..MaxRuns, reviews[i].id = i PROVE i <= runs' /\ reviews[i].rev <= commits'
      <3>1. i <= runs /\ reviews[i].rev <= commits
        BY <1>0, <2>2 DEF ReviewsStored
      <3>2. reviews[i].rev \in Nat /\ runs \in Nat /\ commits \in Nat
        BY <1>0 DEF StoreTypes, Reviews, LocalTypes, GitTypes
      <3> QED BY <1>2, <1>5, <3>1, <3>2
    <2>3. reviews[runs'].id = 0
      <3>1. ~(runs' <= runs)
        BY <1>0, <1>2 DEF LocalTypes
      <3> QED BY <1>0, <1>2, <3>1 DEF ReviewsStored
    <2> QED BY <1>0, <1>2, <2>1, <2>2, <2>3 DEF ReviewsStored
  <1>8. SessionLinked'
    BY <1>0, <1>2, <1>3, <1>4 DEF StartRun, SessionLinked, Holds, Opened, Last, Running, NoManifest
  <1>9. RunAtWork'
    BY <1>0, <1>1, <1>2, <1>3, <1>4, <1>7 DEF StartRun, RunAtWork, Opened, Last, Running
  <1>10. EvidenceKept' /\ EvidenceShown' /\ RequestAtWork' /\ ExportsJudged'
    BY <1>0, <1>1, <1>3, NoEvidenceYet, RequestsRest DEF StartRun, Running, ExportsJudged, Judged
  <1> QED BY <1>5, <1>6, <1>7, <1>8, <1>9, <1>10 DEF Clean

LEMMA AgentsStep ==
  ASSUME Clean,
         (\E f \in Files, c \in Contents \cup {Absent} : AgentWrites(f, c)) \/ AgentsComplete \/ RunFails
  PROVE  Clean'
  <1>0. /\ GitTypes /\ StoreTypes /\ LocalTypes /\ ReviewsStored /\ HeadJudged /\ SessionLinked
        /\ ExportsJudged /\ RunAtWork
    BY DEF Clean
  <1>1. Running /\ Last \in Tickets /\ worker \in Workers /\ Opened
    BY <1>0 DEF AgentWrites, AgentsComplete, RunFails, Running, RunAtWork, LocalTypes
  <1>2. /\ UNCHANGED <<git, reviews, releases, handler, bounds, history>>
        /\ \A r \in Requests : handler'[r] = Idle
    BY <1>0, <1>1 DEF AgentWrites, AgentsComplete, RunFails, RunAtWork, store
  <1>3. HeadJudged' /\ ReviewsStored' /\ ExportsJudged' /\ RequestAtWork'
    BY <1>0, <1>2, RequestsRest DEF HeadJudged, ReviewsStored, ExportsJudged, Judged, git, bounds, history
  <1>4. CASE \E f \in Files, c \in Contents \cup {Absent} : AgentWrites(f, c)
    <2>1. PICK f \in Files, c \in Contents \cup {Absent} : AgentWrites(f, c)
      BY <1>4
    <2>2. tree' \in Trees /\ worker' \in Workers /\ worker'.pc = "agents" /\ worker'.ticket = worker.ticket
      BY <1>0, <1>1, <2>1 DEF AgentWrites, GitTypes, Trees, Workers
    <2>3. GitTypes' /\ StoreTypes' /\ LocalTypes'
      BY <1>0, <1>2, <2>1, <2>2 DEF AgentWrites, GitTypes, StoreTypes, LocalTypes, git, store, bounds
    <2>4. SessionLinked'
      BY <1>0, <2>1, <2>2 DEF AgentWrites, SessionLinked, Holds, Opened, Last, Latest, Running, store
    <2>5. RunAtWork'
      BY <1>0, <1>1, <1>2, <2>1, <2>2 DEF AgentWrites, RunAtWork, Opened, Last, Running, store, bounds
    <2> QED BY <1>3, <2>2, <2>3, <2>4, <2>5, NoEvidenceYet DEF Clean, Running
  <1>5. CASE AgentsComplete
    <2>1. /\ worker' \in Workers /\ worker'.pc = "reset" /\ worker'.ticket = worker.ticket
          /\ worker.pc = "agents"
      BY <1>1, <1>5 DEF AgentsComplete, Workers
    <2>2. /\ shown' \in Sessions /\ shown'.ticket = shown.ticket /\ shown'.run = "completed"
          /\ shown'.review = shown.review
      BY <1>0, <1>5 DEF AgentsComplete, LocalTypes, Sessions, Outcomes
    <2>3. GitTypes' /\ StoreTypes' /\ LocalTypes'
      BY <1>0, <1>2, <1>5, <2>1, <2>2 DEF AgentsComplete, GitTypes, StoreTypes, LocalTypes, git, store, bounds
    <2>4. SessionLinked'
      BY <1>0, <1>5, <2>1, <2>2 DEF AgentsComplete, SessionLinked, Holds, Opened, Last, Latest, Running, store
    <2>5. RunAtWork'
      BY <1>0, <1>1, <1>2, <1>5, <2>1, <2>2 DEF AgentsComplete, RunAtWork, Opened, Last, Running, store, bounds
    <2> QED BY <1>3, <2>1, <2>3, <2>4, <2>5, NoEvidenceYet DEF Clean, Running
  <1>6. CASE RunFails
    <2>1. worker' = Resting(Last) /\ worker' \in Workers /\ worker'.pc = "idle" /\ worker'.ticket = worker.ticket
      BY <1>1, <1>6, NothingTypes DEF RunFails, Resting, Last
    <2>2. /\ shown' \in Sessions /\ shown'.ticket = shown.ticket /\ shown'.run = "failed"
          /\ shown'.review = shown.review
      BY <1>0, <1>6 DEF RunFails, LocalTypes, Sessions, Outcomes
    <2>3. /\ manifest' = [manifest EXCEPT ![Last] = [NoManifest EXCEPT !.run = "failed"]]
          /\ manifest' \in [Tickets -> Manifests] /\ manifest'[Last].run = "failed" /\ manifest'[Last].review = 0
      BY <1>0, <1>1, <1>6, NothingTypes DEF RunFails, StoreTypes, Manifests, Outcomes, NoManifest, Last
    <2>4. GitTypes' /\ StoreTypes' /\ LocalTypes'
      BY <1>0, <1>2, <1>6, <2>1, <2>2, <2>3 DEF RunFails, GitTypes, StoreTypes, LocalTypes, git, bounds
    <2>5. SessionLinked'
      BY <1>0, <1>1, <1>2, <2>1, <2>2, <2>3 DEF SessionLinked, Holds, Opened, Last, Running
    <2>6. RunAtWork' /\ EvidenceKept' /\ EvidenceShown'
      BY <2>1, <2>3 DEF RunAtWork, EvidenceKept, EvidenceShown, Evidence, Running, Last
    <2> QED BY <1>3, <2>4, <2>5, <2>6 DEF Clean
  <1> QED BY <1>4, <1>5, <1>6

LEMMA VerifyingStep ==
  ASSUME Clean, ResetForReview \/ \E status \in {"pass", "fail"} : WorkerVerifies(status)
  PROVE  Clean'
  <1>0. /\ GitTypes /\ StoreTypes /\ LocalTypes /\ ReviewsStored /\ HeadJudged /\ SessionLinked
        /\ ExportsJudged /\ RunAtWork
    BY DEF Clean
  <1>1. Running /\ Last \in Tickets /\ worker \in Workers /\ Opened /\ tree \in Trees
    BY <1>0 DEF ResetForReview, WorkerVerifies, Running, RunAtWork, LocalTypes, GitTypes
  <1>2. /\ UNCHANGED <<tree, store, shown, handler, bounds, accepted, delivered>>
        /\ \A r \in Requests : handler'[r] = Idle
    BY <1>0, <1>1 DEF ResetForReview, WorkerVerifies, RunAtWork, history
  <1>3. ASSUME worker' \in Workers, worker'.pc \in {"verify", "capture"}, worker'.ticket = worker.ticket,
               HeadJudged', GitTypes', ~base'.set, worker'.seen = tree, commits' = commits,
               verified \subseteq verified', shown.run = "completed", reviews[runs] = NoReview,
               worker'.pc = "capture" =>
                 /\ worker'.verification.of = tree
                 /\ worker'.verification.status = "pass" => tree \in verified'
        PROVE  Clean'
    <2>1. StoreTypes' /\ LocalTypes'
      BY <1>0, <1>2, <1>3 DEF StoreTypes, LocalTypes, store, bounds
    <2>2. ReviewsStored' /\ ExportsJudged' /\ RequestAtWork'
      BY <1>0, <1>2, <1>3, RequestsRest DEF ReviewsStored, ExportsJudged, Judged, store, bounds
    <2>3. SessionLinked'
      BY <1>0, <1>2, <1>3 DEF SessionLinked, Holds, Opened, Last, Latest, Running, store
    <2>4. RunAtWork'
      BY <1>0, <1>1, <1>2, <1>3 DEF RunAtWork, Opened, Last, Running, store, bounds
    <2> QED BY <1>3, <2>1, <2>2, <2>3, <2>4, NoEvidenceYet DEF Clean, Running
  <1>4. CASE ResetForReview
    <2>1. /\ worker' \in Workers /\ worker'.pc = "verify" /\ worker'.ticket = worker.ticket
          /\ worker'.seen = tree /\ worker.pc = "reset"
      BY <1>1, <1>4 DEF ResetForReview, Workers
    <2>2. /\ HeadJudged' /\ commits' = commits /\ rev' \in Nat /\ head' \in Trees /\ base' \in Bases
          /\ ~base'.set
      BY <1>4, BaseRestored DEF ResetForReview, store, history
    <2>3. GitTypes'
      BY <1>0, <1>2, <2>2 DEF GitTypes
    <2>4. shown.run = "completed" /\ reviews[runs] = NoReview
      BY <1>0, <1>1, <2>1 DEF RunAtWork
    <2> QED BY <1>3, <1>4, <2>1, <2>2, <2>3, <2>4 DEF ResetForReview, history
  <1>5. ASSUME NEW status \in {"pass", "fail"}, WorkerVerifies(status) PROVE Clean'
    <2> DEFINE v == [status |-> status, of |-> worker.seen]
    <2>1. worker.pc = "verify" /\ worker.seen = tree /\ ~base.set /\ shown.run = "completed" /\ reviews[runs] = NoReview
      BY <1>0, <1>1, <1>5 DEF WorkerVerifies, RunAtWork
    <2>2. v \in Verifications /\ v.of = tree /\ v.status = status
      BY <1>1, <2>1 DEF Verifications
    <2>3. /\ NotePassed(v) /\ worker' = [worker EXCEPT !.pc = "capture", !.verification = v] /\ UNCHANGED git
      BY <1>5 DEF WorkerVerifies
    <2> HIDE DEF v
    <2>4. /\ worker' \in Workers /\ worker'.pc = "capture" /\ worker'.ticket = worker.ticket
          /\ worker'.seen = tree /\ worker'.verification = v
      BY <1>1, <2>1, <2>2, <2>3 DEF Workers
    <2>5. verified \subseteq verified' /\ (v.status = "pass" => tree \in verified')
      BY <2>2, <2>3 DEF NotePassed
    <2>6. HeadJudged' /\ GitTypes'
      BY <1>0, <1>2, <2>3 DEF HeadJudged, GitTypes, Judged, git, store
    <2> QED BY <1>3, <2>1, <2>2, <2>3, <2>4, <2>5, <2>6 DEF git
  <1> QED BY <1>4, <1>5

LEMMA CapturedIs ==
  ASSUME GitTypes, NEW i \in 1..MaxRuns
  PROVE  /\ Captured(i) \in Reviews /\ Captured(i).id = i /\ Captured(i).rev = rev /\ Captured(i).sha = tree
         /\ \A f \in Files : /\ Captured(i).decision[f] \in {"pending", "none"}
                             /\ Captured(i).decision[f] = "none" => tree[f] = head[f]
  <1>1. i \in 0..MaxRuns
    BY DeliveryAssumption
  <1> QED BY <1>1 DEF GitTypes, Captured, Reviews, Decisions

LEMMA CaptureReviewStep ==
  ASSUME Clean, CaptureReview
  PROVE  Clean'
  <1>0. /\ GitTypes /\ StoreTypes /\ LocalTypes /\ ReviewsStored /\ HeadJudged /\ SessionLinked
        /\ ExportsJudged /\ RunAtWork
    BY DEF Clean
  <1>1. /\ worker.pc = "capture" /\ Running /\ Last \in Tickets /\ worker \in Workers /\ Opened
        /\ runs \in 1..MaxRuns /\ reviews[runs] = NoReview /\ ~base.set /\ shown.run = "completed"
        /\ manifest[Last] = NoManifest
        /\ worker.verification.of = tree /\ (worker.verification.status = "pass" => tree \in verified)
    BY <1>0 DEF CaptureReview, Running, RunAtWork, LocalTypes
  <1>2. /\ UNCHANGED <<tree, git, manifest, releases, handler, bounds, history>>
        /\ \A r \in Requests : handler'[r] = Idle
    BY <1>0, <1>1 DEF CaptureReview, RunAtWork
  <1> DEFINE new == Captured(runs)
  <1>3. /\ new \in Reviews /\ new.id = runs /\ new.rev = rev /\ new.sha = tree
        /\ \A f \in Files : new.decision[f] \in {"pending", "none"} /\ (new.decision[f] = "none" => tree[f] = head[f])
    BY <1>0, <1>1, CapturedIs
  <1>4. /\ reviews' = [reviews EXCEPT ![runs] = new]
        /\ shown' = [shown EXCEPT !.verification = worker.verification, !.review = new]
        /\ worker' = [worker EXCEPT !.pc = "finish"]
    BY DEF CaptureReview
  <1> HIDE DEF new
  <1>5. /\ worker' \in Workers /\ worker'.pc = "finish" /\ worker'.ticket = worker.ticket
        /\ worker'.verification = worker.verification /\ worker.verification \in Verifications
    BY <1>1, <1>4 DEF Workers
  <1>6. /\ shown' \in Sessions /\ shown'.ticket = shown.ticket /\ shown'.run = "completed"
        /\ shown'.review = new /\ shown'.verification = worker.verification
    BY <1>0, <1>1, <1>3, <1>4, <1>5 DEF LocalTypes, Sessions
  <1>7. /\ reviews' \in [1..MaxRuns -> Reviews] /\ reviews'[runs] = new
        /\ \A i \in 1..MaxRuns : i # runs => reviews'[i] = reviews[i]
    BY <1>0, <1>1, <1>3, <1>4 DEF StoreTypes
  <1>8. GitTypes' /\ StoreTypes' /\ LocalTypes'
    BY <1>0, <1>2, <1>5, <1>6, <1>7 DEF GitTypes, StoreTypes, LocalTypes, git, bounds
  <1>9. ReviewsStored'
    <2>1. ASSUME NEW i \in 1..MaxRuns
          PROVE  /\ reviews'[i].id \in {0, i} /\ (reviews'[i].id = 0 => reviews'[i] = NoReview)
                 /\ reviews'[i].id = i => i <= runs' /\ reviews'[i].rev <= commits'
                 /\ \A f \in Files : reviews'[i].decision[f] = "accepted" => <<f, reviews'[i].sha[f]>> \in accepted'
      <3>1. CASE i = runs
        <4>1. runs \in Nat /\ runs # 0 /\ rev <= commits
          BY <1>0, <1>1, DeliveryAssumption DEF HeadJudged
        <4> QED BY <1>1, <1>2, <1>3, <1>7, <3>1, <4>1 DEF git, bounds, history
      <3>2. CASE i # runs
        BY <1>0, <1>2, <1>7, <3>2 DEF ReviewsStored, git, bounds, history
      <3> QED BY <3>1, <3>2
    <2> QED BY <2>1 DEF ReviewsStored
  <1>10. HeadJudged' /\ ExportsJudged' /\ RequestAtWork'
    BY <1>0, <1>1, <1>2, RequestsRest DEF HeadJudged, ExportsJudged, Judged, git, history
  <1>11. SessionLinked'
    <2>1. Holds(shown.review)' /\ shown'.review.id # 0
      BY <1>1, <1>3, <1>6, <1>7 DEF Holds
    <2>2. Opened' /\ Last' \in Tickets /\ Running' /\ manifest'[Last'].review = 0
      BY <1>1, <1>2, <1>5, <1>6 DEF Opened, Last, Running, NoManifest
    <2> QED BY <2>1, <2>2 DEF SessionLinked
  <1>12. RunAtWork'
    <2>1. Fits(worker.verification, reviews[runs])'
      BY <1>1, <1>2, <1>3, <1>5, <1>7 DEF Fits, bounds, history
    <2>2. Rests(reviews[runs])'
      BY <1>0, <1>1, <1>2, <1>3, <1>7 DEF Rests, Judged, HeadJudged, bounds, history
    <2>3. Opened' /\ Last' \in Tickets /\ manifest'[Last'] = NoManifest
      BY <1>1, <1>2, <1>5, <1>6 DEF Opened, Last
    <2> QED BY <1>1, <1>2, <1>3, <1>5, <1>6, <1>7, <2>1, <2>2, <2>3 DEF RunAtWork, bounds
  <1> QED BY <1>5, <1>8, <1>9, <1>10, <1>11, <1>12, NoEvidenceYet DEF Clean, Running

LEMMA FinishRunStep ==
  ASSUME Clean, FinishRun
  PROVE  Clean'
  <1>0. /\ GitTypes /\ StoreTypes /\ LocalTypes /\ ReviewsStored /\ HeadJudged /\ SessionLinked
        /\ ExportsJudged /\ RunAtWork
    BY DEF Clean
  <1>1. /\ worker.pc = "finish" /\ Running /\ Last \in Tickets /\ worker \in Workers /\ Opened
        /\ runs \in 1..MaxRuns /\ shown.run = "completed"
        /\ shown.verification = worker.verification /\ shown.review = reviews[runs] /\ reviews[runs].id = runs
        /\ Fits(worker.verification, reviews[runs]) /\ Rests(reviews[runs])
    BY <1>0 DEF FinishRun, Running, RunAtWork, LocalTypes
  <1>2. /\ UNCHANGED <<tree, git, reviews, releases, shown, handler, bounds, history>>
        /\ \A r \in Requests : handler'[r] = Idle
    BY <1>0, <1>1 DEF FinishRun, RunAtWork
  <1> DEFINE m == [run |-> shown.run, verification |-> worker.verification, review |-> runs]
  <1>3. m \in Manifests /\ m.run = "completed" /\ m.verification = worker.verification /\ m.review = runs /\ runs # 0
    BY <1>1, DeliveryAssumption DEF Manifests, Outcomes, Workers
  <1>4. manifest' = [manifest EXCEPT ![Last] = m] /\ worker' = Resting(Last)
    BY DEF FinishRun, Last
  <1> HIDE DEF m
  <1>5. worker' \in Workers /\ worker'.pc = "idle" /\ worker'.ticket = worker.ticket /\ Last' = Last
    BY <1>1, <1>4, NothingTypes DEF Resting, Last
  <1>6. manifest' \in [Tickets -> Manifests] /\ manifest'[Last] = m
    BY <1>0, <1>1, <1>3, <1>4 DEF StoreTypes
  <1>7. GitTypes' /\ StoreTypes' /\ LocalTypes'
    BY <1>0, <1>2, <1>5, <1>6 DEF GitTypes, StoreTypes, LocalTypes, git, bounds
  <1>8. HeadJudged' /\ ReviewsStored' /\ ExportsJudged' /\ RequestAtWork'
    BY <1>0, <1>2, RequestsRest DEF HeadJudged, ReviewsStored, ExportsJudged, Judged, git, bounds, history
  <1>9. Evidence' /\ Latest' = reviews[runs] /\ Opened' /\ ~Running'
    BY <1>1, <1>2, <1>3, <1>5, <1>6 DEF Evidence, Latest, Opened, Last, Running
  <1>10. EvidenceKept' /\ EvidenceShown'
    <2>1. Rests(Latest)' /\ Fits(manifest[Last].verification, Latest)'
      BY <1>1, <1>2, <1>3, <1>5, <1>6, <1>9 DEF Rests, Fits, Judged, history
    <2> QED BY <1>1, <1>2, <1>3, <1>5, <1>6, <1>9, <2>1 DEF EvidenceKept, EvidenceShown
  <1>11. SessionLinked'
    BY <1>0, <1>1, <1>2, <1>3, <1>5, <1>6, <1>9 DEF SessionLinked, Holds
  <1>12. RunAtWork'
    BY <1>9 DEF RunAtWork
  <1> QED BY <1>7, <1>8, <1>10, <1>11, <1>12 DEF Clean

-----------------------------------------------------------------------------
(* Requests.                                                               *)

\* One request moves on, the others rest.
LEMMA RequestMoves ==
  ASSUME NEW r \in Requests, \A q \in Requests \ {r} : handler'[q] = Idle, ~Running',
         handler'[r].pc = "idle" => handler'[r] = Idle,
         handler'[r].pc = "zip" => (handler[r].decision = "none" /\ Ready)',
         handler'[r].pc \in Deciding => Decides(handler[r])'
  PROVE  RequestAtWork'
  <1>1. Idle.pc = "idle" /\ "idle" \notin Deciding
    BY DEF Idle, Deciding
  <1> QED BY <1>1 DEF RequestAtWork

\* Only the locals of requests change, and none that reverts leaves.
LEMMA OnlyRequestsMove ==
  ASSUME Clean, ~Running, RequestAtWork', handler' \in [Requests -> Handlers], Reverting => Reverting',
         UNCHANGED <<tree, git, store, shown, worker, runs, verified, accepted, delivered>>
  PROVE  Clean'
  <1>0. /\ GitTypes /\ StoreTypes /\ LocalTypes /\ ReviewsStored /\ HeadJudged /\ SessionLinked
        /\ ExportsJudged /\ RunAtWork /\ EvidenceKept /\ EvidenceShown
    BY DEF Clean
  <1>1. GitTypes' /\ StoreTypes' /\ LocalTypes'
    BY <1>0 DEF GitTypes, StoreTypes, LocalTypes, git, store
  <1>2. HeadJudged' /\ ReviewsStored' /\ ExportsJudged' /\ RunAtWork'
    BY <1>0 DEF HeadJudged, ReviewsStored, ExportsJudged, RunAtWork, Judged, Running, git, store
  <1>3. EvidenceKept' /\ EvidenceShown'
    BY <1>0 DEF EvidenceKept, EvidenceShown, Evidence, Latest, Last, Opened, Running, Rests, Fits, Judged, store
  <1>4. SessionLinked'
    BY <1>0 DEF SessionLinked, Evidence, Latest, Last, Opened, Running, Holds, store
  <1> QED BY <1>1, <1>2, <1>3, <1>4 DEF Clean

\* Who asks while nothing else is at work.
LEMMA RequestAlone ==
  ASSUME Clean, NEW r \in Requests, NEW local \in Handlers, Request(r, local), damage' = {}
  PROVE  /\ \A q \in Requests : handler[q] = Idle
         /\ ~Running /\ ~Reverting
         /\ handler' \in [Requests -> Handlers] /\ handler'[r] = local
         /\ \A q \in Requests \ {r} : handler'[q] = Idle
  <1>1. Overlap({r}) = {} /\ ~Running /\ handler[r].pc = "idle" /\ handler' = [handler EXCEPT ![r] = local]
    BY DEF Request
  <1>2. \A q \in Requests : handler[q].pc = "idle"
    BY <1>1, NoOverlap
  <1>3. ~Reverting /\ \A q \in Requests : handler[q] = Idle
    BY <1>2, RestingRequests
  <1>4. handler \in [Requests -> Handlers]
    BY DEF Clean, LocalTypes
  <1> QED BY <1>1, <1>3, <1>4

LEMMA DecideStep ==
  ASSUME Clean, NEW r \in Requests, NEW decision \in {"accepted", "reverted"}, NEW S \in SUBSET Files,
         Decide(r, decision, S), damage' = {}
  PROVE  Clean'
  <1> DEFINE local == [Idle EXCEPT !.pc = "files", !.decision = decision, !.report = shown.review,
                                   !.todo = S \cap With(shown.review, "pending")]
  <1>0. StoreTypes /\ LocalTypes /\ SessionLinked
    BY DEF Clean
  <1>1. /\ local \in Handlers /\ local.pc = "files" /\ local.decision = decision /\ local.report = shown.review
    BY <1>0, NothingTypes DEF Handlers, Deciding, LocalTypes, Sessions, Idle, With
  <1>2. Request(r, local) /\ shown.review.id # 0
    BY DEF Decide
  <1> HIDE DEF local
  <1>3. /\ ~Running /\ ~Reverting /\ handler' \in [Requests -> Handlers] /\ handler'[r] = local
        /\ \A q \in Requests \ {r} : handler'[q] = Idle
    BY <1>1, <1>2, RequestAlone
  <1>4. UNCHANGED <<tree, git, store, shown, worker, runs, verified, accepted, delivered>>
    BY <1>2 DEF Request
  <1>5. Decides(handler[r])'
    <2>1. Holds(handler[r].report)'
      BY <1>0, <1>1, <1>2, <1>3, <1>4 DEF SessionLinked, Holds, store
    <2> QED BY <1>1, <1>2, <1>3, <1>4, <2>1 DEF Decides
  <1>6. RequestAtWork'
    BY <1>1, <1>3, <1>4, <1>5, RequestMoves DEF Running
  <1> QED BY <1>3, <1>4, <1>6, OnlyRequestsMove

\* A request returns without having changed anything in this step.
LEMMA ReturnStep ==
  ASSUME Clean, NEW r \in Requests, handler[r].pc # "idle", handler[r].decision # "reverted", Return(r),
         UNCHANGED <<tree, git, store, shown, worker, runs, verified, accepted, delivered>>
  PROVE  Clean'
  <1>0. LocalTypes /\ RequestAtWork
    BY DEF Clean
  <1>1. ~Running /\ \A q \in Requests \ {r} : handler[q] = Idle
    BY <1>0 DEF RequestAtWork
  <1>2. handler' \in [Requests -> Handlers] /\ \A q \in Requests : handler'[q] = Idle
    BY <1>0, <1>1, NothingTypes DEF Return, LocalTypes
  <1>3. ~Reverting
    <2>1. Idle.decision = "none"
      BY DEF Idle
    <2> QED BY <1>1, <2>1 DEF Reverting
  <1> QED BY <1>1, <1>2, <1>3, RequestsRest, OnlyRequestsMove

\* The request that is at work in a state.
LEMMA AtWork ==
  ASSUME Clean, NEW r \in Requests, handler[r].pc \in Deciding
  PROVE  /\ ~Running /\ Decides(handler[r]) /\ \A q \in Requests \ {r} : handler[q] = Idle
         /\ handler[r] \in Handlers /\ Opened /\ Last \in Tickets
         /\ handler[r].report \in Reviews /\ handler[r].report.id = shown.review.id
         /\ shown.review.id \in 1..MaxRuns /\ shown.review.id # 0
         /\ Holds(shown.review) /\ Holds(handler[r].report)
         /\ reviews[shown.review.id] \in Reviews /\ reviews[shown.review.id].id = shown.review.id
         /\ Reverting <=> handler[r].decision = "reverted"
         /\ Evidence => manifest[Last].review = shown.review.id /\ Latest = reviews[shown.review.id]
  <1>0. LocalTypes /\ StoreTypes /\ RequestAtWork /\ SessionLinked /\ EvidenceShown
    BY DEF Clean
  <1>1. /\ ~Running /\ Decides(handler[r]) /\ \A q \in Requests \ {r} : handler[q] = Idle
        /\ handler[r] \in Handlers
    BY <1>0 DEF RequestAtWork, Deciding, LocalTypes
  <1>2. shown.review.id # 0 /\ handler[r].report.id = shown.review.id /\ Holds(handler[r].report)
    BY <1>1 DEF Decides
  <1>3. Opened /\ Last \in Tickets /\ Holds(shown.review)
    BY <1>0, <1>2 DEF SessionLinked
  <1>4. /\ shown.review.id \in 1..MaxRuns
        /\ reviews[shown.review.id] \in Reviews /\ reviews[shown.review.id].id = shown.review.id
    BY <1>0, <1>3 DEF Holds, StoreTypes
  <1>5. Reverting <=> handler[r].decision = "reverted"
    <2>1. Idle.decision = "none"
      BY DEF Idle
    <2> QED BY <1>1, <2>1 DEF Reverting
  <1>6. Evidence => manifest[Last].review = shown.review.id
    BY <1>0, <1>3 DEF EvidenceShown
  <1> QED BY <1>1, <1>2, <1>3, <1>4, <1>5, <1>6 DEF Latest, Handlers

LEMMA TakeFileStep ==
  ASSUME Clean, NEW r \in Requests, NEW f \in Files, TakeFile(r, f), damage' = {}
  PROVE  Clean'
  <1> DEFINE h == handler[r]
             stored == reviews[h.report.id]
  <1>0. LocalTypes /\ StoreTypes
    BY DEF Clean
  <1>1. /\ h.pc = "files" /\ UNCHANGED <<tree, git, store, shown, worker, runs, verified, accepted, delivered>>
    BY DEF TakeFile, bounds
  <1>2. /\ ~Running /\ Decides(h) /\ \A q \in Requests \ {r} : handler[q] = Idle
        /\ h \in Handlers /\ stored \in Reviews /\ (Reverting <=> h.decision = "reverted")
    <2>1. h.pc \in Deciding
      BY <1>1 DEF Deciding
    <2> QED BY <2>1, AtWork
  <1>3. CASE stored.decision[f] = "pending" /\ stored.rev = rev /\ stored.sha[f] = tree[f]
    <2> DEFINE p == IF h.decision = "reverted" THEN "restore" ELSE "save"
               new == [h EXCEPT !.loaded = stored, !.taken = {f}, !.todo = @ \ {f}, !.pc = p]
    <2>1. handler' = [handler EXCEPT ![r] = new]
      BY <1>0, <1>3 DEF TakeFile, LocalTypes
    <2>2. /\ new \in Handlers /\ new.loaded = stored /\ new.taken = {f} /\ new.pc = p
          /\ new.decision = h.decision /\ new.report = h.report
      BY <1>2 DEF Handlers, Deciding
    <2>3. p \in {"restore", "save"} /\ (p = "restore" <=> h.decision = "reverted") /\ h.decision \in {"accepted", "reverted"}
      BY <1>2 DEF Decides
    <2> HIDE DEF new, p
    <2>4. /\ handler' \in [Requests -> Handlers] /\ handler'[r] = new
          /\ \A q \in Requests \ {r} : handler'[q] = Idle
      BY <1>0, <1>2, <2>1, <2>2 DEF LocalTypes
    <2>5. Decides(handler[r])'
      <3>1. Holds(handler[r].report)'
        BY <1>1, <1>2, <2>2, <2>4 DEF Decides, Holds, store
      <3>2. Takes(handler[r])'
        <4>1. UNCHANGED <<tree, reviews, rev>>
          BY <1>1 DEF git, store
        <4> QED BY <1>3, <2>2, <2>3, <2>4, <4>1 DEF Takes
      <3> QED BY <1>1, <1>2, <2>2, <2>3, <2>4, <3>1, <3>2 DEF Decides
    <2>6. RequestAtWork'
      BY <1>1, <1>2, <2>2, <2>3, <2>4, <2>5, RequestMoves DEF Running
    <2>7. Reverting => Reverting'
      BY <1>2, <2>2, <2>4 DEF Reverting
    <2> QED BY <1>1, <1>2, <2>4, <2>6, <2>7, OnlyRequestsMove
  <1>4. CASE ~(stored.decision[f] = "pending" /\ stored.rev = rev /\ stored.sha[f] = tree[f])
    <2>1. Return(r) /\ damage' = IF handler'[r].pc = "idle" THEN damage \cup CutOff({r}) ELSE damage
      BY <1>4 DEF TakeFile
    <2>2. handler'[r].pc = "idle"
      BY <1>0, <2>1 DEF Return, LocalTypes, Idle
    <2>3. h.decision # "reverted"
      BY <2>1, <2>2 DEF CutOff
    <2> QED BY <1>1, <2>1, <2>3, ReturnStep
  <1> QED BY <1>3, <1>4

\* A file of a review at HEAD's commit is restored to what was judged.
LEMMA RestoreFileStep ==
  ASSUME Clean, NEW r \in Requests, RestoreFile(r)
  PROVE  Clean'
  <1> DEFINE h == handler[r]
             new == [h EXCEPT !.pc = "save"]
  <1>0. /\ GitTypes /\ StoreTypes /\ LocalTypes /\ ReviewsStored /\ HeadJudged /\ SessionLinked
        /\ ExportsJudged /\ RunAtWork /\ EvidenceKept /\ EvidenceShown
    BY DEF Clean
  <1>1. /\ h.pc = "restore" /\ UNCHANGED <<git, store, shown, worker, bounds, history>>
        /\ tree' = [f \in Files |-> IF f \in h.taken THEN head[f] ELSE tree[f]]
        /\ handler' = [handler EXCEPT ![r] = new]
    BY <1>0 DEF RestoreFile, LocalTypes
  <1>2. /\ ~Running /\ Decides(h) /\ \A q \in Requests \ {r} : handler[q] = Idle
        /\ h \in Handlers /\ (Reverting <=> h.decision = "reverted")
        /\ h.report.id = shown.review.id /\ shown.review.id \in 1..MaxRuns /\ shown.review.id # 0
        /\ reviews[shown.review.id].id = shown.review.id
        /\ Evidence => manifest[Last].review = shown.review.id /\ Latest = reviews[shown.review.id]
    <2>1. h.pc \in Deciding
      BY <1>1 DEF Deciding
    <2> QED BY <2>1, AtWork
  <1>3. Takes(h) /\ h.decision = "reverted" /\ h.loaded = reviews[shown.review.id]
    BY <1>1, <1>2 DEF Decides, Takes
  <1>4. base.set = FALSE /\ \A f \in Files : Judged(f, head[f])
    <2>1. reviews[shown.review.id].rev = rev
      BY <1>3 DEF Takes
    <2> QED BY <1>0, <1>2, <2>1 DEF HeadJudged, GitTypes, Bases
  <1>5. /\ new \in Handlers /\ new.pc = "save" /\ new.decision = h.decision /\ new.report = h.report
        /\ new.loaded = h.loaded /\ new.taken = h.taken
    BY <1>2 DEF Handlers, Deciding
  <1> HIDE DEF new
  <1>6. /\ handler' \in [Requests -> Handlers] /\ handler'[r] = new
        /\ \A q \in Requests \ {r} : handler'[q] = Idle
    BY <1>0, <1>1, <1>2, <1>5 DEF LocalTypes
  <1>7. GitTypes' /\ StoreTypes' /\ LocalTypes'
    BY <1>0, <1>1, <1>6 DEF GitTypes, StoreTypes, LocalTypes, git, store, bounds, Trees
  <1>8. HeadJudged' /\ ReviewsStored' /\ ExportsJudged'
    BY <1>0, <1>1 DEF HeadJudged, ReviewsStored, ExportsJudged, Judged, git, store, bounds, history
  <1>9. SessionLinked' /\ RunAtWork' /\ (Evidence' <=> Evidence) /\ (Opened' <=> Opened)
    BY <1>0, <1>1, <1>2 DEF SessionLinked, Evidence, Latest, Last, Opened, Running, Holds, RunAtWork, store
  <1>10. \A f \in Files : IF f \in h.taken THEN Judged(f, tree[f])' /\ h.loaded.decision[f] = "pending"
                          ELSE tree'[f] = tree[f]
    BY <1>1, <1>3, <1>4 DEF Takes, Judged, history
  <1>11. EvidenceKept' /\ EvidenceShown'
    <2>1. Reverting'
      BY <1>3, <1>5, <1>6 DEF Reverting
    <2>2. Latest' = Latest /\ Last' = Last
      BY <1>1 DEF Latest, Last, store
    <2>3. Evidence => Rests(Latest)'
      <3>1. ASSUME NEW f \in Files, Judged(f, tree[f]), f \notin h.taken PROVE Judged(f, tree[f])'
        BY <1>1, <1>10, <3>1 DEF Judged, history
      <3> QED BY <1>0, <1>10, <2>2, <3>1 DEF EvidenceKept, Rests
    <2>4. EvidenceKept'
      BY <1>0, <1>1, <1>9, <2>1, <2>2, <2>3 DEF EvidenceKept, store
    <2>5. EvidenceShown'
      BY <1>0, <1>1, <1>2, <1>3, <1>9, <1>10, <2>1, <2>2 DEF EvidenceShown, store
    <2> QED BY <2>4, <2>5
  <1>12. RequestAtWork'
    <2>1. Decides(handler[r])'
      <3>1. Holds(handler[r].report)'
        BY <1>1, <1>2, <1>5, <1>6 DEF Decides, Holds, store
      <3>2. Takes(handler[r])'
        BY <1>1, <1>3, <1>5, <1>6, <1>10 DEF Takes, git, store
      <3> QED BY <1>1, <1>2, <1>3, <1>5, <1>6, <3>1, <3>2 DEF Decides
    <2> QED BY <1>1, <1>2, <1>5, <1>6, <2>1, RequestMoves DEF Running
  <1> QED BY <1>7, <1>8, <1>9, <1>11, <1>12 DEF Clean

\* The decision is stored for the file that was taken.
LEMMA SaveDecisionStep ==
  ASSUME Clean, NEW r \in Requests, SaveDecision(r)
  PROVE  Clean'
  <1> DEFINE h == handler[r]
             i == shown.review.id
             report == [h.loaded EXCEPT !.decision = [f \in Files |-> IF f \in h.taken THEN h.decision ELSE @[f]]]
             new == [h EXCEPT !.report = report, !.pc = "files", !.taken = {}, !.loaded = NoReview]
  <1>0. /\ GitTypes /\ StoreTypes /\ LocalTypes /\ ReviewsStored /\ HeadJudged /\ SessionLinked
        /\ ExportsJudged /\ RunAtWork /\ EvidenceKept /\ EvidenceShown
    BY DEF Clean
  <1>1. /\ h.pc = "save" /\ UNCHANGED <<tree, git, manifest, releases, shown, worker, bounds, verified, delivered, damage>>
        /\ reviews' = [reviews EXCEPT ![report.id] = report]
        /\ handler' = [handler EXCEPT ![r] = new]
        /\ accepted' = accepted \cup {<<f, report.sha[f]>> : f \in IF h.decision = "accepted" THEN h.taken ELSE {}}
    BY <1>0 DEF SaveDecision, LocalTypes
  <1>2. /\ ~Running /\ Decides(h) /\ \A q \in Requests \ {r} : handler[q] = Idle
        /\ h \in Handlers /\ (Reverting <=> h.decision = "reverted")
        /\ h.report.id = i /\ i \in 1..MaxRuns /\ i # 0 /\ Holds(shown.review)
        /\ reviews[i] \in Reviews /\ reviews[i].id = i
        /\ Evidence => manifest[Last].review = i /\ Latest = reviews[i]
    <2>1. h.pc \in Deciding
      BY <1>1 DEF Deciding
    <2> QED BY <2>1, AtWork
  <1>3. /\ Takes(h) /\ h.decision \in {"accepted", "reverted"} /\ h.loaded = reviews[i]
    BY <1>1, <1>2 DEF Decides, Takes
  <1>4. /\ report \in Reviews /\ report.id = i /\ report.rev = reviews[i].rev /\ report.sha = reviews[i].sha
        /\ \A f \in Files : report.decision[f] = IF f \in h.taken THEN h.decision ELSE reviews[i].decision[f]
    BY <1>2, <1>3 DEF Reviews, Decisions
  <1>5. PICK g \in Files : h.taken = {g} /\ reviews[i].decision[g] = "pending"
    BY <1>3 DEF Takes
  <1>6. IF h.decision = "accepted" THEN tree[g] = reviews[i].sha[g] ELSE Judged(g, tree[g])
    BY <1>1, <1>3, <1>5 DEF Takes
  <1>7. /\ new \in Handlers /\ new.pc = "files" /\ new.decision = h.decision /\ new.report = report
    BY <1>2, <1>4, NothingTypes DEF Handlers, Deciding
  <1> HIDE DEF new
  <1>8. /\ handler' \in [Requests -> Handlers] /\ handler'[r] = new
        /\ \A q \in Requests \ {r} : handler'[q] = Idle
    BY <1>0, <1>1, <1>2, <1>7 DEF LocalTypes
  <1>9. /\ accepted \subseteq accepted'
        /\ h.decision = "accepted" => <<g, report.sha[g]>> \in accepted'
    BY <1>1, <1>5
  <1> HIDE DEF report
  <1>10. /\ reviews' \in [1..MaxRuns -> Reviews] /\ reviews'[i] = report
         /\ \A j \in 1..MaxRuns : j # i => reviews'[j] = reviews[j]
    BY <1>0, <1>1, <1>2, <1>4 DEF StoreTypes
  <1>11. GitTypes' /\ StoreTypes' /\ LocalTypes'
    BY <1>0, <1>1, <1>8, <1>10 DEF GitTypes, StoreTypes, LocalTypes, git, bounds
  <1>12. ReviewsStored'
    <2>1. ASSUME NEW j \in 1..MaxRuns
          PROVE  /\ reviews'[j].id \in {0, j} /\ (reviews'[j].id = 0 => reviews'[j] = NoReview)
                 /\ reviews'[j].id = j => j <= runs' /\ reviews'[j].rev <= commits'
                 /\ \A f \in Files : reviews'[j].decision[f] = "accepted" => <<f, reviews'[j].sha[f]>> \in accepted'
      <3>1. CASE j = i
        BY <1>0, <1>1, <1>2, <1>4, <1>5, <1>9, <1>10, <3>1 DEF ReviewsStored, git, bounds
      <3>2. CASE j # i
        BY <1>0, <1>1, <1>9, <1>10, <3>2 DEF ReviewsStored, git, bounds
      <3> QED BY <3>1, <3>2
    <2> QED BY <2>1 DEF ReviewsStored
  <1>13. HeadJudged' /\ ExportsJudged'
    <2>1. \A j \in 1..MaxRuns : reviews'[j].id = reviews[j].id /\ reviews'[j].rev = reviews[j].rev
      BY <1>2, <1>4, <1>10
    <2>2. HeadJudged'
      BY <1>0, <1>1, <1>9, <2>1 DEF HeadJudged, Judged, git
    <2>3. ExportsJudged'
      BY <1>0, <1>1, <1>9 DEF ExportsJudged, Judged
    <2> QED BY <2>2, <2>3
  <1>14. /\ UNCHANGED <<shown, manifest, worker, tree>> /\ (Evidence' <=> Evidence) /\ (Opened' <=> Opened) /\ ~Running'
    BY <1>1, <1>2 DEF Evidence, Opened, Last, Running
  <1>15. Evidence => Latest' = report
    BY <1>2, <1>10, <1>14 DEF Latest, Last
  <1>16. EvidenceKept'
    <2>1. ASSUME Evidence PROVE Rests(Latest)'
      <3>1. Rests(reviews[i])
        BY <1>0, <1>2, <2>1 DEF EvidenceKept
      <3> QED BY <1>4, <1>5, <1>6, <1>9, <1>14, <1>15, <2>1, <3>1 DEF Rests, Judged
    <2>2. ASSUME Evidence, h.decision = "accepted" PROVE Fits(manifest[Last].verification, Latest)'
      <3>1. Fits(manifest[Last].verification, reviews[i])
        BY <1>0, <1>2, <2>2 DEF EvidenceKept
      <3>2. Last' = Last /\ manifest' = manifest /\ tree' = tree /\ verified' = verified
        BY <1>1 DEF Last
      <3> QED BY <1>4, <1>5, <1>6, <1>15, <2>2, <3>1, <3>2 DEF Fits
    <2>3. ~Reverting' => h.decision = "accepted"
      BY <1>3, <1>7, <1>8 DEF Reverting
    <2> QED BY <1>0, <1>14, <2>1, <2>2, <2>3 DEF EvidenceKept, Last
  <1>17. EvidenceShown'
    <2>1. Reverting' <=> Reverting
      <3>1. Idle.decision = "none"
        BY DEF Idle
      <3> QED BY <1>2, <1>7, <1>8, <3>1 DEF Reverting
    <2>2. ASSUME Evidence, Opened, NEW f \in Files, report.decision[f] = "accepted", shown.review.decision[f] # "accepted"
          PROVE  tree[f] = report.sha[f]
      <3>1. CASE f = g
        BY <1>4, <1>5, <1>6, <2>2, <3>1
      <3>2. CASE f # g
        BY <1>0, <1>2, <1>4, <1>5, <2>2, <3>2 DEF EvidenceShown
      <3> QED BY <3>1, <3>2
    <2> QED BY <1>0, <1>14, <1>15, <2>1, <2>2 DEF EvidenceShown, Last
  <1>18. SessionLinked'
    <2>1. Holds(shown.review)'
      <3>1. \A f \in Files : f \in h.taken => ~Settled(shown.review.decision[f]) /\ shown.review.decision[f] # "none"
        BY <1>2, <1>5 DEF Holds, Settled
      <3> QED BY <1>2, <1>3, <1>4, <1>10, <1>14, <3>1 DEF Holds, Settled
    <2>2. Last \in Tickets /\ manifest[Last].review # 0 => reviews'[manifest[Last].review].id = manifest[Last].review
      <3>1. ASSUME Last \in Tickets, manifest[Last].review # 0 PROVE reviews'[manifest[Last].review].id = manifest[Last].review
        <4>1. manifest[Last].review \in 1..MaxRuns /\ reviews[manifest[Last].review].id = manifest[Last].review
          <5>1. manifest[Last].review \in 0..MaxRuns
            BY <1>0, <3>1 DEF StoreTypes, Manifests
          <5> QED BY <1>0, <3>1, <5>1, DeliveryAssumption DEF SessionLinked, Latest
        <4> QED BY <1>4, <1>10, <4>1
      <3> QED BY <3>1
    <2>3. UNCHANGED <<shown, manifest, Last>> /\ (Evidence' <=> Evidence) /\ (Opened' <=> Opened) /\ (Running' <=> Running)
      BY <1>2, <1>14 DEF Last
    <2>4. /\ shown.review.id # 0 => Opened /\ Last \in Tickets
          /\ shown.review.id = 0 => shown.review = NoReview
          /\ shown.ticket \in Tickets /\ ~Opened => manifest[shown.ticket] = NoManifest
          /\ ~Running /\ shown.run # "failed" /\ shown.review.id # 0 => Evidence
      BY <1>0 DEF SessionLinked
    <2>5. Last \in Tickets /\ manifest[Last].review # 0 => (Latest.id = manifest[Last].review)'
      BY <2>2, <2>3 DEF Latest
    <2> QED BY <2>1, <2>3, <2>4, <2>5 DEF SessionLinked
  <1>19. RunAtWork'
    BY <1>14 DEF RunAtWork
  <1>20. RequestAtWork'
    <2>1. Decides(handler[r])'
      <3>1. Holds(handler[r].report)'
        BY <1>2, <1>4, <1>7, <1>8, <1>10 DEF Holds
      <3>2. \A f \in Files : Settled(shown.review.decision[f]) => report.decision[f] = shown.review.decision[f]
        <4>1. \A f \in Files : f \in h.taken => ~Settled(shown.review.decision[f])
          BY <1>2, <1>5 DEF Holds, Settled
        <4> QED BY <1>2, <1>4, <4>1 DEF Holds
      <3> QED BY <1>2, <1>3, <1>4, <1>7, <1>8, <1>14, <3>1, <3>2 DEF Decides, Settled
    <2> QED BY <1>7, <1>8, <1>14, <2>1, RequestMoves
  <1> QED BY <1>11, <1>12, <1>13, <1>16, <1>17, <1>18, <1>19, <1>20 DEF Clean

\* What is committed was accepted as it is.
LEMMA CheckpointAcceptedStep ==
  ASSUME Clean, NEW r \in Requests, CheckpointAccepted(r), damage' = {}
  PROVE  Clean'
  <1> DEFINE h == handler[r]
             new == [h EXCEPT !.pc = "show"]
  <1>0. /\ GitTypes /\ StoreTypes /\ LocalTypes /\ ReviewsStored /\ HeadJudged /\ SessionLinked
        /\ ExportsJudged /\ RunAtWork /\ EvidenceKept /\ EvidenceShown
    BY DEF Clean
  <1>1. /\ h.pc = "files" /\ UNCHANGED <<tree, base, store, shown, worker, bounds, verified, accepted, delivered>>
        /\ head' = [f \in Files |-> IF f \in With(h.report, "accepted") THEN tree[f] ELSE head[f]]
        /\ rev' = commits + 1 /\ commits' = commits + 1
        /\ handler' = [handler EXCEPT ![r] = new] /\ Drifted(h.report) = {}
    BY <1>0 DEF CheckpointAccepted, Checkpoint, Decided, LocalTypes
  <1>2. /\ ~Running /\ Decides(h) /\ \A q \in Requests \ {r} : handler[q] = Idle
        /\ h \in Handlers /\ (Reverting <=> h.decision = "reverted") /\ Holds(h.report)
    <2>1. h.pc \in Deciding
      BY <1>1 DEF Deciding
    <2> QED BY <2>1, AtWork
  <1>3. /\ new \in Handlers /\ new.pc = "show" /\ new.decision = h.decision /\ new.report = h.report
    BY <1>2 DEF Handlers, Deciding
  <1> HIDE DEF new
  <1>4. /\ handler' \in [Requests -> Handlers] /\ handler'[r] = new
        /\ \A q \in Requests \ {r} : handler'[q] = Idle
    BY <1>0, <1>1, <1>2, <1>3 DEF LocalTypes
  <1>5. commits' \in Nat /\ commits <= commits' /\ rev' \in Nat /\ rev' <= commits' /\ head' \in Trees
    BY <1>0, <1>1 DEF GitTypes, Trees
  <1>6. GitTypes' /\ StoreTypes' /\ LocalTypes'
    BY <1>0, <1>1, <1>4, <1>5 DEF GitTypes, StoreTypes, LocalTypes, store, bounds
  <1>7. \A j \in 1..MaxRuns : reviews[j].id # 0 =>
          /\ reviews[j].id = j /\ reviews[j].rev <= commits /\ reviews[j].rev \in Nat
    BY <1>0 DEF ReviewsStored, StoreTypes, Reviews
  <1>8. ReviewsStored'
    <2>1. \A j \in 1..MaxRuns : reviews[j].id = j => reviews[j].rev <= commits'
      <3>1. ASSUME NEW j \in 1..MaxRuns, reviews[j].id = j PROVE reviews[j].rev <= commits'
        <4>1. reviews[j].rev <= commits /\ reviews[j].rev \in Nat
          BY <1>0, <3>1 DEF ReviewsStored, StoreTypes, Reviews
        <4> QED BY <1>0, <1>1, <4>1 DEF GitTypes
      <3> QED BY <3>1
    <2> QED BY <1>0, <1>1, <2>1 DEF ReviewsStored, store, bounds
  <1>9. HeadJudged'
    <2>1. \A f \in Files : f \in With(h.report, "accepted") => <<f, tree[f]>> \in accepted
      <3>1. ASSUME NEW f \in Files, h.report.decision[f] = "accepted" PROVE <<f, tree[f]>> \in accepted
        <4>1. tree[f] = h.report.sha[f]
          BY <1>1, <3>1 DEF Drifted, With
        <4>2. <<f, reviews[h.report.id].sha[f]>> \in accepted /\ reviews[h.report.id].sha = h.report.sha
          BY <1>0, <1>2, <3>1 DEF Holds, Settled, ReviewsStored
        <4> QED BY <4>1, <4>2
      <3> QED BY <3>1 DEF With
    <2>2. \A f \in Files : ~base.set => Judged(f, head[f])'
      BY <1>0, <1>1, <2>1 DEF HeadJudged, Judged
    <2>3. base.set => \A f \in Files : Judged(f, base.tree[f])'
      BY <1>0, <1>1 DEF HeadJudged, Judged
    <2>4. ASSUME NEW j \in 1..MaxRuns, reviews[j].id # 0 PROVE reviews[j].rev # rev'
      <3>1. reviews[j].rev <= commits /\ reviews[j].rev \in Nat
        BY <1>7, <2>4
      <3> QED BY <1>0, <1>1, <3>1 DEF GitTypes
    <2>5. base'.rev <= commits'
      BY <1>0, <1>1 DEF HeadJudged, GitTypes, Bases
    <2> QED BY <1>1, <1>5, <2>2, <2>3, <2>4, <2>5 DEF HeadJudged, store
  <1>10. Reverting' <=> Reverting
    <2>1. Idle.decision = "none"
      BY DEF Idle
    <2> QED BY <1>2, <1>3, <1>4, <2>1 DEF Reverting
  <1>11. EvidenceKept' /\ EvidenceShown' /\ ExportsJudged'
    BY <1>0, <1>1, <1>10 DEF EvidenceKept, EvidenceShown, Evidence, Latest, Last, Opened, Running, Rests, Fits,
       Judged, ExportsJudged, store
  <1>12. SessionLinked' /\ RunAtWork'
    BY <1>0, <1>1, <1>2 DEF SessionLinked, Evidence, Latest, Last, Opened, Running, Holds, RunAtWork, store
  <1>13. RequestAtWork'
    <2>1. Decides(handler[r])'
      BY <1>1, <1>2, <1>3, <1>4 DEF Decides, Holds, store
    <2> QED BY <1>1, <1>2, <1>3, <1>4, <2>1, RequestMoves DEF Running
  <1> QED BY <1>6, <1>8, <1>9, <1>11, <1>12, <1>13 DEF Clean

\* The decisions are shown; a revert has still to verify.
LEMMA ShowDecisionsStep ==
  ASSUME Clean, NEW r \in Requests, ShowDecisions(r), damage' = {}
  PROVE  Clean'
  <1> DEFINE h == handler[r]
  <1>0. /\ GitTypes /\ StoreTypes /\ LocalTypes /\ ReviewsStored /\ HeadJudged /\ SessionLinked
        /\ ExportsJudged /\ RunAtWork /\ EvidenceKept /\ EvidenceShown
    BY DEF Clean
  <1>1. h.pc \in {"show", "files"} /\ UNCHANGED <<tree, git, store, worker, bounds, verified, accepted, delivered>>
    BY DEF ShowDecisions, Decided
  <1>2. /\ ~Running /\ Decides(h) /\ \A q \in Requests \ {r} : handler[q] = Idle
        /\ h \in Handlers /\ (Reverting <=> h.decision = "reverted") /\ Holds(h.report) /\ h.report \in Reviews
        /\ h.report.id = shown.review.id /\ shown.review.id # 0 /\ Opened /\ Last \in Tickets
        /\ Evidence => Latest = reviews[shown.review.id]
    <2>1. h.pc \in Deciding
      BY <1>1 DEF Deciding
    <2> QED BY <2>1, AtWork
  <1>3. ASSUME shown' \in Sessions, shown'.ticket = shown.ticket, shown'.run = shown.run,
               shown'.review = h.report, handler' \in [Requests -> Handlers], RequestAtWork',
               Reverting' <=> Reverting,
               ~Reverting' => shown'.verification = shown.verification
        PROVE  Clean'
    <2>1. GitTypes' /\ StoreTypes' /\ LocalTypes'
      BY <1>0, <1>1, <1>3 DEF GitTypes, StoreTypes, LocalTypes, git, store, bounds
    <2>2. HeadJudged' /\ ReviewsStored' /\ ExportsJudged'
      BY <1>0, <1>1 DEF HeadJudged, ReviewsStored, ExportsJudged, Judged, git, store, bounds
    <2>3. EvidenceKept'
      BY <1>0, <1>1, <1>3 DEF EvidenceKept, Evidence, Latest, Last, Running, Rests, Fits, Judged, store
    <2>4. EvidenceShown'
      <3>1. \A f \in Files : h.report.decision[f] # "accepted" => shown.review.decision[f] # "accepted"
        BY <1>2 DEF Decides, Settled
      <3>2. UNCHANGED <<manifest, reviews, worker, tree>>
        BY <1>1 DEF store
      <3> QED BY <1>0, <1>2, <1>3, <3>1, <3>2 DEF EvidenceShown, Evidence, Latest, Last, Opened, Running
    <2>5. SessionLinked'
      BY <1>0, <1>1, <1>2, <1>3 DEF SessionLinked, Evidence, Latest, Last, Opened, Running, Holds, store
    <2>6. RunAtWork'
      BY <1>1, <1>2 DEF RunAtWork, Running
    <2> QED BY <1>3, <2>1, <2>2, <2>3, <2>4, <2>5, <2>6 DEF Clean
  <1>4. CASE h.decision = "reverted"
    <2> DEFINE new == [h EXCEPT !.pc = "verify", !.seen = tree]
    <2>1. /\ shown' = [shown EXCEPT !.review = h.report, !.verification = NoVerification, !.export = NoExport]
          /\ handler' = [handler EXCEPT ![r] = new] /\ Drifted(h.report) = {}
      BY <1>0, <1>4 DEF ShowDecisions, LocalTypes
    <2>2. /\ shown' \in Sessions /\ shown'.ticket = shown.ticket /\ shown'.run = shown.run
          /\ shown'.review = h.report
      BY <1>0, <1>2, <2>1, NothingTypes DEF LocalTypes, Sessions
    <2>3. /\ new \in Handlers /\ new.pc = "verify" /\ new.decision = "reverted" /\ new.report = h.report
          /\ new.seen = tree
      BY <1>0, <1>2, <1>4 DEF Handlers, Deciding, GitTypes
    <2> HIDE DEF new
    <2>4. /\ handler' \in [Requests -> Handlers] /\ handler'[r] = new
          /\ \A q \in Requests \ {r} : handler'[q] = Idle
      BY <1>0, <1>2, <2>1, <2>3 DEF LocalTypes
    <2>5. Reverting' /\ Reverting
      BY <1>2, <1>4, <2>3, <2>4 DEF Reverting
    <2>6. RequestAtWork'
      <3>1. UNCHANGED <<tree, reviews, worker>>
        BY <1>1 DEF store
      <3>2. Decides(handler[r])'
        <4>1. handler'[r].report = h.report
          BY <2>3, <2>4
        <4>2. Holds(handler[r].report)'
          BY <1>2, <3>1, <4>1 DEF Holds
        <4>3. (Drifted(handler[r].report) = {})'
          BY <2>1, <3>1, <4>1 DEF Drifted, With
        <4> QED BY <1>2, <2>2, <2>3, <2>4, <3>1, <4>1, <4>2, <4>3 DEF Decides
      <3> QED BY <1>2, <2>3, <2>4, <3>1, <3>2, RequestMoves DEF Running
    <2> QED BY <1>3, <2>2, <2>4, <2>5, <2>6
  <1>5. CASE h.decision # "reverted"
    <2>1. shown' = [shown EXCEPT !.review = h.report] /\ Return(r)
      BY <1>5 DEF ShowDecisions
    <2>2. /\ shown' \in Sessions /\ shown'.ticket = shown.ticket /\ shown'.run = shown.run
          /\ shown'.review = h.report /\ shown'.verification = shown.verification
      BY <1>0, <1>2, <2>1 DEF LocalTypes, Sessions
    <2>3. handler' \in [Requests -> Handlers] /\ \A q \in Requests : handler'[q] = Idle
      BY <1>0, <1>2, <2>1, NothingTypes DEF Return, LocalTypes
    <2>4. ~Reverting' /\ ~Reverting
      <3>1. Idle.decision = "none"
        BY DEF Idle
      <3> QED BY <1>2, <1>5, <2>3, <3>1 DEF Reverting
    <2> QED BY <1>3, <2>2, <2>3, <2>4, RequestsRest
  <1> QED BY <1>4, <1>5

\* A revert has verified the files as they are.
LEMMA VerifyAgainStep ==
  ASSUME Clean, NEW r \in Requests, NEW status \in {"pass", "fail"}, VerifyAgain(r, status)
  PROVE  Clean'
  <1> DEFINE h == handler[r]
             v == [status |-> status, of |-> h.seen]
             m == [run |-> shown.run, verification |-> v, review |-> h.report.id]
  <1>0. /\ GitTypes /\ StoreTypes /\ LocalTypes /\ ReviewsStored /\ HeadJudged /\ SessionLinked
        /\ ExportsJudged /\ RunAtWork /\ EvidenceKept /\ EvidenceShown
    BY DEF Clean
  <1>1. /\ h.pc = "verify" /\ UNCHANGED <<tree, git, reviews, releases, worker, bounds, accepted, delivered, damage>>
        /\ NotePassed(v) /\ shown' = [shown EXCEPT !.verification = v] /\ Return(r)
    BY DEF VerifyAgain
  <1>2. /\ ~Running /\ Decides(h) /\ \A q \in Requests \ {r} : handler[q] = Idle
        /\ h \in Handlers /\ Opened /\ Last \in Tickets
        /\ h.report.id = shown.review.id /\ shown.review.id \in 1..MaxRuns /\ shown.review.id # 0
        /\ Holds(h.report)
        /\ reviews[shown.review.id].id = shown.review.id
        /\ Evidence => manifest[Last].review = shown.review.id /\ Latest = reviews[shown.review.id]
    <2>1. h.pc \in Deciding
      BY <1>1 DEF Deciding
    <2> QED BY <2>1, AtWork
  <1>3. h.decision = "reverted" /\ h.seen = tree /\ shown.review = h.report /\ Drifted(h.report) = {}
    BY <1>1, <1>2 DEF Decides
  <1>4. /\ v \in Verifications /\ v.of = tree /\ verified \subseteq verified'
        /\ v.status = "pass" => tree \in verified'
    BY <1>0, <1>1, <1>3 DEF Verifications, NotePassed, GitTypes
  <1>5. m \in Manifests /\ m.run = shown.run /\ m.verification = v /\ m.review = shown.review.id
    BY <1>0, <1>2, <1>4 DEF Manifests, LocalTypes, Sessions, Reviews
  <1>6. manifest' = IF shown.run # "none" /\ manifest[Last] # NoManifest THEN [manifest EXCEPT ![Last] = m] ELSE manifest
    BY <1>2 DEF VerifyAgain, Opened
  <1> HIDE DEF v, m
  <1>7. /\ shown' \in Sessions /\ shown'.ticket = shown.ticket /\ shown'.run = shown.run
        /\ shown'.review = shown.review /\ shown'.verification = v
    BY <1>0, <1>1, <1>4 DEF LocalTypes, Sessions
  <1>8. handler' \in [Requests -> Handlers] /\ (\A q \in Requests : handler'[q] = Idle) /\ ~Reverting'
    <2>1. handler' \in [Requests -> Handlers] /\ \A q \in Requests : handler'[q] = Idle
      BY <1>0, <1>1, <1>2, NothingTypes DEF Return, LocalTypes
    <2>2. Idle.decision = "none"
      BY DEF Idle
    <2> QED BY <2>1, <2>2 DEF Reverting
  <1>9. manifest' \in [Tickets -> Manifests] /\ manifest'[Last] \in {m, manifest[Last]}
    BY <1>0, <1>2, <1>5, <1>6 DEF StoreTypes
  <1>10. GitTypes' /\ StoreTypes' /\ LocalTypes'
    BY <1>0, <1>1, <1>7, <1>8, <1>9 DEF GitTypes, StoreTypes, LocalTypes, git, bounds
  <1>11. HeadJudged' /\ ReviewsStored' /\ ExportsJudged' /\ RequestAtWork' /\ RunAtWork'
    BY <1>0, <1>1, <1>2, <1>4, <1>8, RequestsRest DEF HeadJudged, ReviewsStored, ExportsJudged, RunAtWork, Running,
       Judged, git, bounds
  <1>12. UNCHANGED <<worker, reviews, tree, accepted>> /\ Last' = Last /\ ~Running' /\ Opened'
    BY <1>1, <1>2, <1>7 DEF Last, Running, Opened
  <1>13. CASE Evidence
    <2>1. /\ shown.run = "completed" /\ manifest[Last].review = shown.review.id /\ Rests(Latest)
          /\ \A f \in Files : Latest.decision[f] = "accepted" /\ shown.review.decision[f] # "accepted"
                                => tree[f] = Latest.sha[f]
      BY <1>0, <1>2, <1>13 DEF EvidenceKept, EvidenceShown
    <2>2. manifest'[Last] = m
      <3>1. manifest[Last] # NoManifest
        BY <1>2, <2>1 DEF NoManifest
      <3> QED BY <1>0, <1>2, <1>6, <2>1, <3>1 DEF StoreTypes
    <2>3. Evidence' /\ Latest' = Latest
      BY <1>2, <1>5, <1>12, <2>1, <2>2 DEF Evidence, Latest
    <2>4. Fits(manifest[Last].verification, Latest)'
      <3>1. \A f \in Files : Latest.decision[f] = "accepted" => tree[f] = Latest.sha[f]
        <4>1. ASSUME NEW f \in Files, h.report.decision[f] = "accepted" PROVE tree[f] = Latest.sha[f]
          BY <1>2, <1>3, <1>13, <4>1 DEF Drifted, With, Holds
        <4> QED BY <1>3, <2>1, <4>1
      <3> QED BY <1>4, <1>5, <1>12, <2>2, <2>3, <3>1 DEF Fits
    <2>5. Rests(Latest)'
      BY <1>12, <2>1, <2>3 DEF Rests, Judged
    <2>6. EvidenceKept' /\ EvidenceShown'
      BY <1>5, <1>7, <1>12, <2>1, <2>2, <2>3, <2>4, <2>5 DEF EvidenceKept, EvidenceShown
    <2>7. SessionLinked'
      BY <1>0, <1>2, <1>7, <1>12, <2>1, <2>2, <2>3, <1>5 DEF SessionLinked, Holds
    <2> QED BY <1>10, <1>11, <2>6, <2>7 DEF Clean
  <1>14. CASE ~Evidence
    <2>1. shown.run = "failed"
      BY <1>0, <1>2, <1>14 DEF SessionLinked
    <2>2. ~Evidence'
      BY <1>2, <1>5, <1>9, <1>12, <1>14, <2>1 DEF Evidence
    <2>3. EvidenceKept' /\ EvidenceShown'
      BY <2>2 DEF EvidenceKept, EvidenceShown
    <2>4. SessionLinked'
      BY <1>0, <1>2, <1>5, <1>7, <1>9, <1>12, <2>1 DEF SessionLinked, Holds, Latest
    <2> QED BY <1>10, <1>11, <2>3, <2>4 DEF Clean
  <1> QED BY <1>13, <1>14

LEMMA RaiseStep ==
  ASSUME Clean, NEW r \in Requests, Raise(r), damage' = {}
  PROVE  Clean'
  <1>1. /\ Return(r) /\ handler[r].decision # "reverted" /\ handler[r].pc # "idle"
    BY DEF Raise, CutOff, Decided
  <1> QED BY <1>1, ReturnStep DEF Raise

-----------------------------------------------------------------------------
(* The export.                                                             *)

LEMMA ExportStep ==
  ASSUME Clean, NEW r \in Requests, Export(r), damage' = {}
  PROVE  Clean'
  <1> DEFINE local == [Idle EXCEPT !.pc = "zip"]
  <1>1. local \in Handlers /\ local.pc = "zip" /\ local.decision = "none"
    BY NothingTypes DEF Handlers, Deciding, Idle
  <1>2. Request(r, local) /\ Ready
    BY DEF Export
  <1> HIDE DEF local
  <1>3. /\ ~Running /\ ~Reverting /\ handler' \in [Requests -> Handlers] /\ handler'[r] = local
        /\ \A q \in Requests \ {r} : handler'[q] = Idle
    BY <1>1, <1>2, RequestAlone
  <1>4. UNCHANGED <<tree, git, store, shown, worker, runs, verified, accepted, delivered>>
    BY <1>2 DEF Request
  <1>5. Ready'
    BY <1>2, <1>4 DEF Ready, Deliverable, Drift, Drifted, With, DeletedFiles, ChangedFiles
  <1>6. RequestAtWork'
    BY <1>1, <1>3, <1>4, <1>5, RequestMoves DEF Running, Deciding
  <1> QED BY <1>3, <1>4, <1>6, OnlyRequestsMove

\* What is ready is as it was verified and judged.
LEMMA ReadyIsJudged ==
  ASSUME Clean, ~Running, ~Reverting, Ready
  PROVE  tree \in verified /\ \A f \in Files : Judged(f, tree[f])
  <1>0. /\ GitTypes /\ StoreTypes /\ LocalTypes /\ ReviewsStored /\ SessionLinked /\ EvidenceKept /\ EvidenceShown
    BY DEF Clean
  <1>1. /\ shown.run # "failed" /\ shown.verification.status = "pass" /\ shown.review.id # 0
        /\ \A f \in Files : shown.review.decision[f] # "pending"
        /\ \A f \in Files : shown.review.decision[f] = "accepted" => tree[f] = shown.review.sha[f]
    BY DEF Ready, Deliverable, Drift, Drifted, With
  <1>2. Evidence /\ Opened /\ Holds(shown.review)
    BY <1>0, <1>1 DEF SessionLinked
  <1>3. /\ shown.verification = manifest[Last].verification /\ Latest = reviews[shown.review.id]
        /\ Fits(shown.verification, Latest) /\ Rests(Latest)
    BY <1>0, <1>2 DEF EvidenceKept, EvidenceShown, Latest
  <1>4. Latest.sha = shown.review.sha /\ \A f \in Files : Latest.decision[f] = shown.review.decision[f]
    <2>1. \A f \in Files : shown.review.decision[f] \in Decisions
      BY <1>0 DEF LocalTypes, Sessions, Reviews
    <2> QED BY <1>1, <1>2, <1>3, <2>1 DEF Holds, Settled, Decisions
  <1>5. \A f \in Files : shown.verification.of[f] = tree[f]
    BY <1>1, <1>3, <1>4 DEF Fits
  <1>6. shown.verification.of \in Trees /\ tree \in Trees
    BY <1>0 DEF LocalTypes, Sessions, Verifications, GitTypes
  <1>7. shown.verification.of = tree
    BY <1>5, <1>6 DEF Trees
  <1>8. ASSUME NEW f \in Files PROVE Judged(f, tree[f])
    <2>1. CASE shown.review.decision[f] = "accepted"
      <3>1. <<f, Latest.sha[f]>> \in accepted
        BY <1>0, <1>2, <1>3, <1>4, <2>1 DEF ReviewsStored, Holds
      <3> QED BY <1>1, <1>4, <2>1, <3>1 DEF Judged
    <2>2. CASE shown.review.decision[f] # "accepted"
      <3>1. shown.review.decision[f] \in {"none", "reverted"}
        BY <1>0, <1>1, <2>2 DEF LocalTypes, Sessions, Reviews, Decisions
      <3> QED BY <1>3, <1>4, <3>1 DEF Rests
    <2> QED BY <2>1, <2>2
  <1> QED BY <1>1, <1>3, <1>7, <1>8 DEF Fits

LEMMA WriteZipStep ==
  ASSUME Clean, NEW r \in Requests, WriteZip(r)
  PROVE  Clean'
  <1>0. /\ GitTypes /\ StoreTypes /\ LocalTypes /\ ReviewsStored /\ HeadJudged /\ SessionLinked
        /\ ExportsJudged /\ RequestAtWork /\ EvidenceKept /\ EvidenceShown
    BY DEF Clean
  <1>1. /\ handler[r].pc = "zip" /\ Return(r)
        /\ UNCHANGED <<tree, git, reviews, manifest, worker, bounds, verified, accepted, damage>>
    BY DEF WriteZip
  <1>2. ~Running /\ Ready /\ handler[r].decision = "none" /\ \A q \in Requests \ {r} : handler[q] = Idle
    BY <1>0, <1>1 DEF RequestAtWork
  <1>3. ~Reverting
    <2>1. Idle.decision = "none"
      BY DEF Idle
    <2> QED BY <1>2, <2>1 DEF Reverting
  <1>4. handler' \in [Requests -> Handlers] /\ (\A q \in Requests : handler'[q] = Idle) /\ ~Reverting'
    <2>1. handler' \in [Requests -> Handlers] /\ \A q \in Requests : handler'[q] = Idle
      BY <1>0, <1>1, <1>2, NothingTypes DEF Return, LocalTypes
    <2>2. Idle.decision = "none"
      BY DEF Idle
    <2> QED BY <2>1, <2>2 DEF Reverting
  <1>5. tree \in verified /\ \A f \in Files : Judged(f, tree[f])
    BY <1>2, <1>3, ReadyIsJudged
  <1> DEFINE export == [exists |-> TRUE, tree |-> tree]
  <1>6. export \in Exports
    BY <1>0 DEF Exports, GitTypes
  <1>7. /\ shown' \in {shown, [shown EXCEPT !.export = export]}
        /\ releases' \in {releases, [releases EXCEPT ![shown.ticket] = export]}
        /\ delivered' \in {delivered, delivered \cup {tree}}
    BY DEF WriteZip
  <1> HIDE DEF export
  <1>8. /\ shown' \in Sessions /\ shown'.ticket = shown.ticket /\ shown'.run = shown.run
        /\ shown'.review = shown.review /\ shown'.verification = shown.verification
    BY <1>0, <1>6, <1>7 DEF LocalTypes, Sessions
  <1>9. releases' \in [Tickets -> Exports]
    BY <1>0, <1>6, <1>7 DEF StoreTypes
  <1>10. GitTypes' /\ StoreTypes' /\ LocalTypes'
    BY <1>0, <1>1, <1>4, <1>8, <1>9 DEF GitTypes, StoreTypes, LocalTypes, git, bounds
  <1>11. HeadJudged' /\ ReviewsStored' /\ RequestAtWork' /\ RunAtWork'
    BY <1>0, <1>1, <1>2, <1>4, RequestsRest DEF HeadJudged, ReviewsStored, RunAtWork, Running, Judged, git, bounds
  <1>12. ExportsJudged'
    BY <1>0, <1>1, <1>5, <1>7 DEF ExportsJudged, Judged
  <1>13. EvidenceKept' /\ EvidenceShown'
    BY <1>0, <1>1, <1>3, <1>4, <1>8 DEF EvidenceKept, EvidenceShown, Evidence, Latest, Last, Opened, Running, Rests,
       Fits, Judged
  <1>14. SessionLinked'
    BY <1>0, <1>1, <1>8 DEF SessionLinked, Evidence, Latest, Last, Opened, Running, Holds
  <1> QED BY <1>10, <1>11, <1>12, <1>13, <1>14 DEF Clean

-----------------------------------------------------------------------------
(* The session.                                                            *)

\* Nothing was at work when the session moved.
LEMMA Alone ==
  ASSUME Clean, Overlap({}) = {}
  PROVE  ~Reverting /\ \A r \in Requests : handler[r] = Idle
  <1>1. \A r \in Requests : handler[r].pc = "idle"
    BY NoOverlap
  <1> QED BY <1>1, RestingRequests

\* What is shown of a ticket, and in which state, changes; the files, what
\* is stored and what was judged do not.
LEMMA SessionMoves ==
  ASSUME Clean, shown' \in Sessions, handler' \in [Requests -> Handlers], \A r \in Requests : handler'[r] = Idle,
         GitTypes', HeadJudged', commits <= commits', ~Running', worker' \in Workers,
         worker'.ticket = worker.ticket, SessionLinked', EvidenceShown', EvidenceKept',
         UNCHANGED <<tree, store, runs, verified, accepted, delivered>>
  PROVE  Clean'
  <1>0. /\ GitTypes /\ StoreTypes /\ LocalTypes /\ ReviewsStored /\ ExportsJudged
    BY DEF Clean
  <1>1. StoreTypes' /\ LocalTypes'
    BY <1>0 DEF StoreTypes, LocalTypes, store
  <1>2. ExportsJudged' /\ RunAtWork' /\ RequestAtWork'
    BY <1>0, RequestsRest DEF ExportsJudged, RunAtWork, Judged
  <1>3. ReviewsStored'
    <2>1. ASSUME NEW j \in 1..MaxRuns, reviews[j].id = j PROVE reviews[j].rev <= commits'
      <3>1. reviews[j].rev <= commits /\ reviews[j].rev \in Nat
        BY <1>0, <2>1 DEF ReviewsStored, StoreTypes, Reviews
      <3> QED BY <1>0, <3>1 DEF GitTypes
    <2> QED BY <1>0, <2>1 DEF ReviewsStored, store
  <1> QED BY <1>1, <1>2, <1>3 DEF Clean

\* Nothing that decides whether there is evidence changed.
LEMMA EvidenceStays ==
  ASSUME Clean, ~Running, ~Running', Last' = Last, ~Reverting, UNCHANGED <<tree, store, verified, accepted>>
  PROVE  EvidenceKept' /\ (Evidence' <=> Evidence) /\ Latest' = Latest
  <1>0. EvidenceKept
    BY DEF Clean
  <1>1. (Evidence' <=> Evidence) /\ Latest' = Latest
    BY DEF Evidence, Latest, store
  <1> QED BY <1>0, <1>1 DEF EvidenceKept, Rests, Fits, Judged, store

LEMMA NewTicketStep ==
  ASSUME Clean, NEW t \in Tickets, NewTicket(t), damage' = {}
  PROVE  Clean'
  <1>0. GitTypes /\ StoreTypes /\ LocalTypes /\ HeadJudged /\ SessionLinked
    BY DEF Clean
  <1>1. /\ manifest[t] = NoManifest /\ ~Running /\ Overlap({}) = {}
        /\ shown' = Session(t, "none", NoVerification, NoReview, NoExport)
        /\ UNCHANGED <<tree, git, store, worker, handler, runs, verified, accepted, delivered>>
    BY DEF NewTicket, Move
  <1>2. /\ shown' \in Sessions /\ shown'.ticket = t /\ shown'.run = "none" /\ shown'.review = NoReview
    BY <1>1, NothingTypes, SessionType DEF Outcomes
  <1>3. ~Reverting /\ \A r \in Requests : handler[r] = Idle
    BY <1>1, Alone
  <1>4. GitTypes' /\ HeadJudged' /\ ~Running' /\ Last' = Last /\ commits <= commits'
    BY <1>0, <1>1 DEF GitTypes, HeadJudged, Judged, Running, Last, git, store
  <1>5. EvidenceKept' /\ (Evidence' <=> Evidence) /\ Latest' = Latest
    BY <1>1, <1>3, <1>4, EvidenceStays
  <1>6. EvidenceShown'
    <2>1. ~(Evidence /\ t = Last)
      BY <1>1 DEF Evidence, NoManifest
    <2> QED BY <1>2, <1>4, <1>5, <2>1 DEF EvidenceShown, Opened
  <1>7. SessionLinked'
    <2>1. NoReview.id = 0
      BY DEF NoReview
    <2>2. Last \in Tickets /\ manifest[Last].review # 0 => Latest.id = manifest[Last].review
      BY <1>0 DEF SessionLinked
    <2> QED BY <1>1, <1>2, <1>4, <1>5, <2>1, <2>2 DEF SessionLinked, store
  <1> QED BY <1>0, <1>1, <1>2, <1>3, <1>4, <1>5, <1>6, <1>7, SessionMoves DEF LocalTypes, Last

\* What a ticket's manifest and the store say of it.
LEMMA RestoredIs ==
  ASSUME Clean, NEW t \in Tickets
  PROVE  /\ Restored(t) \in Sessions /\ Restored(t).ticket = t /\ Restored(t).run = manifest[t].run
         /\ Restored(t).verification = manifest[t].verification
         /\ Restored(t).review = IF manifest[t].review = 0 THEN NoReview ELSE reviews[manifest[t].review]
         /\ manifest[t] \in Manifests
         /\ manifest[t].review # 0 => manifest[t].review \in 1..MaxRuns /\ reviews[manifest[t].review] \in Reviews
  <1>0. StoreTypes
    BY DEF Clean
  <1>1. manifest[t] \in Manifests /\ releases[t] \in Exports
    BY <1>0 DEF StoreTypes
  <1>2. /\ manifest[t].run \in Outcomes /\ manifest[t].verification \in Verifications
        /\ manifest[t].review \in 0..MaxRuns
    BY <1>1 DEF Manifests
  <1>3. manifest[t].review # 0 => manifest[t].review \in 1..MaxRuns
    BY <1>2, DeliveryAssumption
  <1>4. manifest[t].review # 0 => reviews[manifest[t].review] \in Reviews
    BY <1>0, <1>3 DEF StoreTypes
  <1> DEFINE review == IF manifest[t].review = 0 THEN NoReview ELSE reviews[manifest[t].review]
  <1>5. review \in Reviews
    BY <1>4, NothingTypes
  <1>6. Restored(t) = Session(t, manifest[t].run, manifest[t].verification, review, releases[t])
    BY DEF Restored
  <1>7. review = IF manifest[t].review = 0 THEN NoReview ELSE reviews[manifest[t].review]
    OBVIOUS
  <1> HIDE DEF review
  <1> QED BY <1>1, <1>2, <1>3, <1>4, <1>5, <1>6, <1>7, SessionType

\* The ticket of the latest run is shown as its manifest says.
LEMMA LastRestored ==
  ASSUME Clean, Last \in Tickets, shown' = Restored(Last), ~Running', Last' = Last,
         UNCHANGED <<tree, store, accepted>>, Evidence => Evidence', Evidence' => Evidence
  PROVE  EvidenceShown' /\ SessionLinked'
  <1>0. StoreTypes /\ SessionLinked /\ ReviewsStored /\ EvidenceKept
    BY DEF Clean
  <1>1. /\ shown'.ticket = Last /\ shown'.run = manifest[Last].run
        /\ shown'.verification = manifest[Last].verification
        /\ shown'.review = IF manifest[Last].review = 0 THEN NoReview ELSE Latest
        /\ manifest[Last] \in Manifests
        /\ manifest[Last].review # 0 => manifest[Last].review \in 1..MaxRuns /\ Latest \in Reviews
    BY RestoredIs DEF Latest
  <1>2. UNCHANGED <<manifest, reviews, tree>> /\ Latest' = Latest /\ Opened'
    BY <1>1 DEF store, Latest, Opened
  <1>3. manifest[Last].review # 0 => Latest.id = manifest[Last].review
    BY <1>0 DEF SessionLinked
  <1>4. EvidenceShown'
    <2>1. ASSUME Evidence
          PROVE  manifest[Last].run = "completed" /\ manifest[Last].review # 0
      BY <1>0, <2>1 DEF EvidenceKept, Evidence
    <2> QED BY <1>1, <1>2, <1>3, <2>1 DEF EvidenceShown
  <1>5. SessionLinked'
    <2>1. NoReview.id = 0
      BY DEF NoReview
    <2>2. shown'.review.id # 0 => manifest[Last].review # 0 /\ shown'.review = Latest
      BY <1>1, <2>1
    <2>3. shown'.review.id # 0 => Holds(shown.review)'
      <3>1. ASSUME shown'.review.id # 0 PROVE Holds(shown.review)'
        <4>1. /\ shown'.review = Latest /\ Latest.id = manifest[Last].review
              /\ manifest[Last].review \in 1..MaxRuns /\ Latest = reviews[manifest[Last].review]
          BY <1>1, <1>3, <2>2, <3>1 DEF Latest
        <4> QED BY <1>2, <4>1 DEF Holds
      <3> QED BY <3>1
    <2>4. shown'.review.id = 0 => shown'.review = NoReview
      BY <1>1, <1>3
    <2>5. shown'.run # "failed" /\ shown'.review.id # 0 => Evidence'
      BY <1>1, <1>2, <2>2 DEF Evidence
    <2> QED BY <1>1, <1>2, <1>3, <2>3, <2>4, <2>5 DEF SessionLinked, Last
  <1> QED BY <1>4, <1>5

LEMMA SelectTicketStep ==
  ASSUME Clean, NEW t \in Tickets, SelectTicket(t), damage' = {}
  PROVE  Clean'
  <1>0. GitTypes /\ LocalTypes /\ HeadJudged
    BY DEF Clean
  <1>1. /\ t = Last /\ ~Running /\ Overlap({}) = {} /\ shown' = Restored(t)
        /\ UNCHANGED <<tree, git, store, worker, handler, runs, verified, accepted, delivered>>
    BY DEF SelectTicket, Move, Last
  <1>2. ~Reverting /\ \A r \in Requests : handler[r] = Idle
    BY <1>1, Alone
  <1>3. GitTypes' /\ HeadJudged' /\ ~Running' /\ Last' = Last /\ commits <= commits'
    BY <1>0, <1>1 DEF GitTypes, HeadJudged, Judged, Running, Last, git, store
  <1>4. EvidenceKept' /\ (Evidence' <=> Evidence)
    BY <1>1, <1>2, <1>3, EvidenceStays
  <1>5. shown' \in Sessions
    BY <1>1, RestoredIs
  <1>6. EvidenceShown' /\ SessionLinked'
    BY <1>1, <1>3, <1>4, LastRestored
  <1> QED BY <1>0, <1>1, <1>2, <1>3, <1>4, <1>5, <1>6, SessionMoves DEF LocalTypes

\* No ticket is open: nothing is shown that could be exported.
LEMMA NothingShown ==
  ASSUME Clean, shown' = Session(NoTicket, "none", NoVerification, NoReview, NoExport), Last' = Last,
         UNCHANGED <<manifest, reviews>>
  PROVE  shown' \in Sessions /\ EvidenceShown' /\ SessionLinked'
  <1>0. SessionLinked
    BY DEF Clean
  <1>1. /\ shown' \in Sessions /\ shown'.ticket = NoTicket /\ shown'.review = NoReview
    <2>1. NoTicket \in Tickets \cup {NoTicket} /\ "none" \in Outcomes
      BY DEF Outcomes
    <2>2. NoVerification \in Verifications /\ NoReview \in Reviews /\ NoExport \in Exports
      BY NothingTypes
    <2> DEFINE none == Session(NoTicket, "none", NoVerification, NoReview, NoExport)
    <2>3. none \in Sessions /\ none.ticket = NoTicket /\ none.review = NoReview
      BY <2>1, <2>2 DEF Session, Sessions
    <2> QED BY <2>3
  <1>2. EvidenceShown'
    BY <1>1, DeliveryAssumption DEF EvidenceShown, Evidence, Opened
  <1>3. SessionLinked'
    <2>1. NoReview.id = 0
      BY DEF NoReview
    <2>2. Last \in Tickets /\ manifest[Last].review # 0 => (Latest.id = manifest[Last].review)'
      BY <1>0 DEF SessionLinked, Latest
    <2> QED BY <1>1, <2>1, <2>2, DeliveryAssumption DEF SessionLinked
  <1> QED BY <1>1, <1>2, <1>3

LEMMA ResumeTicketStep ==
  ASSUME Clean, ResumeTicket, damage' = {}
  PROVE  Clean'
  <1>0. GitTypes /\ LocalTypes
    BY DEF Clean
  <1>1. /\ ~Running /\ Overlap({}) = {} /\ PrepareCleanWorktree
        /\ shown' = Session(NoTicket, "none", NoVerification, NoReview, NoExport)
        /\ UNCHANGED <<tree, store, worker, handler, runs, verified, accepted, delivered>>
    BY DEF ResumeTicket, Move
  <1>2. ~Reverting /\ \A r \in Requests : handler[r] = Idle
    BY <1>1, Alone
  <1>3. UNCHANGED <<manifest, reviews>> /\ ~Running' /\ Last' = Last
    BY <1>1 DEF Running, Last, store
  <1>4. GitTypes' /\ HeadJudged' /\ commits <= commits'
    BY <1>0, <1>1, <1>3, CarriedForward DEF GitTypes
  <1>5. EvidenceKept'
    BY <1>1, <1>2, <1>3, EvidenceStays
  <1>6. shown' \in Sessions /\ EvidenceShown' /\ SessionLinked'
    BY <1>1, <1>3, NothingShown
  <1> QED BY <1>0, <1>1, <1>2, <1>3, <1>4, <1>5, <1>6, SessionMoves DEF LocalTypes

\* An accepted file may be edited: evidence is about the file as it was
\* captured, and drift keeps it from being exported.
LEMMA EditStep ==
  ASSUME Clean, NEW f \in Files, NEW c \in Contents \cup {Absent}, Edit(f, c), damage' = {}
  PROVE  Clean'
  <1>0. /\ GitTypes /\ StoreTypes /\ LocalTypes /\ ReviewsStored /\ HeadJudged /\ SessionLinked
        /\ ExportsJudged /\ EvidenceKept /\ EvidenceShown
    BY DEF Clean
  <1>1. /\ Overlap({}) = {} /\ ~Running /\ shown.review.decision[f] = "accepted"
        /\ tree' = [tree EXCEPT ![f] = c]
        /\ UNCHANGED <<git, store, shown, worker, handler, runs, decisions, verified, accepted, delivered>>
    BY DEF Edit, With
  <1>2. ~Reverting /\ \A r \in Requests : handler[r] = Idle
    BY <1>1, Alone
  <1>3. tree' \in Trees /\ \A g \in Files : g # f => tree'[g] = tree[g]
    BY <1>0, <1>1 DEF GitTypes, Trees
  <1>4. GitTypes' /\ StoreTypes' /\ LocalTypes'
    BY <1>0, <1>1, <1>3 DEF GitTypes, StoreTypes, LocalTypes, git, store
  <1>5. ReviewsStored' /\ HeadJudged' /\ ExportsJudged' /\ RequestAtWork' /\ RunAtWork'
    BY <1>0, <1>1, <1>2, RequestsRest DEF ReviewsStored, HeadJudged, ExportsJudged, RunAtWork, Running, Judged, git, store
  <1>6. SessionLinked'
    BY <1>0, <1>1 DEF SessionLinked, Evidence, Latest, Last, Opened, Running, Holds, store
  <1>7. shown.review.id # 0 /\ Holds(shown.review) /\ Opened
    <2>1. NoReview.decision[f] # "accepted"
      BY DEF NoReview
    <2> QED BY <1>0, <1>1, <2>1 DEF SessionLinked
  <1>8. UNCHANGED <<manifest, reviews, shown, Last, accepted, verified>> /\ Latest' = Latest /\ (Evidence' <=> Evidence)
    BY <1>1 DEF Last, Latest, Evidence, Running, store
  <1>9. Evidence => Latest.decision[f] = "accepted"
    BY <1>0, <1>1, <1>7 DEF EvidenceShown, Holds, Settled, Latest
  <1>10. EvidenceKept'
    <2>1. Evidence => Rests(Latest)'
      BY <1>0, <1>3, <1>8, <1>9 DEF EvidenceKept, Rests, Judged
    <2>2. Evidence => Fits(manifest[Last].verification, Latest)'
      BY <1>0, <1>2, <1>3, <1>8, <1>9 DEF EvidenceKept, Fits
    <2> QED BY <1>0, <1>8, <2>1, <2>2 DEF EvidenceKept
  <1>11. EvidenceShown'
    <2>1. Opened' /\ ~Reverting'
      BY <1>1, <1>2, <1>7, <1>8 DEF Opened, Reverting
    <2> QED BY <1>0, <1>1, <1>2, <1>3, <1>7, <1>8, <2>1 DEF EvidenceShown
  <1> QED BY <1>4, <1>5, <1>6, <1>10, <1>11 DEF Clean

\* A run that was under way left no manifest; a request that was at work had
\* not dropped the verification.
LEMMA StopStep ==
  ASSUME Clean, Stop, damage' = {}
  PROVE  Clean'
  <1>0. /\ GitTypes /\ StoreTypes /\ LocalTypes /\ ReviewsStored /\ HeadJudged /\ SessionLinked
        /\ ExportsJudged /\ EvidenceKept /\ EvidenceShown /\ RunAtWork
    BY DEF Clean
  <1>1. /\ ~Reverting
        /\ shown' = IF shown.ticket \in Tickets THEN Restored(shown.ticket)
                    ELSE Session(NoTicket, "none", NoVerification, NoReview, NoExport)
        /\ worker' = Resting(worker.ticket) /\ handler' = [r \in Requests |-> Idle]
        /\ UNCHANGED <<tree, git, store, runs, verified, accepted, delivered>>
    BY DEF Stop, CutOff, Reverting
  <1>2. worker' \in Workers /\ worker'.ticket = worker.ticket /\ ~Running' /\ Last' = Last
    <2>1. worker.ticket \in Tickets \cup {NoTicket}
      BY <1>0 DEF LocalTypes, Workers
    <2> QED BY <1>1, <2>1, NothingTypes DEF Resting, Running, Last
  <1>3. handler' \in [Requests -> Handlers] /\ \A r \in Requests : handler'[r] = Idle
    BY <1>1, NothingTypes
  <1>4. UNCHANGED <<manifest, reviews>> /\ Latest' = Latest
    BY <1>1, <1>2 DEF store, Latest
  <1>5. Evidence' <=> Evidence
    <2>1. CASE Running
      <3>1. manifest[Last] = NoManifest
        BY <1>0, <2>1 DEF RunAtWork
      <3> QED BY <1>2, <1>4, <3>1 DEF Evidence, NoManifest
    <2>2. CASE ~Running
      BY <1>2, <1>4, <2>2 DEF Evidence
    <2> QED BY <2>1, <2>2
  <1>6. EvidenceKept'
    BY <1>0, <1>1, <1>2, <1>4, <1>5 DEF EvidenceKept, Rests, Fits, Judged
  <1>7. GitTypes' /\ HeadJudged' /\ commits <= commits'
    BY <1>0, <1>1 DEF GitTypes, HeadJudged, Judged, git, store
  <1>8. CASE shown.ticket \notin Tickets
    <2>1. shown' \in Sessions /\ EvidenceShown' /\ SessionLinked'
      BY <1>1, <1>2, <1>4, <1>8, NothingShown
    <2> QED BY <1>0, <1>1, <1>2, <1>3, <1>6, <1>7, <2>1, SessionMoves
  <1>9. CASE shown.ticket \in Tickets /\ Opened
    <2>1. Last \in Tickets /\ shown' = Restored(Last)
      BY <1>1, <1>9 DEF Opened
    <2>2. shown' \in Sessions
      BY <2>1, RestoredIs
    <2>3. EvidenceShown' /\ SessionLinked'
      BY <1>1, <1>2, <1>5, <2>1, LastRestored
    <2> QED BY <1>0, <1>1, <1>2, <1>3, <1>6, <1>7, <2>2, <2>3, SessionMoves
  <1>10. CASE shown.ticket \in Tickets /\ ~Opened
    <2>1. manifest[shown.ticket] = NoManifest /\ shown' = Restored(shown.ticket)
      BY <1>0, <1>1, <1>10 DEF SessionLinked
    <2>2. /\ shown' \in Sessions /\ shown'.ticket = shown.ticket /\ shown'.review = NoReview
      BY <1>10, <2>1, RestoredIs DEF NoManifest
    <2>3. ~Opened'
      BY <1>2, <1>10, <2>2 DEF Opened
    <2>4. SessionLinked'
      <3>1. NoReview.id = 0
        BY DEF NoReview
      <3>2. Last \in Tickets /\ manifest[Last].review # 0 => Latest.id = manifest[Last].review
        BY <1>0 DEF SessionLinked
      <3> QED BY <1>2, <1>4, <2>1, <2>2, <3>1, <3>2 DEF SessionLinked
    <2> QED BY <1>0, <1>1, <1>2, <1>3, <1>6, <1>7, <2>2, <2>3, <2>4, SessionMoves DEF EvidenceShown
  <1> QED BY <1>8, <1>9, <1>10

-----------------------------------------------------------------------------
(* The results.                                                            *)

LEMMA DeliveryStep ==
  ASSUME DeliveryInv, [Next]_vars
  PROVE  DeliveryInv'
  <1> SUFFICES ASSUME damage' = {} PROVE Clean'
    BY DEF DeliveryInv
  <1>0. Clean
    BY DamageStays DEF DeliveryInv
  <1>1. CASE UNCHANGED vars
    <2>1. UNCHANGED <<tree, git, store, shown, worker, handler, bounds, history>>
      BY <1>1 DEF vars
    <2>2. /\ GitTypes /\ StoreTypes /\ LocalTypes /\ ReviewsStored /\ HeadJudged /\ SessionLinked
          /\ ExportsJudged /\ EvidenceKept /\ EvidenceShown /\ RunAtWork /\ RequestAtWork
      BY <1>0 DEF Clean
    <2>3. GitTypes' /\ StoreTypes' /\ LocalTypes' /\ ReviewsStored' /\ HeadJudged' /\ ExportsJudged'
      BY <2>1, <2>2 DEF GitTypes, StoreTypes, LocalTypes, ReviewsStored, HeadJudged, ExportsJudged, Judged,
         git, store, bounds, history
    <2>4. SessionLinked'
      BY <2>1, <2>2 DEF SessionLinked, Evidence, Latest, Last, Opened, Running, Holds, store
    <2>5. EvidenceKept' /\ EvidenceShown'
      BY <2>1, <2>2 DEF EvidenceKept, EvidenceShown, Evidence, Latest, Last, Opened, Running, Reverting, Rests,
         Fits, Judged, store, history
    <2>6. RunAtWork'
      BY <2>1, <2>2 DEF RunAtWork, Running, Opened, Last, Rests, Fits, Judged, git, store, bounds, history
    <2>7. RequestAtWork'
      <3>1. ASSUME NEW r \in Requests PROVE Decides(handler[r])' <=> Decides(handler[r])
        BY <2>1 DEF Decides, Holds, Takes, Drifted, With, Judged, git, store, history
      <3>2. Ready' <=> Ready
        BY <2>1 DEF Ready, Deliverable, Drift, Drifted, With, DeletedFiles, ChangedFiles
      <3> QED BY <2>1, <2>2, <3>1, <3>2 DEF RequestAtWork, Running
    <2> QED BY <2>3, <2>4, <2>5, <2>6, <2>7 DEF Clean
  <1>2. CASE StartRun
    BY <1>0, <1>2, StartRunStep
  <1>3. CASE Worker
    BY <1>0, <1>3, AgentsStep, VerifyingStep, CaptureReviewStep, FinishRunStep DEF Worker
  <1>4. ASSUME NEW r \in Requests,
               \/ \E decision \in {"accepted", "reverted"}, S \in SUBSET Files : Decide(r, decision, S)
               \/ Export(r)
        PROVE  Clean'
    BY <1>0, <1>4, DecideStep, ExportStep
  <1>5. ASSUME NEW r \in Requests, Handles(r) PROVE Clean'
    <2>1. CASE \E f \in Files : TakeFile(r, f)
      BY <1>0, <2>1, TakeFileStep
    <2>2. CASE RestoreFile(r) \/ SaveDecision(r)
      BY <1>0, <2>2, RestoreFileStep, SaveDecisionStep
    <2>3. CASE CheckpointAccepted(r) \/ ShowDecisions(r) \/ Raise(r)
      BY <1>0, <2>3, CheckpointAcceptedStep, ShowDecisionsStep, RaiseStep
    <2>4. CASE \E status \in {"pass", "fail"} : VerifyAgain(r, status)
      BY <1>0, <2>4, VerifyAgainStep
    <2>5. CASE WriteZip(r)
      BY <1>0, <2>5, WriteZipStep
    <2> QED BY <1>5, <2>1, <2>2, <2>3, <2>4, <2>5 DEF Handles
  <1>6. ASSUME NEW t \in Tickets, NewTicket(t) \/ SelectTicket(t) PROVE Clean'
    BY <1>0, <1>6, NewTicketStep, SelectTicketStep
  <1>7. CASE ResumeTicket
    BY <1>0, <1>7, ResumeTicketStep
  <1>8. ASSUME NEW f \in Files, NEW c \in Contents \cup {Absent}, Edit(f, c) PROVE Clean'
    BY <1>0, <1>8, EditStep
  <1>9. CASE Stop
    BY <1>0, <1>9, StopStep
  <1> QED BY <1>1, <1>2, <1>3, <1>4, <1>5, <1>6, <1>7, <1>8, <1>9 DEF Next

\* As long as nothing let evidence and files drift apart, the session, the
\* stored reviews, the manifests and the isolated repository agree (select_task,
\* decide_all, _restore_task_artifacts).
THEOREM DeliveryHolds == Spec => []DeliveryInv
  <1>1. DeliveryInv /\ [Next]_vars => DeliveryInv'
    BY DeliveryStep
  <1> QED BY <1>1, DeliveryStarts, PTL DEF Spec

\* What is exported passed a verification and was accepted, whatever the
\* files, the requests and the order of runs, decisions, edits, resumed
\* tickets, raised calls and stops that keep the history undamaged
\* (_release_gate, export_project).
THEOREM DeliveredWasJudgedHolds == Spec => []DeliveredWasJudged
  <1>1. DeliveryInv => DeliveredWasJudged
    BY DEF DeliveryInv, Clean, ExportsJudged, Judged, DeliveredWasJudged, OnlyVerifiedIsDelivered
  <1> QED BY <1>1, DeliveryHolds, PTL

\* Unless an attempt is carried forward, HEAD of the isolated copy holds only
\* what was imported or accepted (checkpoint_accepted_changes,
\* _restore_carry_forward_review_base).
THEOREM HeadIsAcceptedHolds == Spec => []HeadIsAccepted
  <1>1. DeliveryInv => HeadIsAccepted
    BY DEF DeliveryInv, Clean, HeadJudged, Judged, HeadIsAccepted
  <1> QED BY <1>1, DeliveryHolds, PTL

\* A stored decision changes only where the file was undecided, and a
\* review is captured where none was stored.
LEMMA DecisionsStay ==
  ASSUME DeliveryInv, [Next]_vars, damage' = {}, NEW i \in 1..MaxRuns, NEW f \in Files,
         Settled(reviews[i].decision[f])
  PROVE  reviews'[i].decision[f] = reviews[i].decision[f]
  <1>0. Clean
    BY DamageStays DEF DeliveryInv
  <1>1. CASE reviews' = reviews
    BY <1>1
  <1>2. CASE CaptureReview
    <2>1. i # runs
      <3>1. worker.pc = "capture" /\ RunAtWork
        BY <1>0, <1>2 DEF CaptureReview, Clean
      <3>2. reviews[runs] = NoReview
        BY <3>1 DEF RunAtWork, Running
      <3> QED BY <3>2 DEF NoReview, Settled
    <2> QED BY <1>0, <1>2, <2>1 DEF CaptureReview, Clean, StoreTypes
  <1>3. ASSUME NEW r \in Requests, SaveDecision(r) PROVE reviews'[i].decision[f] = reviews[i].decision[f]
    <2> DEFINE h == handler[r]
               report == [h.loaded EXCEPT !.decision = [g \in Files |-> IF g \in h.taken THEN h.decision ELSE @[g]]]
    <2>1. h.pc = "save" /\ reviews' = [reviews EXCEPT ![report.id] = report]
      BY <1>3 DEF SaveDecision
    <2>2. Decides(h) /\ h.report.id \in 1..MaxRuns /\ reviews[h.report.id].id = h.report.id
      <3>1. h.pc \in Deciding
        BY <2>1 DEF Deciding
      <3> QED BY <1>0, <3>1, AtWork
    <2>3. Takes(h) /\ h.loaded = reviews[h.report.id] /\ h.loaded \in Reviews
      BY <1>0, <2>1, <2>2 DEF Decides, Takes, Clean, StoreTypes
    <2>4. report.id = h.report.id /\ \A g \in Files : report.decision[g] = IF g \in h.taken THEN h.decision ELSE h.loaded.decision[g]
      BY <2>2, <2>3 DEF Reviews
    <2>5. i = h.report.id => f \notin h.taken
      BY <2>3 DEF Takes, Settled
    <2> HIDE DEF report
    <2> QED BY <1>0, <2>1, <2>2, <2>3, <2>4, <2>5 DEF Clean, StoreTypes
  <1>4. CASE UNCHANGED vars
    BY <1>1, <1>4 DEF vars, store
  <1>5. CASE StartRun \/ ResumeTicket \/ Stop
    BY <1>1, <1>5 DEF StartRun, ResumeTicket, Move, Stop, store
  <1>6. CASE Worker
    BY <1>1, <1>2, <1>6 DEF Worker, AgentWrites, AgentsComplete, RunFails, ResetForReview, WorkerVerifies,
       FinishRun, store
  <1>7. ASSUME NEW r \in Requests,
               \/ \E decision \in {"accepted", "reverted"}, S \in SUBSET Files : Decide(r, decision, S)
               \/ Export(r)
        PROVE  reviews' = reviews
    BY <1>7 DEF Decide, Export, Request, store
  <1>8. ASSUME NEW r \in Requests, Handles(r) PROVE reviews' = reviews \/ SaveDecision(r)
    BY <1>8 DEF Handles, TakeFile, RestoreFile, CheckpointAccepted, ShowDecisions, Raise, VerifyAgain, WriteZip, store
  <1>9. ASSUME NEW t \in Tickets, NewTicket(t) \/ SelectTicket(t) PROVE reviews' = reviews
    BY <1>9 DEF NewTicket, SelectTicket, Move, store
  <1>10. ASSUME NEW g \in Files, NEW c \in Contents \cup {Absent}, Edit(g, c) PROVE reviews' = reviews
    BY <1>10 DEF Edit, store
  <1> QED BY <1>1, <1>3, <1>4, <1>5, <1>6, <1>7, <1>8, <1>9, <1>10 DEF Next

\* A stored decision is never taken back by a later one, nor by the capture of
\* another review (ReviewRuntime.accept, ReviewRuntime.capture).
THEOREM DecisionsKeptHolds == Spec => DecisionsKept
  <1>1. DeliveryInv /\ [Next]_vars =>
          [damage' = {} => \A i \in 1..MaxRuns : \A f \in Files :
             reviews[i].decision[f] \in {"accepted", "reverted"} =>
                 reviews'[i].decision[f] = reviews[i].decision[f]]_vars
    BY DecisionsStay DEF Settled
  <1> QED BY <1>1, DeliveryHolds, PTL DEF Spec, DecisionsKept
=============================================================================
