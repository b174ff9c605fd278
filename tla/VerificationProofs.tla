--------------------------- MODULE VerificationProofs ---------------------------
(***************************************************************************)
(* Proofs about Verification, for any snapshots, questions and bounds: what *)
(* a green run has done and shown, and that the service with its runs in   *)
(* five commands is the service of BotService.                             *)
(***************************************************************************)
EXTENDS Verification, BotServiceProofs

\* Seen by the service, every step is one of its own, or a verification whose run
\* is no longer in its concurrency group.
LEMMA ServiceSteps == [VerificationNext]_verificationVars => AnyStep
<1> SUFFICES ASSUME [VerificationNext]_verificationVars PROVE AnyStep
  OBVIOUS
<1> USE DEF AnyStep
<1>1. ASSUME NEW r \in Receipt, Run(r) PROVE AnyStep
  <2>1. CASE StartRun(r)
    <3>1. RunEnds(r)
      BY <2>1 DEF StartRun, RunEnds
    <3> QED BY <3>1 DEF Next, Relay
  <2>2. CASE UNCHANGED vars
    BY <2>2
  <2> QED BY <1>1, <2>1, <2>2 DEF Run, LoadReceipt, ReadSnapshot, Compare, SubmitVerification,
        Resubmit, Verified, CheckPull, ReadView, ReadStatus, Confirm, Fail
<1>2. ASSUME NEW r \in Receipt, VerificationJob(r) PROVE AnyStep
  BY <1>2 DEF VerificationJob, RunVerification, RefuseVerification, ExpireVerification
<1>7. CASE RunningJob
  BY <1>7 DEF RunningJob, CheckVerification, FinishVerification, StopVerification, Next, Relay, Mark
<1>3. CASE Publication
  BY <1>3 DEF Publication, PostWithId, DeliveryFailsWithId, CrashAfterPublishWithJobs,
       CrashWithJobs, Next, Flush, Deliver, Environment
<1>4. CASE People
  BY <1>4 DEF People, Next, Author
<1>5. CASE Service
  BY <1>5 DEF Service, Next, Author, Operator, Relay, Sync, Grade, Flush, Deliver, Environment
<1>6. CASE UNCHANGED verificationVars
  BY <1>6 DEF verificationVars
<1> QED BY <1>1, <1>2, <1>3, <1>4, <1>5, <1>6, <1>7 DEF VerificationNext

-------------------------------------------------------------------------------
(***************************************************************************)
(* The types.                                                              *)
(***************************************************************************)
RunnerTypeOK ==
    /\ step \in [Receipt -> Commands \cup {"none", "polling", "view", "status", "confirm"}]
    /\ run \in [Receipt -> Nat]
    /\ file \in [Receipt -> StateFile]
    /\ resubmits \in [Receipt -> 0 .. MaxResubmits]
    /\ did \in [Receipt -> SUBSET Commands]
    /\ calm \in [Receipt -> BOOLEAN]

ServerTypeOK ==
    /\ job \in [Receipt -> {"none", "queued", "lost", "verified", "refused"}]
    /\ posted \in [Heads -> Nat]
    /\ remote \in [Receipt -> Nat]

\* A receipt is its snapshot and its questions.
LEMMA Receipts == \A r \in Receipt : r.snap \in Snapshots /\ r = [snap |-> r.snap, qv |-> r.qv]
BY DEF Receipt

\* Nothing runs at the start.
LEMMA VerificationTypeInit == VerificationInit => VerificationTypeOK
<1> SUFFICES ASSUME VerificationInit PROVE VerificationTypeOK
  OBVIOUS
<1>1. TypeOK
  BY TypeInit DEF VerificationInit
<1>2. NoFile \in StateFile /\ 0 \in 0 .. MaxResubmits
  BY VerificationAssumption DEF NoFile, StateFile
<1> QED BY <1>1, <1>2 DEF VerificationInit, VerificationTypeOK

\* A command leaves one of its files, and goes on to one of the commands.
LEMMA RunnerTypeNext ==
    ASSUME TypeOK, RunnerTypeOK, [VerificationNext]_verificationVars
    PROVE  RunnerTypeOK'
<1> USE DEF RunnerTypeOK
<1>1. ASSUME NEW r \in Receipt, Run(r) PROVE RunnerTypeOK'
  <2>1. ASSUME NEW stage \in Commands, NEW snap \in Snapshots \cup {None},
               NEW next \in Commands \cup {"none"}, WriteState(r, stage, snap, next),
               UNCHANGED <<run, resubmits, calm>>
        PROVE  RunnerTypeOK'
    BY <2>1 DEF WriteState, StateFile
  <2>2. ASSUME NEW next \in Commands \cup {"none", "polling", "view", "status", "confirm"},
               Goto(r, next)
        PROVE  /\ UNCHANGED <<file, did>>
               /\ step' \in [Receipt -> Commands \cup {"none", "polling", "view", "status", "confirm"}]
    BY <2>2 DEF Goto
  <2>3. {"receipt", "snapshot", "compare", "verify", "publication"} \subseteq Commands
    BY DEF Commands
  <2>4. CASE StartRun(r)
    BY <2>4, VerificationAssumption DEF StartRun
  <2>5. CASE LoadReceipt(r)
    BY <2>1, <2>3, <2>5 DEF LoadReceipt
  <2>6. CASE ReadSnapshot(r)
    <3>1. pull.snap \in Snapshots
      BY DEF TypeOK
    <3> QED BY <2>1, <2>3, <2>6, <3>1 DEF ReadSnapshot
  <2>7. CASE Compare(r)
    BY <2>1, <2>3, <2>7, Receipts DEF Compare
  <2>8. CASE SubmitVerification(r)
    BY <2>2, <2>3, <2>8 DEF SubmitVerification
  <2>9. CASE Resubmit(r)
    BY <2>9, VerificationAssumption DEF Resubmit
  <2>10. CASE Verified(r)
    BY <2>1, <2>3, <2>10, Receipts DEF Verified
  <2>11. CASE CheckPull(r)
    <3>1. (pull.snap = r.snap) \in BOOLEAN
      OBVIOUS
    <3> QED BY <2>2, <2>3, <2>11, <3>1 DEF CheckPull
  <2>12. CASE ReadView(r)
    BY <2>2, <2>3, <2>12 DEF ReadView
  <2>13. CASE ReadStatus(r)
    BY <2>2, <2>3, <2>13 DEF ReadStatus
  <2>14. CASE Confirm(r)
    BY <2>1, <2>3, <2>14, Receipts DEF Confirm
  <2>15. CASE Fail(r)
    BY <2>2, <2>15 DEF Fail
  <2> QED BY <1>1, <2>4, <2>5, <2>6, <2>7, <2>8, <2>9, <2>10, <2>11, <2>12, <2>13, <2>14, <2>15
        DEF Run
<1>2. CASE UNCHANGED runner
  BY <1>2 DEF runner
<1>3. CASE People
  BY <1>3 DEF People
<1> QED BY <1>1, <1>2, <1>3 DEF VerificationNext, VerificationJob, RunVerification,
        RefuseVerification, ExpireVerification, RunningJob, CheckVerification, FinishVerification,
        StopVerification, Publication, PostWithId, DeliveryFailsWithId,
        CrashAfterPublishWithJobs, CrashWithJobs, Service, verificationVars, runner

\* A status gets the next number of its commit, which its success may be stored with.
LEMMA PostType ==
    ASSUME TypeOK, ServerTypeOK, NEW e \in Event, PostStatus(e)
    PROVE  posted' \in [Heads -> Nat] /\ (StoreId(e) => remote' \in [Receipt -> Nat])
<1>1. HeadSha[e.snap] \in Heads
  BY ConstantsAssumption DEF Event, SnapshotEvent, ReceiptEvent
<1>2. posted' \in [Heads -> Nat]
  BY <1>1 DEF PostStatus, ServerTypeOK
<1> QED BY <1>1, <1>2 DEF StoreId, ServerTypeOK

\* Jobs and numbers keep their types.
LEMMA ServerTypeNext ==
    ASSUME TypeOK, ServerTypeOK, [VerificationNext]_verificationVars
    PROVE  ServerTypeOK'
<1> USE DEF ServerTypeOK
<1>1. ASSUME NEW r \in Receipt, Run(r) PROVE ServerTypeOK'
  BY <1>1 DEF Run, StartRun, LoadReceipt, ReadSnapshot, Compare, SubmitVerification, Resubmit,
       Enqueued, Verified, CheckPull, ReadView, ReadStatus, Confirm, Fail, server
<1>2. ASSUME NEW r \in Receipt, VerificationJob(r) PROVE ServerTypeOK'
  BY <1>2 DEF VerificationJob, RunVerification, RefuseVerification, ExpireVerification, server
<1>3. JobsLost => job' \in [Receipt -> {"none", "queued", "lost", "verified", "refused"}]
  BY DEF JobsLost
<1>4. CASE Publication
  <2>1. CASE PostWithId
    <3>1. event \in Event
      BY <2>1 DEF PostWithId, Post, TypeOK, Reading
    <3> QED BY <2>1, <3>1, PostType DEF PostWithId
  <2>2. ASSUME NEW e \in Event, DeliveryFailsWithId(e) PROVE ServerTypeOK'
    BY <2>2, PostType DEF DeliveryFailsWithId, server
  <2>3. CASE CrashAfterPublishWithJobs
    <3>1. event \in Event
      BY <2>3 DEF CrashAfterPublishWithJobs, CrashAfterPublish, TypeOK, Reading
    <3> QED BY <1>3, <2>3, <3>1, PostType DEF CrashAfterPublishWithJobs
  <2>4. CASE CrashWithJobs
    BY <1>3, <2>4 DEF CrashWithJobs
  <2> QED BY <1>4, <2>1, <2>2, <2>3, <2>4 DEF Publication
<1>5. CASE People \/ Service \/ UNCHANGED verificationVars
  BY <1>5 DEF People, Service, verificationVars, server
<1>6. CASE RunningJob
  BY <1>6 DEF RunningJob, CheckVerification, FinishVerification, StopVerification, server
<1> QED BY <1>1, <1>2, <1>4, <1>5, <1>6 DEF VerificationNext

\* The types of the service, of its runs and of their files hold at all times.
THEOREM VerificationTypeCorrect == VerificationSpec => []VerificationTypeOK
<1>1. VerificationTypeOK /\ [VerificationNext]_verificationVars => VerificationTypeOK'
  <2> SUFFICES ASSUME VerificationTypeOK, [VerificationNext]_verificationVars
               PROVE  VerificationTypeOK'
    OBVIOUS
  <2>1. TypeOK'
    BY ServiceSteps, TypeNext DEF VerificationTypeOK
  <2>2. RunnerTypeOK' /\ ServerTypeOK'
    BY RunnerTypeNext, ServerTypeNext DEF VerificationTypeOK, RunnerTypeOK, ServerTypeOK
  <2> QED BY <2>1, <2>2 DEF VerificationTypeOK, RunnerTypeOK, ServerTypeOK
<1> QED BY <1>1, VerificationTypeInit, PTL DEF VerificationSpec

-------------------------------------------------------------------------------
(***************************************************************************)
(* What a green run has done.  A file is read only by the run that wrote   *)
(* it, so the stage it names stands for all the commands up to there; the   *)
(* last two commands do not read it again.                                 *)
(***************************************************************************)

\* The commands that a file of each stage is written after.
Upto(stage) ==
    CASE stage = "none" -> {}
      [] stage = "receipt" -> {"receipt"}
      [] stage = "snapshot" -> {"receipt", "snapshot"}
      [] stage = "compare" -> {"receipt", "snapshot", "compare"}
      [] stage = "verify" -> {"receipt", "snapshot", "compare", "verify"}
      [] stage = "publication" -> Commands

FileInv ==
    \A r \in Receipt :
        /\ file[r].run <= run[r]
        /\ file[r].run = run[r] => Upto(file[r].stage) \subseteq did[r]
        /\ step[r] = "polling" => file[r].run = run[r] /\ file[r].stage = "compare"
        /\ step[r] \in {"view", "status", "confirm"} => file[r].run = run[r] /\ file[r].stage = "verify"

\* A command that finishes does so after the one before it.
LEMMA WriteKeepsFiles ==
    ASSUME RunnerTypeOK, FileInv, NEW r \in Receipt, NEW stage \in Commands, NEW snap,
           NEW next \in Commands \cup {"none"}, WriteState(r, stage, snap, next), UNCHANGED run,
           Upto(stage) \subseteq did[r] \cup {stage}
    PROVE  FileInv'
<1> SUFFICES ASSUME NEW q \in Receipt
             PROVE  /\ file'[q].run <= run'[q]
                    /\ file'[q].run = run'[q] => Upto(file'[q].stage) \subseteq did'[q]
                    /\ step'[q] = "polling" => file'[q].run = run'[q] /\ file'[q].stage = "compare"
                    /\ step'[q] \in {"view", "status", "confirm"} =>
                          file'[q].run = run'[q] /\ file'[q].stage = "verify"
  BY DEF FileInv, Upto
<1>1. CASE q = r
  <2>1. file'[r].stage = stage /\ file'[r].run = run[r] /\ did'[r] = did[r] \cup {stage}
    BY DEF WriteState, RunnerTypeOK
  <2>2. step'[r] = next /\ next \notin {"polling", "view", "status", "confirm"}
    BY DEF WriteState, RunnerTypeOK, Commands
  <2>3. run[r] \in Nat
    BY DEF RunnerTypeOK
  <2> QED BY <1>1, <2>1, <2>2, <2>3
<1>2. CASE q # r
  <2>1. file'[q] = file[q] /\ did'[q] = did[q] /\ step'[q] = step[q]
    BY <1>2 DEF WriteState, RunnerTypeOK
  <2> QED BY <2>1 DEF FileInv
<1> QED BY <1>1, <1>2

\* A command that goes on reads the file of its own run.
LEMMA GotoKeepsFiles ==
    ASSUME RunnerTypeOK, FileInv, NEW r \in Receipt, NEW next, Goto(r, next), UNCHANGED run,
           next = "polling" => file[r].run = run[r] /\ file[r].stage = "compare",
           next \in {"view", "status", "confirm"} => file[r].run = run[r] /\ file[r].stage = "verify"
    PROVE  FileInv'
BY DEF FileInv, Goto, RunnerTypeOK, Upto

\* No step of a run lets a file of another run, or of a later command, pass.
LEMMA FilesStep == RunnerTypeOK /\ FileInv /\ [VerificationNext]_verificationVars => FileInv'
<1> SUFFICES ASSUME RunnerTypeOK, FileInv, [VerificationNext]_verificationVars PROVE FileInv'
  OBVIOUS
<1>1. CASE UNCHANGED <<step, run, file, did>>
  BY <1>1 DEF FileInv, Upto
<1>2. ASSUME NEW r \in Receipt, Run(r) PROVE FileInv'
  <2>1. CASE StartRun(r)
    <3> SUFFICES ASSUME NEW q \in Receipt
                 PROVE  /\ file[q].run <= run'[q]
                        /\ file[q].run = run'[q] => Upto(file[q].stage) \subseteq did'[q]
                        /\ step'[q] = "polling" => file[q].run = run'[q] /\ file[q].stage = "compare"
                        /\ step'[q] \in {"view", "status", "confirm"} =>
                              file[q].run = run'[q] /\ file[q].stage = "verify"
      BY <2>1 DEF FileInv, Upto, StartRun
    <3>1. CASE q = r
      <4>1. run'[r] = run[r] + 1 /\ step'[r] \in Commands
        BY <2>1 DEF StartRun, RunnerTypeOK
      <4>2. run[r] \in Nat /\ file[r].run \in Nat /\ file[r].run <= run[r]
        BY DEF RunnerTypeOK, StateFile, FileInv
      <4>3. file[r].run <= run'[r] /\ file[r].run # run'[r]
        BY <4>1, <4>2
      <4>4. step'[r] \notin {"polling", "view", "status", "confirm"}
        BY <4>1 DEF Commands
      <4> QED BY <3>1, <4>3, <4>4
    <3>2. CASE q # r
      BY <2>1, <3>2 DEF StartRun, RunnerTypeOK, FileInv
    <3> QED BY <3>1, <3>2
  <2>2. CASE LoadReceipt(r)
    <3>1. Upto("receipt") = {"receipt"}
      BY DEF Upto
    <3> QED BY <2>2, <3>1, WriteKeepsFiles DEF LoadReceipt, Commands
  <2>3. CASE ReadSnapshot(r)
    <3>1. Upto("snapshot") = Upto("receipt") \cup {"snapshot"} /\ Upto("receipt") \subseteq did[r]
      BY <2>3 DEF Upto, ReadSnapshot, LoadState, FileInv
    <3> QED BY <2>3, <3>1, WriteKeepsFiles DEF ReadSnapshot, Commands
  <2>4. CASE Compare(r)
    <3>1. Upto("compare") = Upto("snapshot") \cup {"compare"} /\ Upto("snapshot") \subseteq did[r]
      BY <2>4 DEF Upto, Compare, LoadState, FileInv
    <3> QED BY <2>4, <3>1, WriteKeepsFiles DEF Compare, Commands
  <2>5. CASE SubmitVerification(r)
    BY <2>5, GotoKeepsFiles DEF SubmitVerification, LoadState
  <2>6. CASE Verified(r)
    <3>1. Upto("verify") = Upto("compare") \cup {"verify"} /\ Upto("compare") \subseteq did[r]
      BY <2>6 DEF Upto, Verified, FileInv
    <3> QED BY <2>6, <3>1, WriteKeepsFiles DEF Verified, Commands
  <2>7. CASE CheckPull(r)
    BY <2>7, GotoKeepsFiles DEF CheckPull, LoadState
  <2>8. CASE ReadView(r)
    BY <2>8, GotoKeepsFiles DEF ReadView, FileInv
  <2>9. CASE ReadStatus(r)
    BY <2>9, GotoKeepsFiles DEF ReadStatus, FileInv
  <2>10. CASE Confirm(r)
    <3>1. Upto("publication") = Upto("verify") \cup {"publication"} /\ Upto("verify") \subseteq did[r]
      BY <2>10 DEF Upto, Commands, Confirm, FileInv
    <3> QED BY <2>10, <3>1, WriteKeepsFiles DEF Confirm, Commands
  <2>11. CASE Fail(r)
    BY <2>11, GotoKeepsFiles DEF Fail
  <2> QED BY <1>1, <1>2, <2>1, <2>2, <2>3, <2>4, <2>5, <2>6, <2>7, <2>8, <2>9, <2>10, <2>11
        DEF Run, Resubmit
<1> QED BY <1>1, <1>2 DEF VerificationNext, VerificationJob, RunVerification, RefuseVerification,
        ExpireVerification, RunningJob, CheckVerification, FinishVerification, StopVerification,
        Publication, PostWithId, DeliveryFailsWithId,
        CrashAfterPublishWithJobs, CrashWithJobs, People, Service, verificationVars, runner

\* Every command reads the file that the command before it left.
LEMMA FilesCorrect == VerificationSpec => []FileInv
<1>1. VerificationInit => FileInv
  BY DEF VerificationInit, FileInv, NoFile, Upto
<1>2. VerificationTypeOK => RunnerTypeOK
  BY DEF VerificationTypeOK, RunnerTypeOK
<1> QED BY <1>1, <1>2, FilesStep, VerificationTypeCorrect, PTL DEF VerificationSpec

\* _load_verification_state, with the run id and the stage in the file: whichever
\* command a run is started with, and whatever file is there, it turns green only
\* after all five commands of its own.
THEOREM GreenRan == VerificationSpec => []GreenRanEveryCommand
<1>1. VerificationTypeOK /\ FileInv => GreenRanEveryCommand
  <2> SUFFICES ASSUME VerificationTypeOK, FileInv, NEW r \in Receipt, Green(r)
               PROVE  did[r] = Commands
    BY DEF GreenRanEveryCommand
  <2>1. Upto("publication") = Commands
    BY DEF Upto, Commands
  <2> QED BY <2>1 DEF Green, FileInv, VerificationTypeOK
<1> QED BY <1>1, FilesCorrect, VerificationTypeCorrect, PTL

-------------------------------------------------------------------------------
(***************************************************************************)
(* What a green run has shown.  The last command sees the success on the   *)
(* head and looks at the pull request again; in between the service goes   *)
(* on.  What it may post is settled by the checks of _deliver_event: on a  *)
(* pull request nobody touches, nothing but the success that has been sent. *)
(* The view is given between two operations, so no event whose comparison   *)
(* is older than the look is still in hand after it.                        *)
(***************************************************************************)
ShownInv ==
    \A r \in Receipt :
        /\ step[r] \in {"status", "confirm"} =>
              receipt[r] = "verified" /\ outbox[SuccessStatus(r)] = "sent"
        /\ calm[r] /\ step[r] \in {"view", "status", "confirm"} =>
              pull = [snap |-> r.snap, state |-> "open"]
        /\ calm[r] /\ step[r] \in {"status", "confirm"} => ~moved
        /\ calm[r] /\ step[r] = "confirm" => SuccessOnHead(r)

ServiceInv == TypeOK /\ HandInv /\ FreshInv /\ QuestionsInv /\ BudgetInv

\* The invariants of the service hold with its runs in commands.
LEMMA ServiceInvCorrect == VerificationSpec => []ServiceInv
<1>1. VerificationInit => ServiceInv
  BY TypeInit, QuestionsInit, BudgetInit
     DEF VerificationInit, ServiceInv, Init, HandInv, FreshInv, Reading
<1>2. ServiceInv /\ [VerificationNext]_verificationVars => ServiceInv'
  <2> SUFFICES ASSUME ServiceInv, AnyStep PROVE ServiceInv'
    BY ServiceSteps
  <2>1. TypeOK' /\ HandInv' /\ FreshInv' /\ QuestionsInv'
    BY TypeNext, HandNext, FreshNext, TableSteps, QuestionsStep DEF ServiceInv
  <2>2. BudgetInv'
    BY OutboxSteps, BudgetStep DEF ServiceInv
  <2> QED BY <2>1, <2>2 DEF ServiceInv
<1> QED BY <1>1, <1>2, PTL DEF VerificationSpec

\* A status that was sent is never made due again.
LEMMA SentStays ==
    ASSUME ServiceInv, OutboxStep, NEW e \in StatusEvent, outbox[e] = "sent"
    PROVE  outbox'[e] = "sent"
<1> USE DEF ServiceInv
<1>1. e \in Event /\ e.kind # "verifier_dispatch"
  BY DEF StatusEvent
<1>2. ASSUME NEW es, outbox' = Enqueue(outbox, es) PROVE outbox'[e] = "sent"
  BY <1>1, <1>2 DEF Enqueue
<1>3. ASSUME NEW overdue, PublicationStatus(overdue) \/ FlushStart(overdue) PROVE outbox'[e] = "sent"
  BY <1>1, <1>3 DEF PublicationStatus, FlushStart, RequeueDispatches
<1>4. ASSUME NEW d \in Event, Skip(d) \/ DeliveryFails(d) \/ RestoreFails(d) \/ Elapse(d)
      PROVE  outbox'[e] = "sent"
  BY <1>1, <1>4 DEF TypeOK, BudgetInv, NextInBatch, InHand, Skip, MarkSent, DeliveryFails,
       MarkFailed, RestoreFails, Elapse
<1>5. CASE Post
  BY <1>1, <1>5 DEF TypeOK, Post, MarkSent
<1> QED BY <1>2, <1>3, <1>4, <1>5 DEF OutboxStep, queue

\* While the pull request shows the snapshot of a receipt whose success has been
\* sent, no other status has passed the checks of _deliver_event.
LEMMA NothingElsePosted ==
    ASSUME ServiceInv, NEW r \in Receipt, receipt[r] = "verified", outbox[SuccessStatus(r)] = "sent",
           pull = [snap |-> r.snap, state |-> "open"], ~moved, op = "post"
    PROVE  event \in Event /\ event \notin StatusEvent
<1> USE DEF ServiceInv
<1>1. event \in Event /\ event \in batch /\ outbox[event] = "pending" /\ Allowed(event)
  BY DEF TypeOK, HandInv, BudgetInv, Reading, Allowed
<1> SUFFICES ASSUME event \in StatusEvent PROVE FALSE
  BY <1>1
<1>2. event.snap = r.snap /\ current = r.snap
  BY <1>1 DEF FreshInv, ClosedAtHead, Allowed, StoreAllows
<1>3. r \in Receipt /\ r.qv \in QuestionSets /\ r = [snap |-> r.snap, qv |-> r.qv]
  BY DEF Receipt
<1>4. stored[r.snap] = r.qv /\ VerifiedNow(current)
  BY <1>2, <1>3 DEF QuestionsInv, VerifiedQuestionsKept, VerifiedNow
<1>5. event.kind = "success_status" /\ event \in ReceiptEvent
  BY <1>1, <1>4 DEF Allowed, NotSuperseded, StatusEvent, Event, SnapshotEvent, ReceiptEvent
<1>6. event.qv = r.qv
  BY <1>1, <1>2, <1>4, <1>5 DEF Allowed, StoreAllows, ReceiptCurrent, ReceiptOf
<1>7. event = SuccessStatus(r)
  BY <1>2, <1>5, <1>6 DEF SuccessStatus, ReceiptEvent
<1> QED BY <1>1, <1>7

\* So what the head shows, and the id stored with the success, stay as they are.
LEMMA HeadStays ==
    ASSUME ServiceInv, NEW r \in Receipt, receipt[r] = "verified", outbox[SuccessStatus(r)] = "sent",
           pull = [snap |-> r.snap, state |-> "open"], ~moved,
           [VerificationNext]_verificationVars, remote \in [Receipt -> Nat]
    PROVE  UNCHANGED <<latest, posted>> /\ remote'[r] = remote[r]
<1>1. SuccessStatus(r) \in StatusEvent
  BY DEF SuccessStatus, StatusEvent, Event, ReceiptEvent, Receipt
<1>2. ASSUME op = "post", Publish(event)
      PROVE  event \notin StatusEvent /\ UNCHANGED latest
  <2>1. event \in Event /\ event \notin StatusEvent
    BY <1>2, NothingElsePosted
  <2> QED BY <1>2, <2>1 DEF Publish, StatusEvent
<1>3. ASSUME NEW e, e \notin StatusEvent, PostStatus(e) PROVE UNCHANGED posted
  BY <1>3 DEF PostStatus
<1>4. ASSUME NEW e, e \notin StatusEvent, StoreId(e) PROVE remote'[r] = remote[r]
  BY <1>1, <1>4 DEF StoreId
<1>5. CASE Publication
  <2>1. CASE PostWithId
    BY <1>2, <1>3, <1>4, <2>1 DEF PostWithId, Post
  <2>2. ASSUME NEW e \in Event, DeliveryFailsWithId(e)
        PROVE  UNCHANGED <<latest, posted>> /\ remote'[r] = remote[r]
    <3>1. op = "post" => e = event
      BY <2>2 DEF DeliveryFailsWithId, DeliveryFails, NextInBatch, InHand
    <3> QED BY <1>2, <2>2, <3>1, NothingElsePosted DEF DeliveryFailsWithId, DeliveryFails, server
  <2>3. CASE CrashAfterPublishWithJobs
    BY <1>2, <1>3, <2>3 DEF CrashAfterPublishWithJobs, CrashAfterPublish
  <2>4. CASE CrashWithJobs
    BY <2>4 DEF CrashWithJobs, Crash, github
  <2> QED BY <1>5, <2>1, <2>2, <2>3, <2>4 DEF Publication
<1>6. CASE Service
  BY <1>6 DEF Service, server, github, Agree, Look, Skip, RestoreFails, Submit, Operator, ManualSync,
       Rerun, SyncEvent, ClosedEvent, Sync, Announce, Generate, GenerateFails, GenerateStale, Project, ProjectClosed,
       Grade, StartJob, EndJob, PassJob, ExpireJob, PublicationStatus, FlushStart, FlushAborts,
       LoseEvent, Elapse
<1>7. CASE People
  BY <1>7 DEF People, server, Edit, Close, Reopen
<1>8. ASSUME NEW t \in Receipt, VerificationJob(t)
      PROVE  UNCHANGED <<latest, posted>> /\ remote'[r] = remote[r]
  BY <1>8 DEF VerificationJob, RunVerification, RefuseVerification, ExpireVerification,
       VerifyReceipt, github, server, vars
<1>11. CASE RunningJob
  BY <1>11 DEF RunningJob, CheckVerification, FinishVerification, StopVerification,
       CheckContent, MarkVerified, VerifyRefused, server, github
<1>9. ASSUME NEW t \in Receipt, Run(t)
      PROVE  UNCHANGED <<latest, posted>> /\ remote'[r] = remote[r]
  BY <1>9 DEF Run, StartRun, LoadReceipt, ReadSnapshot, Compare, SubmitVerification, Resubmit,
       Verified, CheckPull, ReadView, ReadStatus, Confirm, Fail, server, vars
<1>10. CASE UNCHANGED verificationVars
  BY <1>10 DEF verificationVars, vars
<1> QED BY <1>5, <1>6, <1>7, <1>8, <1>9, <1>10, <1>11 DEF VerificationNext

\* Only people change the pull request, which ends the calm of every run.
LEMMA CalmPull ==
    [VerificationNext]_verificationVars =>
        (UNCHANGED pull /\ (moved' = moved \/ moved' = FALSE)) \/ calm' = [r \in Receipt |-> FALSE]
<1> DEFINE Calm == UNCHANGED pull /\ (moved' = moved \/ moved' = FALSE)
<1> SUFFICES ASSUME [VerificationNext]_verificationVars
             PROVE  Calm \/ calm' = [r \in Receipt |-> FALSE]
  OBVIOUS
<1> USE DEF github, lock, delivery
<1>1. CASE Publication
  BY <1>1 DEF Publication, PostWithId, Post, DeliveryFailsWithId, DeliveryFails, NextInBatch,
       CrashAfterPublishWithJobs, CrashAfterPublish, CrashWithJobs, Crash, Restart, NoLock
<1>2. CASE Service
  <2>1. ASSUME NEW bound, NEW regenerate, SaveSnapshot(bound, regenerate) PROVE moved' = moved
    BY <2>1 DEF SaveSnapshot
  <2>2. SaveMerge => moved' = moved
    BY DEF SaveMerge
  <2> QED
    BY <1>2, <2>1, <2>2
       DEF Service, Agree, Look, Skip, RestoreFails, NextInBatch, Submit, Operator, ManualSync,
           Rerun, SyncEvent, ClosedEvent, Sync, Announce, Generate, GenerateFails, GenerateStale,
           Project, ProjectClosed, FinishSync, NoLock, Grade, StartJob, EndJob, PassJob, ExpireJob,
           PublicationStatus, FlushStart, FlushAborts, LoseEvent, Elapse
<1>3. CASE People
  BY <1>3 DEF People
<1>4. ASSUME NEW t \in Receipt, VerificationJob(t) PROVE Calm
  BY <1>4 DEF VerificationJob, RunVerification, RefuseVerification, ExpireVerification,
       VerifyReceipt, vars
<1>7. CASE RunningJob
  BY <1>7 DEF RunningJob, CheckVerification, FinishVerification, StopVerification,
       CheckContent, MarkVerified, VerifyRefused, NoLock
<1>5. ASSUME NEW t \in Receipt, Run(t) PROVE Calm
  BY <1>5 DEF Run, StartRun, LoadReceipt, ReadSnapshot, Compare, SubmitVerification, Resubmit,
       Verified, CheckPull, ReadView, ReadStatus, Confirm, Fail, vars
<1>6. CASE UNCHANGED verificationVars
  BY <1>6 DEF verificationVars, vars
<1> QED BY <1>1, <1>2, <1>3, <1>4, <1>5, <1>6, <1>7 DEF VerificationNext

\* How a run gets into its last look: from the check of the pull request by way of
\* the view of the service to the status of the head.
LEMMA LastLook ==
    ASSUME RunnerTypeOK, NEW r \in Receipt, [VerificationNext]_verificationVars
    PROVE  \/ step'[r] \notin {"view", "status", "confirm"}
           \/ step'[r] = step[r] /\ (calm'[r] = calm[r] \/ calm' = [q \in Receipt |-> FALSE])
           \/ CheckPull(r) /\ step'[r] = "view"
           \/ ReadView(r) /\ step'[r] = "status"
           \/ ReadStatus(r) /\ step'[r] = "confirm"
<1> USE DEF RunnerTypeOK
<1>1. ASSUME NEW t \in Receipt, Run(t)
      PROVE  \/ step'[r] \notin {"view", "status", "confirm"}
             \/ step'[r] = step[r] /\ calm'[r] = calm[r]
             \/ CheckPull(r) /\ step'[r] = "view"
             \/ ReadView(r) /\ step'[r] = "status"
             \/ ReadStatus(r) /\ step'[r] = "confirm"
  <2>1. CASE t = r
    BY <1>1, <2>1 DEF Run, StartRun, LoadReceipt, ReadSnapshot, Compare, SubmitVerification,
         Resubmit, Verified, CheckPull, ReadView, ReadStatus, Confirm, Fail, WriteState, Goto, Commands
  <2>2. CASE t # r
    BY <1>1, <2>2 DEF Run, StartRun, LoadReceipt, ReadSnapshot, Compare, SubmitVerification,
         Resubmit, Verified, CheckPull, ReadView, ReadStatus, Confirm, Fail, WriteState, Goto
  <2> QED BY <2>1, <2>2
<1>2. CASE UNCHANGED runner
  BY <1>2 DEF runner
<1>3. CASE People
  BY <1>3 DEF People
<1> QED BY <1>1, <1>2, <1>3 DEF VerificationNext, VerificationJob, RunVerification,
        RefuseVerification, ExpireVerification, RunningJob, CheckVerification, FinishVerification,
        StopVerification, Publication, PostWithId, DeliveryFailsWithId,
        CrashAfterPublishWithJobs, CrashWithJobs, Service, verificationVars, runner

\* What the last command has seen stays so, while nobody touches the pull request.
LEMMA ShownStep ==
    VerificationTypeOK /\ ServiceInv /\ ShownInv /\ [VerificationNext]_verificationVars => ShownInv'
<1> SUFFICES ASSUME VerificationTypeOK, ServiceInv, ShownInv, [VerificationNext]_verificationVars,
                    NEW r \in Receipt
             PROVE  /\ step'[r] \in {"status", "confirm"} =>
                          receipt'[r] = "verified" /\ outbox'[SuccessStatus(r)] = "sent"
                    /\ calm'[r] /\ step'[r] \in {"view", "status", "confirm"} =>
                          pull' = [snap |-> r.snap, state |-> "open"]
                    /\ calm'[r] /\ step'[r] \in {"status", "confirm"} => ~moved'
                    /\ calm'[r] /\ step'[r] = "confirm" => SuccessOnHead(r)'
  BY DEF ShownInv, SuccessStatus
<1>1. SuccessStatus(r) \in StatusEvent
  BY DEF SuccessStatus, StatusEvent, Event, ReceiptEvent, Receipt
<1>2. receipt[r] = "verified" /\ outbox[SuccessStatus(r)] = "sent"
        => receipt'[r] = "verified" /\ outbox'[SuccessStatus(r)] = "sent"
  BY <1>1, ServiceSteps, VerifiedForEver, OutboxSteps, SentStays DEF ServiceInv
<1>3. RunnerTypeOK
  BY DEF VerificationTypeOK, RunnerTypeOK
<1>4. CASE step'[r] \notin {"view", "status", "confirm"}
  BY <1>4
<1>5. CASE step'[r] = step[r] /\ (calm'[r] = calm[r] \/ calm' = [q \in Receipt |-> FALSE])
  <2>1. step'[r] \in {"status", "confirm"} =>
            receipt'[r] = "verified" /\ outbox'[SuccessStatus(r)] = "sent"
    BY <1>2, <1>5 DEF ShownInv
  <2>2. CASE calm'[r] /\ step'[r] \in {"view", "status", "confirm"}
    <3>1. calm[r] /\ UNCHANGED pull /\ (moved' = moved \/ moved' = FALSE)
      BY <1>5, <2>2, CalmPull
    <3>4. step'[r] \in {"status", "confirm"} => ~moved /\ ~moved'
      BY <1>5, <2>2, <3>1 DEF ShownInv
    <3>2. pull' = [snap |-> r.snap, state |-> "open"]
      BY <1>5, <2>2, <3>1 DEF ShownInv
    <3>3. ASSUME step'[r] = "confirm" PROVE SuccessOnHead(r)'
      <4>1. /\ receipt[r] = "verified" /\ outbox[SuccessStatus(r)] = "sent"
            /\ pull = [snap |-> r.snap, state |-> "open"] /\ ~moved /\ SuccessOnHead(r)
        BY <1>5, <3>1, <3>3 DEF ShownInv
      <4>2. UNCHANGED <<latest, posted>> /\ remote'[r] = remote[r]
        BY <4>1, HeadStays DEF VerificationTypeOK
      <4> QED BY <4>1, <4>2 DEF SuccessOnHead, SuccessStatus
    <3> QED BY <2>1, <3>2, <3>3, <3>4
  <2> QED BY <2>1, <2>2
<1>6. CASE CheckPull(r) /\ step'[r] = "view"
  <2>1. UNCHANGED pull /\ pull.state = "open" /\ calm'[r] = (pull.snap = r.snap)
    BY <1>3, <1>6 DEF CheckPull, PullAsCompared, PullCurrent, vars, RunnerTypeOK
  <2>2. pull = [snap |-> pull.snap, state |-> pull.state]
    BY DEF ServiceInv, TypeOK
  <2> QED BY <1>6, <2>1, <2>2
<1>7. CASE ReadView(r) /\ step'[r] = "status"
  <2>1. step[r] = "view" /\ Told(r, {"published"}) /\ UNCHANGED <<vars, calm>>
    BY <1>3, <1>7 DEF ReadView, Goto, RunnerTypeOK
  <2>2. receipt[r] = "verified" /\ outbox[SuccessStatus(r)] = "sent"
    BY <2>1 DEF Told, GateState
  <2>3. ~moved'
    BY <2>1 DEF Told, ViewGiven, ServiceInv, FreshInv, Reading, vars
  <2> QED BY <1>2, <1>7, <2>1, <2>2, <2>3 DEF vars, ShownInv
<1>8. CASE ReadStatus(r) /\ step'[r] = "confirm"
  <2>1. step[r] = "status" /\ SuccessOnHead(r) /\ UNCHANGED <<vars, calm, posted, remote>>
    BY <1>3, <1>8 DEF ReadStatus, Goto, RunnerTypeOK, server
  <2> QED BY <1>2, <1>8, <2>1 DEF vars, ShownInv, SuccessOnHead, SuccessStatus
<1> QED BY <1>3, <1>4, <1>5, <1>6, <1>7, <1>8, LastLook

\* _verification_publication_step: when a run turns green its receipt is verified,
\* and unless somebody touched the pull request since its last look began, the
\* newest status of the head is the success that the service recorded.
THEOREM GreenShows == VerificationSpec => GreenShowsSuccess
<1> DEFINE A == \A r \in Receipt :
                   step[r] = "confirm" /\ did'[r] # did[r]
                   => /\ receipt[r] = "verified"
                      /\ calm[r] => /\ latest[HeadSha[r.snap]] = SuccessStatus(r)
                                    /\ posted[HeadSha[r.snap]] = remote[r]
<1>1. VerificationInit => ShownInv
  BY DEF VerificationInit, ShownInv
<1>2. ShownInv => A
  BY DEF ShownInv, SuccessOnHead
<1> QED BY <1>1, <1>2, ShownStep, ServiceInvCorrect, VerificationTypeCorrect, PTL
        DEF VerificationSpec, GreenShowsSuccess

-------------------------------------------------------------------------------
(***************************************************************************)
(* The service with its runs in five commands implements BotService, in    *)
(* which a run is only the receipt it is for.  Running is what BotService  *)
(* calls runs: a run is on its way until it has ended and has left no job.  *)
(***************************************************************************)

\* What the two have in common, whatever is on its way.
LEMMA SameEvents ==
    /\ Gatekeeper!Receipt = Receipt
    /\ Gatekeeper!Event = Event
    /\ Gatekeeper!StatusEvent = StatusEvent
    /\ Gatekeeper!Requests = Requests
    /\ Gatekeeper!MemoryJob = MemoryJob
    /\ Gatekeeper!NoJob = NoJob
BY DEF Receipt, Gatekeeper!Receipt, Event, Gatekeeper!Event, SnapshotEvent, Gatekeeper!SnapshotEvent,
       ReceiptEvent, Gatekeeper!ReceiptEvent, StatusEvent, Gatekeeper!StatusEvent,
       Requests, Gatekeeper!Requests, MemoryJob, Gatekeeper!MemoryJob, NoJob, Gatekeeper!NoJob

\* The outbox and the projections do not look at the runs.
LEMMA SameQueue ==
    /\ \A box, es : Gatekeeper!Enqueue(box, es) = Enqueue(box, es)
    /\ \A box, overdue : Gatekeeper!RequeueDispatches(box, overdue) = RequeueDispatches(box, overdue)
    /\ \A s, bound : Gatekeeper!Projection(s, bound) = Projection(s, bound)
    /\ \A s : Gatekeeper!ClosedProjection(s) = ClosedProjection(s)
<1>1. /\ \A box, es : Gatekeeper!Enqueue(box, es) = Enqueue(box, es)
      /\ \A box, overdue : Gatekeeper!RequeueDispatches(box, overdue) = RequeueDispatches(box, overdue)
  BY SameEvents DEF Enqueue, Gatekeeper!Enqueue, RequeueDispatches, Gatekeeper!RequeueDispatches,
       ReceiptOf, Gatekeeper!ReceiptOf
<1>2. \A s, bound : Gatekeeper!Projection(s, bound) = Projection(s, bound)
  BY SameEvents DEF Projection, Gatekeeper!Projection, ReceiptOf, Gatekeeper!ReceiptOf
<1>3. \A s : Gatekeeper!ClosedProjection(s) = ClosedProjection(s)
  BY <1>2, SameEvents DEF ClosedProjection, Gatekeeper!ClosedProjection,
       VerifiedNow, Gatekeeper!VerifiedNow
<1> QED BY <1>1, <1>2, <1>3

\* Nor do the checks that come before a publication,
LEMMA SameChecks ==
    \A e : /\ StoreAllows(e) <=> Gatekeeper!StoreAllows(e)
           /\ Agrees(e) <=> Gatekeeper!Agrees(e)
           /\ ClosedAtHead(e) <=> Gatekeeper!ClosedAtHead(e)
BY SameEvents DEF StoreAllows, Gatekeeper!StoreAllows, Agrees, Gatekeeper!Agrees,
     ClosedAtHead, Gatekeeper!ClosedAtHead, NotSuperseded, Gatekeeper!NotSuperseded,
     BindingCurrent, Gatekeeper!BindingCurrent, ReceiptCurrent, Gatekeeper!ReceiptCurrent,
     VerifiedNow, Gatekeeper!VerifiedNow, ReceiptOf, Gatekeeper!ReceiptOf

\* and what is written after one.
LEMMA SameMarks ==
    \A e : /\ NextInBatch(e) => Gatekeeper!NextInBatch(e)
           /\ CountAttempt(e) => Gatekeeper!CountAttempt(e)
           /\ MarkSent(e) => Gatekeeper!MarkSent(e)
           /\ MarkFailed(e) => Gatekeeper!MarkFailed(e)
<1> TAKE e
<1>1. CountAttempt(e) => Gatekeeper!CountAttempt(e)
  BY SameEvents DEF CountAttempt, Gatekeeper!CountAttempt, Dispatch, Gatekeeper!Dispatch
<1>2. NextInBatch(e) => Gatekeeper!NextInBatch(e)
  BY DEF NextInBatch, Gatekeeper!NextInBatch, InHand, Gatekeeper!InHand
<1>3. MarkSent(e) => Gatekeeper!MarkSent(e)
  BY <1>1 DEF MarkSent, Gatekeeper!MarkSent
<1>4. MarkFailed(e) => Gatekeeper!MarkFailed(e)
  BY <1>1 DEF MarkFailed, Gatekeeper!MarkFailed, ReceiptOf, Gatekeeper!ReceiptOf
<1> QED BY <1>1, <1>2, <1>3, <1>4

\* The steps of the service that publish nothing and start no run.
QuietService ==
    \/ \E j \in Jobs : Submit(j)
    \/ \E regenerate \in BOOLEAN : ManualSync(regenerate)
    \/ \E s \in Snapshots : SyncEvent(s)
    \/ \E h \in Heads : ClosedEvent(h)
    \/ Sync
    \/ Grade
    \/ \E overdue \in SUBSET Requests : PublicationStatus(overdue) \/ FlushStart(overdue)
    \/ Agree
    \/ FlushAborts
    \/ LoseEvent
    \/ \E e \in Event : Look(e) \/ Skip(e) \/ RestoreFails(e) \/ Elapse(e)

\* They are those of BotService.
LEMMA QuietRefines == Running' = Running /\ QuietService => Gatekeeper!Next
<1> SUFFICES ASSUME Running' = Running, QuietService PROVE Gatekeeper!Next
  OBVIOUS
<1> USE DEF github, relay, tables, queue, delivery, lock, Gatekeeper!github, Gatekeeper!relay,
        Gatekeeper!tables, Gatekeeper!queue, Gatekeeper!delivery, Gatekeeper!lock, CountEdit, Gatekeeper!CountEdit,
        CountFault, Gatekeeper!CountFault, NoLock, Gatekeeper!NoLock,
        FinishSync, Gatekeeper!FinishSync, PullCurrent, Gatekeeper!PullCurrent,
        ReceiptOf, Gatekeeper!ReceiptOf
<1>1. ASSUME NEW j \in Jobs, Submit(j) PROVE Gatekeeper!Submit(j)
  <2>1. Gatekeeper!ActiveJobs = ActiveJobs
    BY DEF ActiveJobs, Gatekeeper!ActiveJobs
  <2>2. Cardinality(ActiveJobs) < MaxActiveJobs
    BY <1>1 DEF Submit
  <2>3. Gatekeeper!Cardinality(Gatekeeper!ActiveJobs) < MaxActiveJobs
    BY <2>1, <2>2, Zenon DEF Cardinality, Gatekeeper!Cardinality
  <2>4. /\ op = "idle"
        /\ jobs[j].state = "none"
        /\ current \in Triggered
        /\ stored[current] \in QuestionSets
        /\ Gatekeeper!PullCurrent(current)
        /\ jobs' = [jobs EXCEPT ![j] = [state |-> "queued", snap |-> current, qv |-> stored[current]]]
        /\ UNCHANGED <<Gatekeeper!github, relay, tables, queue, lock, edits, faults>>
    BY <1>1 DEF Submit
  <2> QED BY <2>3, <2>4, Zenon DEF Gatekeeper!Submit
<1>2. ASSUME NEW bound, NEW regenerate, SaveSnapshot(bound, regenerate)
      PROVE  Gatekeeper!SaveSnapshot(bound, regenerate)
  BY <1>2, SameEvents DEF SaveSnapshot, Gatekeeper!SaveSnapshot, HasReceipts, Gatekeeper!HasReceipts
<1>3. SaveMerge => Gatekeeper!SaveMerge
  BY DEF SaveMerge, Gatekeeper!SaveMerge
<1>4. ASSUME NEW regenerate \in BOOLEAN, ManualSync(regenerate) PROVE Gatekeeper!ManualSync(regenerate)
  BY <1>2, <1>3, <1>4 DEF ManualSync, Gatekeeper!ManualSync
<1>5. ASSUME NEW s \in Snapshots, SyncEvent(s) PROVE Gatekeeper!SyncEvent(s)
  BY <1>2, <1>3, <1>5 DEF SyncEvent, Gatekeeper!SyncEvent
<1>6. ASSUME NEW h \in Heads, ClosedEvent(h) PROVE Gatekeeper!ClosedEvent(h)
  BY <1>3, <1>6 DEF ClosedEvent, Gatekeeper!ClosedEvent
<1>7. CASE Sync
  <2>1. Announce => Gatekeeper!Announce
    BY SameQueue DEF Announce, Gatekeeper!Announce
  <2>2. ASSUME NEW q \in QuestionSets, Generate(q) PROVE Gatekeeper!Generate(q)
    BY <2>2 DEF Generate, Gatekeeper!Generate
  <2>3. GenerateFails => Gatekeeper!GenerateFails
    BY SameQueue DEF GenerateFails, Gatekeeper!GenerateFails
  <2>4. GenerateStale => Gatekeeper!GenerateStale
    BY DEF GenerateStale, Gatekeeper!GenerateStale
  <2>5. Project => Gatekeeper!Project
    BY SameQueue DEF Project, Gatekeeper!Project
  <2>6. ProjectClosed => Gatekeeper!ProjectClosed
    BY SameQueue DEF ProjectClosed, Gatekeeper!ProjectClosed
  <2> QED BY <1>7, <2>1, <2>2, <2>3, <2>4, <2>5, <2>6 DEF Sync, Gatekeeper!Sync, Gatekeeper!Next
<1>8. ASSUME NEW j \in Jobs, StartJob(j) \/ EndJob(j) \/ PassJob(j) \/ ExpireJob(j)
      PROVE  \/ Gatekeeper!StartJob(j) \/ Gatekeeper!EndJob(j)
             \/ Gatekeeper!PassJob(j) \/ Gatekeeper!ExpireJob(j)
  <2>1. StartJob(j) => Gatekeeper!StartJob(j)
    BY DEF StartJob, Gatekeeper!StartJob
  <2>2. EndJob(j) => Gatekeeper!EndJob(j)
    BY SameEvents DEF EndJob, Gatekeeper!EndJob
  <2>3. PassJob(j) => Gatekeeper!PassJob(j)
    BY SameEvents, SameQueue DEF PassJob, Gatekeeper!PassJob, SaveReceipt, Gatekeeper!SaveReceipt,
         ReceiptCurrent, Gatekeeper!ReceiptCurrent, Dispatch, Gatekeeper!Dispatch
  <2>4. ExpireJob(j) => Gatekeeper!ExpireJob(j)
    BY SameEvents DEF ExpireJob, Gatekeeper!ExpireJob
  <2> QED BY <1>8, <2>1, <2>2, <2>3, <2>4
<1>9. ASSUME NEW overdue \in SUBSET Requests, PublicationStatus(overdue) \/ FlushStart(overdue)
      PROVE  Gatekeeper!PublicationStatus(overdue) \/ Gatekeeper!FlushStart(overdue)
  BY <1>9, SameEvents, SameQueue DEF PublicationStatus, Gatekeeper!PublicationStatus,
       FlushStart, Gatekeeper!FlushStart
<1>10. FlushAborts => Gatekeeper!FlushAborts
  BY DEF FlushAborts, Gatekeeper!FlushAborts
<1>11. LoseEvent => Gatekeeper!LoseEvent
  BY DEF LoseEvent, Gatekeeper!LoseEvent
<1>12. ASSUME NEW e \in Event, Elapse(e) PROVE Gatekeeper!Elapse(e)
  BY <1>12 DEF Elapse, Gatekeeper!Elapse
<1>18. ASSUME NEW e \in Event
       PROVE  /\ Look(e) => Gatekeeper!Look(e)
              /\ Skip(e) => Gatekeeper!Skip(e)
              /\ RestoreFails(e) => Gatekeeper!RestoreFails(e)
  <2>1. /\ StoreAllows(e) <=> Gatekeeper!StoreAllows(e)
        /\ Agrees(e) <=> Gatekeeper!Agrees(e)
        /\ ClosedAtHead(e) <=> Gatekeeper!ClosedAtHead(e)
    BY SameChecks
  <2>2. /\ NextInBatch(e) => Gatekeeper!NextInBatch(e)
        /\ MarkSent(e) => Gatekeeper!MarkSent(e)
        /\ CountAttempt(e) => Gatekeeper!CountAttempt(e)
    BY SameMarks
  <2>3. Look(e) => Gatekeeper!Look(e)
    BY <2>1 DEF Look, Gatekeeper!Look
  <2>4. Skip(e) => Gatekeeper!Skip(e)
    BY <2>1, <2>2 DEF Skip, Gatekeeper!Skip
  <2>5. RestoreFails(e) => Gatekeeper!RestoreFails(e)
    BY <2>2 DEF RestoreFails, Gatekeeper!RestoreFails
  <2> QED BY <2>3, <2>4, <2>5
<1>19. Agree => Gatekeeper!Agree
  BY SameChecks DEF Agree, Gatekeeper!Agree
<1>20. CASE Agree \/ \E e \in Event : Look(e) \/ Skip(e) \/ RestoreFails(e)
  BY <1>18, <1>19, <1>20, SameEvents DEF Gatekeeper!Next, Gatekeeper!Flush, Gatekeeper!Deliver
<1>13. CASE Grade
  BY <1>8, <1>13 DEF Grade, Gatekeeper!Next, Gatekeeper!Grade
<1>14. CASE \/ \E j \in Jobs : Submit(j)
            \/ \E regenerate \in BOOLEAN : ManualSync(regenerate)
  BY <1>1, <1>4, <1>14 DEF Gatekeeper!Next, Gatekeeper!Author, Gatekeeper!Operator
<1>15. CASE \/ \E s \in Snapshots : SyncEvent(s)
            \/ \E h \in Heads : ClosedEvent(h)
  BY <1>5, <1>6, <1>15 DEF Gatekeeper!Next, Gatekeeper!Relay
<1>16. CASE \/ \E overdue \in SUBSET Requests : PublicationStatus(overdue) \/ FlushStart(overdue)
            \/ FlushAborts
  BY <1>9, <1>10, <1>16, SameEvents DEF Gatekeeper!Next, Gatekeeper!Flush
<1>17. CASE LoseEvent \/ \E e \in Event : Elapse(e)
  BY <1>11, <1>12, <1>17, SameEvents DEF Gatekeeper!Next, Gatekeeper!Environment
<1> QED BY <1>7, <1>13, <1>14, <1>15, <1>16, <1>17, <1>20 DEF QuietService

\* So is an operator's rerun, and every other step of Service.
LEMMA ServiceRefines == Service => Gatekeeper!Next
<1> SUFFICES ASSUME Service PROVE Gatekeeper!Next
  OBVIOUS
<1>1. UNCHANGED <<step, job>>
  BY DEF Service, runner, server
<1>2. ASSUME NEW r \in Receipt, Rerun(r) PROVE Gatekeeper!Next
  <2>1. Running' = Running \cup {r}
    BY <1>1, <1>2 DEF Rerun, Running
  <2>2. Gatekeeper!Rerun(r)
    BY <1>2, <2>1 DEF Rerun, Gatekeeper!Rerun, CountEdit, Gatekeeper!CountEdit,
         relay, tables, queue, delivery, lock, Gatekeeper!relay, Gatekeeper!tables,
         Gatekeeper!queue, Gatekeeper!delivery, Gatekeeper!lock
  <2> QED BY <2>2, SameEvents DEF Gatekeeper!Next, Gatekeeper!Operator
<1>3. CASE QuietService
  <2>1. UNCHANGED runs
    BY <1>3 DEF QuietService, github, Agree, Look, Skip, RestoreFails, Submit, ManualSync, SyncEvent, ClosedEvent,
         Sync, Announce, Generate, GenerateFails, GenerateStale, Project, ProjectClosed,
         Grade, StartJob, EndJob, PassJob, ExpireJob, PublicationStatus, FlushStart, FlushAborts,
         LoseEvent, Elapse
  <2> QED BY <1>1, <1>3, <2>1, QuietRefines DEF Running
<1> QED BY <1>2, <1>3 DEF Service, QuietService, Operator

\* People do what they do in BotService.
LEMMA PeopleRefine == People => Gatekeeper!Next
<1> SUFFICES ASSUME People PROVE Gatekeeper!Next
  OBVIOUS
<1> USE DEF relay, tables, queue, Gatekeeper!relay, Gatekeeper!tables,
        Gatekeeper!queue, CountEdit, Gatekeeper!CountEdit
<1>5. Move => Gatekeeper!Move
  BY DEF Move, Gatekeeper!Move, Reading, Gatekeeper!Reading
<1>1. Running' = Running
  BY DEF People, Edit, Close, Reopen, Running, server
<1>2. ASSUME NEW s \in Snapshots, Edit(s) PROVE Gatekeeper!Edit(s)
  BY <1>1, <1>2, <1>5 DEF Edit, Gatekeeper!Edit
<1>3. ASSUME NEW state, Close(state) PROVE Gatekeeper!Close(state)
  BY <1>1, <1>3, <1>5 DEF Close, Gatekeeper!Close
<1>4. Reopen => Gatekeeper!Reopen
  BY <1>1, <1>5 DEF Reopen, Gatekeeper!Reopen
<1> QED BY <1>2, <1>3, <1>4 DEF People, Gatekeeper!Next, Gatekeeper!Author

\* A request that is sent starts the run of its receipt.
LEMMA PublishRefines ==
    ASSUME NEW e \in Event, Publish(e),
           \A r \in Receipt : r \in Running' <=> r \in Running \/ r \in runs' \ runs
    PROVE  Gatekeeper!Publish(e)
<1>1. e.kind = "verifier_dispatch" => ReceiptOf(e) \in Receipt
  BY DEF Event, SnapshotEvent, ReceiptEvent, ReceiptOf, Receipt
<1>2. CASE e.kind = "verifier_dispatch"
  <2>1. runs' = runs \cup {ReceiptOf(e)} /\ UNCHANGED latest
    BY <1>2 DEF Publish
  <2>2. Running' = Running \cup {ReceiptOf(e)}
    BY <1>1, <1>2, <2>1 DEF Running
  <2> QED BY <1>2, <2>1, <2>2 DEF Gatekeeper!Publish, ReceiptOf, Gatekeeper!ReceiptOf
<1>3. CASE e.kind # "verifier_dispatch"
  <2>1. UNCHANGED runs
    BY <1>3 DEF Publish
  <2>2. Running' = Running
    BY <2>1 DEF Running
  <2> QED BY <1>3, <2>2 DEF Publish, Gatekeeper!Publish
<1> QED BY <1>2, <1>3

\* A delivery, a failed one and a crash in the middle of one refine those of
\* BotService: what is added numbers the statuses and drops the jobs.
LEMMA PublicationRefines ==
    ASSUME TypeOK, ServerTypeOK, Publication
    PROVE  Gatekeeper!Next
<1> USE DEF relay, tables, queue, Gatekeeper!relay, Gatekeeper!tables, Gatekeeper!queue
<1>1. JobsLost => \A r \in Receipt : job'[r] \in {"none", "refused"} <=> job[r] \in {"none", "refused"}
  BY DEF JobsLost
<1>3. ASSUME UNCHANGED <<step, runs>>, JobsLost \/ UNCHANGED job
      PROVE  Running' = Running
  BY <1>1, <1>3 DEF Running
<1>4. ASSUME UNCHANGED step, JobsLost \/ UNCHANGED job, NEW e \in Event, Publish(e)
      PROVE  Gatekeeper!Publish(e)
  <2>1. runs \subseteq runs'
    BY <1>4 DEF Publish
  <2>2. \A r \in Receipt : r \in Running' <=> r \in Running \/ r \in runs' \ runs
    BY <1>1, <1>4, <2>1 DEF Running
  <2> QED BY <1>4, <2>2, PublishRefines
<1>5. /\ CountFault <=> Gatekeeper!CountFault
      /\ Restart => Gatekeeper!Restart
  <2>1. CountFault <=> Gatekeeper!CountFault
    BY DEF CountFault, Gatekeeper!CountFault
  <2>2. Restart => Gatekeeper!Restart
    BY <2>1, SameEvents DEF Restart, Gatekeeper!Restart, NoLock, Gatekeeper!NoLock
  <2> QED BY <2>1, <2>2
<1>6. CASE PostWithId
  <2>1. Post /\ UNCHANGED <<step, job>>
    BY <1>6 DEF PostWithId, runner
  <2>2. event \in Event
    BY <2>1 DEF Post, TypeOK, Reading
  <2>3. Gatekeeper!Publish(event)
    BY <1>4, <2>1, <2>2 DEF Post
  <2>4. Gatekeeper!NextInBatch(event) /\ Gatekeeper!MarkSent(event)
    BY <2>1, SameMarks DEF Post
  <2>5. Gatekeeper!Post
    BY <2>1, <2>3, <2>4 DEF Post, Gatekeeper!Post
  <2> QED BY <2>5 DEF Gatekeeper!Next, Gatekeeper!Flush, Gatekeeper!Deliver
<1>7. ASSUME NEW e \in Event, DeliveryFailsWithId(e) PROVE Gatekeeper!DeliveryFails(e)
  <2>1. DeliveryFails(e) /\ UNCHANGED <<step, job>>
    BY <1>7 DEF DeliveryFailsWithId, runner, server
  <2>2. op = "post" /\ Publish(e) => op = "post" /\ Gatekeeper!Publish(e)
    BY <1>4, <2>1
  <2>3. UNCHANGED runs => Running' = Running
    BY <1>3, <2>1
  <2>4. /\ Gatekeeper!NextInBatch(e) /\ Gatekeeper!MarkFailed(e)
        /\ Gatekeeper!StoreAllows(e) /\ Gatekeeper!CountFault
    BY <1>5, <2>1, SameMarks, SameChecks DEF DeliveryFails
  <2> QED BY <2>1, <2>2, <2>3, <2>4 DEF DeliveryFails, Gatekeeper!DeliveryFails
<1>8. ASSUME CrashAfterPublishWithJobs PROVE Gatekeeper!CrashAfterPublish
  <2>1. CrashAfterPublish /\ UNCHANGED step /\ JobsLost
    BY <1>8 DEF CrashAfterPublishWithJobs, runner
  <2>2. event \in Event
    BY <2>1 DEF CrashAfterPublish, TypeOK, Reading
  <2>3. Gatekeeper!Publish(event)
    BY <1>4, <2>1, <2>2 DEF CrashAfterPublish
  <2> QED BY <1>5, <2>1, <2>3 DEF CrashAfterPublish, Gatekeeper!CrashAfterPublish
<1>9. ASSUME CrashWithJobs PROVE Gatekeeper!Crash
  <2>1. Crash /\ UNCHANGED step /\ JobsLost
    BY <1>9 DEF CrashWithJobs, runner
  <2>2. Running' = Running
    BY <1>3, <2>1 DEF Crash, github
  <2> QED BY <1>5, <2>1, <2>2 DEF Crash, Gatekeeper!Crash, github, Gatekeeper!github
<1>10. ASSUME NEW e \in Event, DeliveryFailsWithId(e) PROVE Gatekeeper!Next
  BY <1>7, <1>10, SameEvents DEF Gatekeeper!Next, Gatekeeper!Flush
<1>11. CASE CrashWithJobs \/ CrashAfterPublishWithJobs
  BY <1>8, <1>9, <1>11 DEF Gatekeeper!Next, Gatekeeper!Environment
<1> QED BY <1>6, <1>10, <1>11 DEF Publication

\* A command of a run, or a job that ends, is nothing to the service, or is the
\* end of that run.
LEMMA RunStutters ==
    ASSUME NEW r \in Receipt, r \in Running, UNCHANGED vars \/ StartRun(r),
           \A q \in Receipt : q # r => (q \in Running' <=> q \in Running)
    PROVE  [Gatekeeper!Next]_Gatekeeper!vars
<1>1. UNCHANGED <<pull, latest, inbox, closedInbox, stored, current, receipt, merge, outbox, attempts,
                  op, opSnap, opBound, batch, event, moved, jobs, edits, faults>>
  BY DEF StartRun, vars, relay, tables, queue, delivery, lock
<1>2. Running \subseteq Receipt /\ Running' \subseteq Receipt
  BY DEF Running
<1>3. CASE r \in Running'
  <2>1. Running' = Running
    BY <1>2, <1>3
  <2> QED BY <1>1, <2>1 DEF Gatekeeper!vars
<1>4. CASE r \notin Running'
  <2>1. Running' = Running \ {r}
    BY <1>2, <1>4
  <2>2. Gatekeeper!RunEnds(r)
    BY <1>1, <2>1 DEF Gatekeeper!RunEnds, Gatekeeper!relay, Gatekeeper!tables,
         Gatekeeper!queue, Gatekeeper!delivery, Gatekeeper!lock
  <2> QED BY <2>2, SameEvents DEF Gatekeeper!Next, Gatekeeper!Relay
<1> QED BY <1>3, <1>4

\* What a workflow run does.
LEMMA RunRefines ==
    ASSUME RunnerTypeOK, ServerTypeOK, NEW r \in Receipt, Run(r)
    PROVE  [Gatekeeper!Next]_Gatekeeper!vars
<1>1. step[r] # "none" \/ StartRun(r)
  BY DEF Run, LoadReceipt, ReadSnapshot, Compare, SubmitVerification, Resubmit, Verified,
       CheckPull, ReadView, ReadStatus, Confirm, Fail
<1>2. r \in Running
  BY <1>1 DEF Running, StartRun
<1>3. UNCHANGED vars \/ StartRun(r)
  BY DEF Run, LoadReceipt, ReadSnapshot, Compare, SubmitVerification, Resubmit, Verified,
       CheckPull, ReadView, ReadStatus, Confirm, Fail
<1>4. ASSUME NEW q \in Receipt, q # r
      PROVE  step'[q] = step[q] /\ job'[q] = job[q] /\ (q \in runs' <=> q \in runs)
  <2>1. step'[q] = step[q]
    BY <1>4 DEF RunnerTypeOK, Run, StartRun, LoadReceipt, ReadSnapshot, Compare, SubmitVerification,
         Resubmit, Verified, CheckPull, ReadView, ReadStatus, Confirm, Fail, WriteState, Goto
  <2>2. job'[q] = job[q]
    BY <1>4 DEF ServerTypeOK, Run, StartRun, LoadReceipt, ReadSnapshot, Compare, SubmitVerification,
         Resubmit, Enqueued, Verified, CheckPull, ReadView, ReadStatus, Confirm, Fail, server
  <2>3. q \in runs' <=> q \in runs
    BY <1>3, <1>4 DEF vars, StartRun
  <2> QED BY <2>1, <2>2, <2>3
<1>5. \A q \in Receipt : q # r => (q \in Running' <=> q \in Running)
  BY <1>4 DEF Running
<1> QED BY <1>2, <1>3, <1>5, RunStutters

\* What its job on the server does.
LEMMA JobRefines ==
    ASSUME ServerTypeOK, NEW r \in Receipt, VerificationJob(r)
    PROVE  [Gatekeeper!Next]_Gatekeeper!vars
<1>1. UNCHANGED <<step, runs>>
  BY DEF VerificationJob, RunVerification, RefuseVerification, ExpireVerification, VerifyReceipt,
       runner, github, vars
<1>2. ASSUME NEW q \in Receipt, q # r PROVE job'[q] = job[q]
  BY <1>2 DEF VerificationJob, RunVerification, RefuseVerification, ExpireVerification,
       ServerTypeOK, server
<1>3. \A q \in Receipt : q # r => (q \in Running' <=> q \in Running)
  BY <1>1, <1>2 DEF Running
<1>4. CASE RunVerification(r)
  <2>1. r \in Running /\ UNCHANGED <<step, job>>
    BY <1>4 DEF RunVerification, Running, runner, server
  <2>2. Running' = Running
    BY <1>1, <2>1 DEF Running
  <2>3. VerifyReceipt(r)
    BY <1>4 DEF RunVerification
  <2>4. Gatekeeper!VerifyReceipt(r)
    BY <2>2, <2>3 DEF VerifyReceipt, Gatekeeper!VerifyReceipt, PullCurrent, Gatekeeper!PullCurrent,
         SuccessStatus, Gatekeeper!SuccessStatus, ReceiptCurrent, Gatekeeper!ReceiptCurrent,
         github, relay, tables, queue,
         Gatekeeper!github, Gatekeeper!relay, Gatekeeper!tables, Gatekeeper!queue
  <2> QED BY <2>1, <2>4, SameEvents DEF Gatekeeper!Verify, Gatekeeper!Next, Gatekeeper!Relay
<1>5. CASE UNCHANGED vars /\ r \in Running
  BY <1>3, <1>5, RunStutters
<1>6. CASE ExpireVerification(r) /\ r \notin Running
  <2>1. job[r] = "refused" /\ job'[r] = "none"
    BY <1>6 DEF ExpireVerification, Running, ServerTypeOK
  <2>2. Running' = Running
    BY <1>1, <1>3, <2>1 DEF Running
  <2> QED BY <1>6, <2>2 DEF ExpireVerification, vars, Gatekeeper!vars
<1>7. RefuseVerification(r) => r \in Running
  BY DEF RefuseVerification, Running
<1> QED BY <1>4, <1>5, <1>6, <1>7 DEF VerificationJob, RefuseVerification, ExpireVerification

-------------------------------------------------------------------------------
\* A job that has begun to verify is one the service still knows: it is joined,
\* not replaced, and a restart that forgets it takes the lock from it.
UnderwayInv ==
    op \in {"check", "mark"} => ReceiptOf(event) \in Receipt /\ job[ReceiptOf(event)] = "queued"

\* No run and no expiry takes it away before its own end.
LEMMA UnderwayStep ==
    ServerTypeOK /\ UnderwayInv /\ [VerificationNext]_verificationVars => UnderwayInv'
<1> SUFFICES ASSUME ServerTypeOK, UnderwayInv, [VerificationNext]_verificationVars PROVE UnderwayInv'
  OBVIOUS
<1> USE DEF lock, delivery
<1>1. ASSUME op' \notin {"check", "mark"} PROVE UnderwayInv'
  BY <1>1 DEF UnderwayInv
<1>2. ASSUME op' \in {"check", "mark"} => op \in {"check", "mark"}, UNCHANGED <<event, job>>
      PROVE  UnderwayInv'
  BY <1>2 DEF UnderwayInv, ReceiptOf
<1>3. NoLock => UnderwayInv'
  BY <1>1 DEF NoLock
<1>4. ASSUME NEW r \in Receipt, Run(r) PROVE UnderwayInv'
  <2>1. UNCHANGED <<op, event>>
    BY <1>4 DEF Run, StartRun, LoadReceipt, ReadSnapshot, Compare, SubmitVerification, Resubmit,
         Verified, CheckPull, ReadView, ReadStatus, Confirm, Fail, vars
  <2>2. UNCHANGED job \/ job' = Enqueued(r)
    BY <1>4 DEF Run, StartRun, LoadReceipt, ReadSnapshot, Compare, SubmitVerification, Resubmit,
         Verified, CheckPull, ReadView, ReadStatus, Confirm, Fail, server
  <2>3. \A q \in Receipt : job[q] = "queued" => job'[q] = "queued"
    BY <2>2 DEF Enqueued, ServerTypeOK
  <2> QED BY <2>1, <2>3 DEF UnderwayInv, ReceiptOf
<1>5. ASSUME NEW r \in Receipt, VerificationJob(r) PROVE UnderwayInv'
  <2>1. CASE RunVerification(r)
    <3>1. /\ job[r] = "queued" /\ UNCHANGED job
          /\ event' = SuccessStatus(r)
      BY <2>1 DEF RunVerification, VerifyReceipt, server
    <3>2. ReceiptOf(SuccessStatus(r)) = r
      BY DEF ReceiptOf, SuccessStatus, Receipt
    <3> QED BY <3>1, <3>2 DEF UnderwayInv, ReceiptOf
  <2>2. CASE RefuseVerification(r)
    BY <1>1, <2>2 DEF RefuseVerification, vars
  <2>3. CASE ExpireVerification(r)
    BY <2>3 DEF ExpireVerification, UnderwayInv, ReceiptOf, ServerTypeOK, vars
  <2> QED BY <1>5, <2>1, <2>2, <2>3 DEF VerificationJob
<1>6. CASE RunningJob
  BY <1>2, <1>3, <1>6 DEF RunningJob, CheckVerification, FinishVerification, StopVerification,
       CheckContent, MarkVerified, VerifyRefused, server
<1>7. CASE Publication
  BY <1>1, <1>3, <1>7 DEF Publication, PostWithId, Post, DeliveryFailsWithId, DeliveryFails,
       NextInBatch, CrashAfterPublishWithJobs, CrashAfterPublish, CrashWithJobs, Crash, Restart
<1>8. CASE People
  BY <1>2, <1>8 DEF People, Edit, Close, Reopen, Move, server
<1>9. CASE Service
  <2>1. ASSUME NEW bound, NEW regenerate, SaveSnapshot(bound, regenerate) PROVE UnderwayInv'
    BY <1>1, <2>1 DEF SaveSnapshot
  <2>2. SaveMerge => UnderwayInv'
    BY <1>1 DEF SaveMerge
  <2>3. UNCHANGED job
    BY <1>9 DEF Service, server
  <2> QED
    BY <1>1, <1>2, <1>3, <1>9, <2>1, <2>2, <2>3
       DEF Service, Agree, Look, Skip, RestoreFails, NextInBatch, Submit, Operator, ManualSync,
           Rerun, SyncEvent, ClosedEvent, Sync, Announce, Generate, GenerateFails, GenerateStale,
           Project, ProjectClosed, FinishSync, Grade, StartJob, EndJob, PassJob, ExpireJob,
           PublicationStatus, FlushStart, FlushAborts, LoseEvent, Elapse
<1>10. CASE UNCHANGED verificationVars
  BY <1>2, <1>10 DEF verificationVars, vars, server
<1> QED BY <1>4, <1>5, <1>6, <1>7, <1>8, <1>9, <1>10 DEF VerificationNext

\* And so it is at all times.
LEMMA UnderwayCorrect == VerificationSpec => []UnderwayInv
<1>1. VerificationInit => UnderwayInv
  BY DEF VerificationInit, Init, UnderwayInv
<1>2. VerificationTypeOK => ServerTypeOK
  BY DEF VerificationTypeOK, ServerTypeOK
<1> QED BY <1>1, <1>2, UnderwayStep, VerificationTypeCorrect, PTL DEF VerificationSpec

\* The rest of the verification, from its second read on.
LEMMA RunningJobRefines ==
    ASSUME ServerTypeOK, HandInv, UnderwayInv, RunningJob
    PROVE  Gatekeeper!Next
<1> DEFINE r == ReceiptOf(event)
<1>1. /\ op \in {"check", "mark"} /\ r \in Receipt /\ job[r] = "queued" /\ r \in Running
      /\ UNCHANGED <<step, runs>>
  BY DEF RunningJob, CheckVerification, FinishVerification, StopVerification, CheckContent,
       MarkVerified, VerifyRefused, HandInv, UnderwayInv, Running, runner, github
<1>2. r = Gatekeeper!ReceiptOf(event)
  BY DEF ReceiptOf, Gatekeeper!ReceiptOf
<1> USE DEF github, relay, tables, queue, delivery, Gatekeeper!github, Gatekeeper!relay,
        Gatekeeper!tables, Gatekeeper!queue, Gatekeeper!delivery, NoLock, Gatekeeper!NoLock
<1>3. CASE CheckVerification
  <2>1. CheckContent /\ Running' = Running
    BY <1>1, <1>3 DEF CheckVerification, Running, server
  <2>2. Gatekeeper!CheckContent
    BY <2>1 DEF CheckContent, Gatekeeper!CheckContent, BindingCurrent, Gatekeeper!BindingCurrent
  <2> QED BY <2>2 DEF Gatekeeper!Next, Gatekeeper!Relay, Gatekeeper!Mark
<1>4. CASE FinishVerification
  <2>1. MarkVerified /\ job' = [job EXCEPT ![r] = "verified"]
    BY <1>4 DEF FinishVerification
  <2>2. Running' = Running
    BY <1>1, <2>1 DEF Running, ServerTypeOK
  <2>3. MarkReceiptVerified(r) => Gatekeeper!MarkReceiptVerified(r)
    BY SameQueue DEF MarkReceiptVerified, Gatekeeper!MarkReceiptVerified,
         SuccessStatus, Gatekeeper!SuccessStatus
  <2>4. JobsVerified(r) = Gatekeeper!JobsVerified(r)
    BY DEF JobsVerified, Gatekeeper!JobsVerified, ReceiptOf, Gatekeeper!ReceiptOf
  <2>5. Gatekeeper!MarkVerified
    BY <1>2, <2>1, <2>2, <2>3, <2>4 DEF MarkVerified, Gatekeeper!MarkVerified
  <2> QED BY <2>5 DEF Gatekeeper!Next, Gatekeeper!Relay, Gatekeeper!Mark
<1>5. CASE StopVerification
  <2>1. VerifyRefused /\ job' = [job EXCEPT ![r] = "refused"]
    BY <1>5 DEF StopVerification
  <2>2. Running' \in {Running, Running \ {r}}
    BY <1>1, <2>1 DEF Running, ServerTypeOK
  <2>3. Gatekeeper!VerifyRefused
    BY <1>2, <2>1, <2>2 DEF VerifyRefused, Gatekeeper!VerifyRefused, BindingCurrent,
         Gatekeeper!BindingCurrent, CountFault, Gatekeeper!CountFault
  <2> QED BY <2>3 DEF Gatekeeper!Next, Gatekeeper!Relay, Gatekeeper!Mark
<1> QED BY <1>3, <1>4, <1>5 DEF RunningJob

\* Nothing runs at the start.
LEMMA VerificationInitRefines == VerificationInit => Gatekeeper!Init
<1> SUFFICES ASSUME VerificationInit PROVE Gatekeeper!Init
  OBVIOUS
<1>1. Running = {}
  BY DEF VerificationInit, Init, Running
<1> QED BY <1>1, SameEvents DEF VerificationInit, Init, Gatekeeper!Init

\* The service with its runs, their files, their jobs, the restarts and the statuses'
\* numbers implements BotService, and so keeps all that BotService promises.
THEOREM VerificationImplements == VerificationSpec => ImplementsBotService
<1>1. /\ VerificationTypeOK /\ ServiceInv /\ UnderwayInv
      /\ [VerificationNext]_verificationVars
      => [Gatekeeper!Next]_Gatekeeper!vars
  <2> SUFFICES ASSUME VerificationTypeOK, ServiceInv, UnderwayInv, [VerificationNext]_verificationVars
               PROVE  [Gatekeeper!Next]_Gatekeeper!vars
    OBVIOUS
  <2>1. TypeOK /\ HandInv /\ RunnerTypeOK /\ ServerTypeOK
    BY DEF VerificationTypeOK, ServiceInv, RunnerTypeOK, ServerTypeOK
  <2>5. CASE RunningJob
    BY <2>1, <2>5, RunningJobRefines
  <2>2. CASE UNCHANGED verificationVars
    BY <2>2 DEF verificationVars, vars, runner, Running, Gatekeeper!vars
  <2>3. CASE \E r \in Receipt : Run(r) \/ VerificationJob(r)
    BY <2>1, <2>3, RunRefines, JobRefines
  <2>4. CASE Publication \/ People \/ Service
    BY <2>1, <2>4, PublicationRefines, PeopleRefine, ServiceRefines
  <2> QED BY <2>2, <2>3, <2>4, <2>5 DEF VerificationNext
<1> QED BY <1>1, VerificationInitRefines, VerificationTypeCorrect, ServiceInvCorrect, UnderwayCorrect, PTL
      DEF VerificationSpec, ImplementsBotService, Gatekeeper!Spec
===============================================================================
