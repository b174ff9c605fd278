----------------------------- MODULE Verification -----------------------------
(***************************************************************************)
(* The verification workflow of a receipt (server/relay.py and the workflow *)
(* file) beside the service it talks to.  A run is five commands, each one  *)
(* a process of its own, that pass a small state file from one to the next: *)
(* read the receipt's publication view, read the pull request, compare the  *)
(* two, have the server verify, and wait until GitHub shows the success     *)
(* that the server recorded.  Between any two of their calls the pull       *)
(* request, the server and its outbox go on, the server restarts, and the   *)
(* command itself may fail or die.                                          *)
(*                                                                         *)
(* The module extends BotService with what that one leaves out of a run.    *)
(* runs now holds the receipts whose run waits in its concurrency group;    *)
(* one run of a receipt works at a time.  The service alone, with a run     *)
(* seen from outside, is what this module implements.                       *)
(***************************************************************************)
EXTENDS BotService

CONSTANTS
    AnyOrder,       \* whether a run may begin with any of the five commands
    MaxResubmits,   \* _MAX_JOB_RESUBMITS
    MaxEvents       \* bound on edits and faults together

ASSUME VerificationAssumption ==
    /\ AnyOrder \in BOOLEAN
    /\ MaxResubmits \in Nat
    /\ MaxEvents \in Nat

VARIABLES
    step,       \* what the run of a receipt does next
    run,        \* the run id and attempt of a receipt's last run
    file,       \* the state file on its runner
    resubmits,  \* how often the run asked again for a lost job
    did,        \* history: the commands that succeeded in this run
    calm,       \* history: the pull request is as the run last found it
    job,        \* server memory: the verification job of a receipt
    posted,     \* GitHub: the id of the last status posted on a head
    remote      \* outbox table: the status id stored with a receipt's success

runner == <<step, run, file, resubmits, did, calm>>
server == <<job, remote>>
verificationVars == <<vars, runner, job, posted, remote>>

Commands == {"receipt", "snapshot", "compare", "verify", "publication"}
NoFile == [stage |-> "none", run |-> 0, snap |-> None]
StateFile == [stage : Commands \cup {"none"}, run : Nat, snap : Snapshots \cup {None}]

-------------------------------------------------------------------------------
\* What a receipt's run is told.

\* receipt_publication and _receipt_gate_payload: the view of a current receipt
\* with the state of its success in the outbox.
GateState(r) ==
    LET status == outbox[SuccessStatus(r)]
    IN IF receipt[r] # "verified" THEN "waiting_verification"
       ELSE IF status = "absent" THEN "missing"
       ELSE IF status # "sent" THEN "waiting_publication"
       ELSE IF remote[r] = 0 THEN "skipped"
       ELSE "published"

\* The service answers between its operations, and only for a current receipt.
ViewGiven(r) == op = "idle" /\ receipt[r] # "none" /\ ReceiptCurrent(r)

\* _require_publication_view: the view is well formed and says one of these.
Told(r, states) == ViewGiven(r) /\ GateState(r) \in states

\* _compare_receipt_metadata: the pull request, read by the runner itself, has the
\* author and the binding of the receipt.
Compared(r, snap) == snap = r.snap

\* Mutant: the state of another attempt is taken for that of this one.
LoadStateOfAnyRun(r, stage) ==
    /\ file[r].stage = stage
    /\ stage \in {"compare", "verify"} => Compared(r, file[r].snap)

\* _load_verification_state and _validate_verification_state: the state of this
\* very run and attempt, left by the command before; from the comparison on, the
\* comparison is repeated whenever the file is read.
LoadState(r, stage) ==
    /\ file[r].stage = stage
    /\ file[r].run = run[r]
    /\ stage \in {"compare", "verify"} => Compared(r, file[r].snap)

\* _write_verification_state: a new file takes the place of the old one at once.
\* The command is then over, and the runner goes on to the next.
WriteState(r, stage, snap, next) ==
    /\ file' = [file EXCEPT ![r] = [stage |-> stage, run |-> run[r], snap |-> snap]]
    /\ did' = [did EXCEPT ![r] = @ \cup {stage}]
    /\ step' = [step EXCEPT ![r] = next]

Goto(r, next) ==
    /\ step' = [step EXCEPT ![r] = next]
    /\ UNCHANGED <<file, did>>

\* Mutant: the last command looks at the outbox only.
SuccessOnHeadAssumed(r) == TRUE

\* _latest_context_status: the newest status of the gate on the head is the
\* success whose id the service recorded.
SuccessOnHead(r) ==
    /\ latest[HeadSha[r.snap]] = SuccessStatus(r)
    /\ posted[HeadSha[r.snap]] = remote[r]

\* _require_current_pull: open, of the same author, at the commits compared.
PullAsCompared(r) == PullCurrent(r.snap)

-------------------------------------------------------------------------------
VerificationTypeOK ==
    /\ TypeOK
    /\ step \in [Receipt -> Commands \cup {"none", "polling", "view", "status", "confirm"}]
    /\ run \in [Receipt -> Nat]
    /\ file \in [Receipt -> StateFile]
    /\ resubmits \in [Receipt -> 0 .. MaxResubmits]
    /\ did \in [Receipt -> SUBSET Commands]
    /\ calm \in [Receipt -> BOOLEAN]
    /\ job \in [Receipt -> {"none", "queued", "lost", "verified", "refused"}]
    /\ posted \in [Heads -> Nat]
    /\ remote \in [Receipt -> Nat]

VerificationInit ==
    /\ Init
    /\ step = [r \in Receipt |-> "none"]
    /\ run = [r \in Receipt |-> 0]
    /\ file = [r \in Receipt |-> NoFile]
    /\ resubmits = [r \in Receipt |-> 0]
    /\ did = [r \in Receipt |-> {}]
    /\ calm = [r \in Receipt |-> FALSE]
    /\ job = [r \in Receipt |-> "none"]
    /\ posted = [h \in Heads |-> 0]
    /\ remote = [r \in Receipt |-> 0]

-------------------------------------------------------------------------------
\* The workflow run.

\* A new run, or a new attempt of one, on a machine that kept the file of the
\* earlier runs; on a fresh one the next command finds no file instead of one
\* that is not its own, and fails alike.
StartRun(r) ==
    /\ r \in runs
    /\ step[r] = "none"
    /\ runs' = runs \ {r}
    /\ run' = [run EXCEPT ![r] = @ + 1]
    /\ resubmits' = [resubmits EXCEPT ![r] = 0]
    /\ did' = [did EXCEPT ![r] = {}]
    /\ \E first \in Commands :
          /\ first = "receipt" \/ AnyOrder
          /\ step' = [step EXCEPT ![r] = first]
    /\ UNCHANGED <<pull, latest, relay, tables, queue, lock, jobs, edits, faults,
                   file, calm, server, posted>>

\* _verification_receipt_step
LoadReceipt(r) ==
    /\ step[r] = "receipt"
    /\ Told(r, {"waiting_verification", "waiting_publication", "published"})
    /\ WriteState(r, "receipt", None, "snapshot")
    /\ UNCHANGED <<vars, run, resubmits, calm, server, posted>>

\* _verification_snapshot_step
ReadSnapshot(r) ==
    /\ step[r] = "snapshot"
    /\ LoadState(r, "receipt")
    /\ WriteState(r, "snapshot", pull.snap, "compare")
    /\ UNCHANGED <<vars, run, resubmits, calm, server, posted>>

\* _verification_compare_step
Compare(r) ==
    /\ step[r] = "compare"
    /\ LoadState(r, "snapshot")
    /\ Compared(r, file[r].snap)
    /\ WriteState(r, "compare", r.snap, "verify")
    /\ UNCHANGED <<vars, run, resubmits, calm, server, posted>>

\* enqueue_receipt_verify: a job that is queued, or has verified the receipt, is
\* joined; one that failed is replaced.
Enqueued(r) ==
    [job EXCEPT ![r] = IF @ \in {"queued", "verified"} THEN @ ELSE "queued"]

\* _verification_verify_step, up to the job's acceptance.
SubmitVerification(r) ==
    /\ step[r] = "verify"
    /\ LoadState(r, "compare")
    /\ job' = Enqueued(r)
    /\ Goto(r, "polling")
    /\ UNCHANGED <<vars, run, resubmits, calm, posted, remote>>

\* _poll_actions_job: the job is unknown to a server that has restarted since.
Resubmit(r) ==
    /\ step[r] = "polling"
    /\ job[r] \in {"none", "lost"}
    /\ resubmits[r] < MaxResubmits
    /\ job' = Enqueued(r)
    /\ resubmits' = [resubmits EXCEPT ![r] = @ + 1]
    /\ UNCHANGED <<vars, step, run, file, did, calm, posted, remote>>

\* _verification_verify_step, with the result of the job.
Verified(r) ==
    /\ step[r] = "polling"
    /\ job[r] = "verified"
    /\ WriteState(r, "verify", r.snap, "publication")
    /\ UNCHANGED <<vars, run, resubmits, calm, server, posted>>

\* _verification_publication_step: the pull request first, which must be open at
\* the commits that were compared,
CheckPull(r) ==
    /\ step[r] = "publication"
    /\ LoadState(r, "verify")
    /\ PullAsCompared(r)
    /\ calm' = [calm EXCEPT ![r] = pull.snap = r.snap]
    /\ Goto(r, "view")
    /\ UNCHANGED <<vars, run, resubmits, server, posted>>

\* then the service's view, which may say to wait,
ReadView(r) ==
    /\ step[r] = "view"
    /\ \/ Told(r, {"waiting_publication"}) /\ Goto(r, "publication")
       \/ Told(r, {"published"}) /\ Goto(r, "status")
    /\ UNCHANGED <<vars, run, resubmits, calm, server, posted>>

\* then GitHub's newest status, which may be another one for now,
ReadStatus(r) ==
    /\ step[r] = "status"
    /\ \/ SuccessOnHead(r) /\ Goto(r, "confirm")
       \/ ~SuccessOnHead(r) /\ Goto(r, "publication")
    /\ UNCHANGED <<vars, run, resubmits, calm, server, posted>>

\* and the pull request again: the run is green.
Confirm(r) ==
    /\ step[r] = "confirm"
    /\ PullAsCompared(r)
    /\ WriteState(r, "publication", r.snap, "none")
    /\ UNCHANGED <<vars, run, resubmits, calm, server, posted>>

\* A check or a call fails, a deadline passes, or the command is killed: the
\* commands after it are skipped, and the run is red.
Fail(r) ==
    /\ step[r] # "none"
    /\ Goto(r, "none")
    /\ UNCHANGED <<vars, run, resubmits, calm, server, posted>>

-------------------------------------------------------------------------------
\* The verification job on the server, which outlives the run that asked.

\* Mutant: the runner has compared, so the server does not.
RunVerificationTrusting(r) ==
    /\ job[r] = "queued"
    /\ op = "idle"
    /\ MarkReceiptVerified(r)
    /\ jobs' = JobsVerified(r)
    /\ job' = [job EXCEPT ![r] = "verified"]
    /\ UNCHANGED <<github, relay, stored, current, merge, attempts, lock, edits,
                   faults, runner, posted, remote>>

\* verify, from its first read of the pull request,
RunVerification(r) ==
    /\ job[r] = "queued"
    /\ VerifyReceipt(r)
    /\ UNCHANGED <<runner, server, posted>>

\* over its second one, of the content,
CheckVerification ==
    /\ CheckContent
    /\ UNCHANGED <<runner, server, posted>>

\* to the mark, or to the refusal.
FinishVerification ==
    /\ MarkVerified
    /\ job' = [job EXCEPT ![ReceiptOf(event)] = "verified"]
    /\ UNCHANGED <<runner, posted, remote>>

StopVerification ==
    /\ VerifyRefused
    /\ job' = [job EXCEPT ![ReceiptOf(event)] = "refused"]
    /\ UNCHANGED <<runs, runner, posted, remote>>

\* The receipt or the pull request is not what it was, or GitHub fails, by the
\* first read already.
RefuseVerification(r) ==
    /\ job[r] = "queued"
    /\ op = "idle"
    /\ job' = [job EXCEPT ![r] = "refused"]
    /\ UNCHANGED <<vars, runner, posted, remote>>

\* A result is dropped after its time.
ExpireVerification(r) ==
    /\ job[r] \in {"verified", "refused"}
    /\ job' = [job EXCEPT ![r] = "none"]
    /\ UNCHANGED <<vars, runner, posted, remote>>

\* Jobs are only in memory: none of them, nor its result, can be asked for now.
JobsLost == job' = [r \in Receipt |-> IF job[r] \in {"none", "refused"} THEN "none" ELSE "lost"]

-------------------------------------------------------------------------------
\* The service's own steps, with the ids of the statuses it posts.

PostStatus(e) ==
    posted' = IF e \in StatusEvent
              THEN [posted EXCEPT ![HeadSha[e.snap]] = @ + 1]
              ELSE posted

\* mark_publication_sent, with GitHub's answer.
StoreId(e) ==
    remote' = [r \in Receipt |-> IF e = SuccessStatus(r) THEN posted'[HeadSha[e.snap]]
                                 ELSE remote[r]]

PostWithId ==
    /\ Post
    /\ PostStatus(event)
    /\ StoreId(event)
    /\ UNCHANGED <<runner, job>>

\* The status may be posted without the service learning its id.
DeliveryFailsWithId(e) ==
    /\ DeliveryFails(e)
    /\ \/ UNCHANGED <<latest, posted>>
       \/ /\ op = "post"
          /\ e \in StatusEvent
          /\ latest' = [latest EXCEPT ![HeadSha[e.snap]] = e]
          /\ PostStatus(e)
    /\ UNCHANGED <<runner, server>>

CrashWithJobs ==
    /\ Crash
    /\ JobsLost
    /\ UNCHANGED <<runner, posted, remote>>

CrashAfterPublishWithJobs ==
    /\ CrashAfterPublish
    /\ PostStatus(event)
    /\ JobsLost
    /\ UNCHANGED <<runner, remote>>

\* Whoever changes the pull request ends the calm of every run.
People ==
    /\ \/ \E s \in Snapshots : Edit(s)
       \/ \E state \in {"closed", "merged"} : Close(state)
       \/ Reopen
    /\ calm' = [r \in Receipt |-> FALSE]
    /\ UNCHANGED <<step, run, file, resubmits, did, server, posted>>

\* Everything else that the service, its relay and its author do.
Service ==
    /\ \/ \E j \in Jobs : Submit(j)
       \/ Operator
       \/ \E s \in Snapshots : SyncEvent(s)
       \/ \E h \in Heads : ClosedEvent(h)
       \/ Sync
       \/ Grade
       \/ \E overdue \in SUBSET Requests : PublicationStatus(overdue) \/ FlushStart(overdue)
       \/ Agree
       \/ FlushAborts
       \/ LoseEvent
       \/ \E e \in Event : Look(e) \/ Skip(e) \/ RestoreFails(e) \/ Elapse(e)
    /\ UNCHANGED <<runner, server, posted>>

Run(r) ==
    \/ StartRun(r) \/ LoadReceipt(r) \/ ReadSnapshot(r) \/ Compare(r)
    \/ SubmitVerification(r) \/ Resubmit(r) \/ Verified(r)
    \/ CheckPull(r) \/ ReadView(r) \/ ReadStatus(r) \/ Confirm(r) \/ Fail(r)

VerificationJob(r) == RunVerification(r) \/ RefuseVerification(r) \/ ExpireVerification(r)

RunningJob == CheckVerification \/ FinishVerification \/ StopVerification

Publication ==
    \/ PostWithId
    \/ \E e \in Event : DeliveryFailsWithId(e)
    \/ CrashAfterPublishWithJobs
    \/ CrashWithJobs

VerificationNext ==
    /\ \/ \E r \in Receipt : Run(r) \/ VerificationJob(r)
       \/ RunningJob
       \/ Publication
       \/ People
       \/ Service
    /\ edits' + faults' <= MaxEvents

VerificationSpec == VerificationInit /\ [][VerificationNext]_verificationVars

-------------------------------------------------------------------------------
(***************************************************************************)
(* What a green run means.                                                 *)
(***************************************************************************)

Green(r) == file[r].stage = "publication" /\ file[r].run = run[r]

\* A green run went through all five commands itself, whichever command it was
\* started with and whatever file an earlier run or attempt left behind.
GreenRanEveryCommand == \A r \in Receipt : Green(r) => did[r] = Commands

\* When a run turns green its receipt is verified, and unless somebody touched
\* the pull request during the last look, GitHub shows the very success that the
\* service recorded as the newest status of the head: not a success that was
\* skipped, and not one that another content's pending status took the place of.
GreenShowsSuccess ==
    [][\A r \in Receipt :
          step[r] = "confirm" /\ did'[r] # did[r]
          => /\ receipt[r] = "verified"
             /\ calm[r] => /\ latest[HeadSha[r.snap]] = SuccessStatus(r)
                           /\ posted[HeadSha[r.snap]] = remote[r]]_verificationVars

\* The receipts whose run is on its way, as the service alone sees them: a run
\* waits or works, or has left a job on the server.
Running ==
    {r \in Receipt : r \in runs \/ step[r] # "none" \/ job[r] \notin {"none", "refused"}}

Gatekeeper == INSTANCE BotService WITH runs <- Running

\* With its runs in five commands, their files, jobs, resubmissions and restarts,
\* the service still does what BotService says: every promise of that module
\* holds of this one.
ImplementsBotService == Gatekeeper!Spec
===============================================================================
