------------------------------ MODULE BotService ------------------------------
(***************************************************************************)
(* The review gate of one pull request: BotService (server/service.py) over *)
(* its SQLite store (server/store.py), the outbox that carries its commit   *)
(* statuses and verification requests to GitHub, the Actions relay that     *)
(* sends events and verifications back, and the pull request itself, which  *)
(* its author and its maintainers change at any moment.                     *)
(*                                                                         *)
(* A snapshot stands for its content hash: the same title, labels, head,    *)
(* base and policy read twice give the same snapshot.  Every operation of   *)
(* BotService holds one lock; op tells how far the holder has got, so that  *)
(* what changes on GitHub, and a crash, can fall between two transactions   *)
(* of one operation, and between a read of the pull request and the call or *)
(* the mark that follows from it.  Only grading is done without the lock.   *)
(*                                                                         *)
(* The module follows the deployment that publishes statuses (live mode and *)
(* a public origin).  Comment and check-run rows of the outbox are rows of  *)
(* their own that no status depends on, and are left out, with the          *)
(* preparation error that only those show.                                  *)
(***************************************************************************)
EXTENDS Naturals, FiniteSets

CONSTANTS
    Snapshots,      \* contents the pull request can show
    Heads, Bases,   \* commits
    HeadSha,        \* [Snapshots -> Heads]
    BaseSha,        \* [Snapshots -> Bases]
    Triggered,      \* snapshots whose risk score asks for an interview
    QuestionSets,   \* complete question sets, each one a question_version
    NoQuestions,    \* the empty question set, question_count = 0
    None,           \* no row
    Unmeasured,     \* a merge row with no snapshot
    Jobs,           \* request ids of answers
    MaxActiveJobs,  \* _MAX_ACTIVE_JOBS
    MaxDispatch,    \* _MAX_VERIFIER_DISPATCH_ATTEMPTS
    EditTo,         \* the edits authors make: pairs of snapshots
    MayReopen,      \* whether a closed pull request may be reopened
    MayLose,        \* whether an event of the relay may be lost
    MaxEdits,       \* bound on what people do to the pull request
    MaxFaults       \* bound on crashes and failed GitHub calls

Receipt == [snap : Snapshots, qv : QuestionSets]

SnapshotEvent == [kind : {"pending_status", "neutral_status"},
                  snap : Snapshots, qv : {NoQuestions}]
ReceiptEvent == [kind : {"success_status", "verifier_dispatch"},
                 snap : Snapshots, qv : QuestionSets]
Event == SnapshotEvent \cup ReceiptEvent
StatusEvent == {e \in Event : e.kind # "verifier_dispatch"}

\* The status of an event; "retrying" is pending with a due time still ahead.
OutboxStatus == {"absent", "pending", "retrying", "sent"}

\* Answers on their way, by the questions they answer.
MemoryJob == [state : {"queued", "running", "awaiting_verification", "verified"},
              snap : Snapshots, qv : QuestionSets]
NoJob == [state |-> "none"]

ASSUME ConstantsAssumption ==
    /\ HeadSha \in [Snapshots -> Heads]
    /\ BaseSha \in [Snapshots -> Bases]
    /\ Triggered \subseteq Snapshots
    /\ EditTo \subseteq Snapshots \X Snapshots
    /\ MayReopen \in BOOLEAN
    /\ MayLose \in BOOLEAN
    /\ MaxActiveJobs \in Nat \ {0}
    /\ MaxDispatch \in Nat \ {0}
    /\ MaxEdits \in Nat
    /\ MaxFaults \in Nat
ASSUME NoneAssumption ==
    /\ NoQuestions \notin QuestionSets
    /\ None \notin Snapshots \cup QuestionSets \cup {NoQuestions} \cup Event
    /\ None # Unmeasured
    /\ Unmeasured \notin Snapshots

VARIABLES
    pull,         \* GitHub: what the pull request shows, and its state
    latest,       \* GitHub: the status last posted on each head
    runs,         \* GitHub: receipts whose verification workflow runs
    inbox,        \* relay: sync events not yet handled, by snapshot
    closedInbox,  \* relay: closed events not yet handled, by head
    stored,       \* snapshots table: the questions of each snapshot
    current,      \* pr_snapshots table
    receipt,      \* receipts table
    outbox,       \* outbox table: the status column of each event
    attempts,     \* outbox table: the attempts column of dispatch events
    merge,        \* merges table
    op,           \* what the holder of the lock is about to do
    opSnap,       \* the snapshot it is doing it to
    opBound,      \* whether the sync came with an expected binding
    batch,        \* the due events the running flush has not handled
    event,        \* the event being delivered, or the success being verified
    moved,        \* history: the pull request changed since its holder read it
    jobs,         \* MemoryJobs, by request id
    edits, faults \* counters of what is bounded

github == <<pull, latest, runs>>
relay == <<inbox, closedInbox>>
tables == <<stored, current, receipt, merge>>
queue == <<outbox, attempts>>
delivery == <<batch, event, moved>>
lock == <<op, opSnap, opBound, delivery>>
vars == <<pull, latest, runs, inbox, closedInbox, stored, current, receipt, merge,
          outbox, attempts, op, opSnap, opBound, batch, event, moved, jobs, edits, faults>>

-------------------------------------------------------------------------------
\* Events and what a receipt or a pull request is compared with.

PendingStatus(s) == [kind |-> "pending_status", snap |-> s, qv |-> NoQuestions]
SuccessStatus(r) == [kind |-> "success_status", snap |-> r.snap, qv |-> r.qv]
Dispatch(r) == [kind |-> "verifier_dispatch", snap |-> r.snap, qv |-> r.qv]
ReceiptOf(e) == [snap |-> e.snap, qv |-> e.qv]

\* The holder of the lock has read the pull request and not yet acted on it.
Reading == {"compare", "post", "check", "mark"}

NoLock == /\ op' = "idle"
          /\ opSnap' = None
          /\ opBound' = FALSE
          /\ batch' = {}
          /\ event' = None
          /\ moved' = FALSE

\* _assert_pull_current: open, and the same commits; the title and the labels
\* are not compared.
PullCurrent(s) ==
    /\ pull.state = "open"
    /\ HeadSha[pull.snap] = HeadSha[s]
    /\ BaseSha[pull.snap] = BaseSha[s]

\* A fresh read of the content has the binding of s; the state is no part of it.
BindingCurrent(s) == pull.snap = s

\* _require_current_receipt: r answers the questions of the current snapshot.
ReceiptCurrent(r) == current = r.snap /\ stored[r.snap] = r.qv

\* s has a verified receipt for the questions stored now.
VerifiedNow(s) ==
    /\ stored[s] \in QuestionSets
    /\ receipt[[snap |-> s, qv |-> stored[s]]] = "verified"

\* Mutant: --regenerate is refused for unverified receipts only.
HasUnverifiedReceipts(s) ==
    \E q \in QuestionSets : receipt[[snap |-> s, qv |-> q]] = "unverified"

HasReceipts(s) == \E q \in QuestionSets : receipt[[snap |-> s, qv |-> q]] # "none"

-------------------------------------------------------------------------------
\* The outbox.

\* _queue_publication_connection: an event is inserted once, made due again
\* while it has not been sent, and left alone for ever after.
Enqueue(box, es) ==
    [e \in Event |-> IF e \in es /\ box[e] \in {"absent", "pending", "retrying"}
                     THEN "pending" ELSE box[e]]

\* Mutant: requests that timed out are made due again however often they did.
RequeueUnlimited(box, overdue) ==
    [e \in Event |-> IF /\ e \in overdue
                        /\ e.kind = "verifier_dispatch"
                        /\ box[e] = "sent"
                        /\ receipt[ReceiptOf(e)] = "unverified"
                     THEN "pending" ELSE box[e]]

\* Mutant: requests that timed out are not made due again.
RequeueNothing(box, overdue) == box

\* requeue_unverified_dispatches: a request accepted long ago without a result.
RequeueDispatches(box, overdue) ==
    [e \in Event |-> IF /\ e \in overdue
                        /\ e.kind = "verifier_dispatch"
                        /\ box[e] = "sent"
                        /\ attempts[ReceiptOf(e)] < MaxDispatch
                        /\ receipt[ReceiptOf(e)] = "unverified"
                     THEN "pending" ELSE box[e]]

\* _projection_publications: the events that show the stored state of s.
Projection(s, bound) ==
    {e \in Event :
        /\ e.snap = s
        /\ \/ e.kind = "pending_status" /\ s \in Triggered
           \/ e.kind = "neutral_status" /\ s \notin Triggered /\ bound
           \/ /\ e.kind = "success_status"
              /\ s \in Triggered
              /\ stored[s] = e.qv
              /\ receipt[ReceiptOf(e)] = "verified"}

\* The projection of a closed pull request, whose content was s when read:
\* nothing, unless the current snapshot was verified at the closed head.
ClosedProjection(s) ==
    {e \in Event :
        /\ current # None
        /\ e \in Projection(current, FALSE)
        /\ VerifiedNow(current)
        /\ HeadSha[current] = HeadSha[s]}

-------------------------------------------------------------------------------
TypeOK ==
    /\ pull \in [snap : Snapshots, state : {"open", "closed", "merged"}]
    /\ latest \in [Heads -> StatusEvent \cup {None}]
    /\ runs \subseteq Receipt
    /\ inbox \subseteq Snapshots
    /\ closedInbox \subseteq Heads
    /\ stored \in [Snapshots -> QuestionSets \cup {NoQuestions, None}]
    /\ current \in Snapshots \cup {None}
    /\ receipt \in [Receipt -> {"none", "unverified", "verified"}]
    /\ merge \in Snapshots \cup {None, Unmeasured}
    /\ outbox \in [Event -> OutboxStatus]
    /\ attempts \in [Receipt -> Nat]
    /\ op \in {"idle", "announce", "generate", "project", "close", "flush"} \cup Reading
    /\ opSnap \in Snapshots \cup {None}
    /\ op \in {"announce", "generate", "project", "close"} => opSnap \in Snapshots
    /\ opBound \in BOOLEAN
    /\ batch \subseteq Event
    /\ event \in Event \cup {None}
    /\ op \in Reading => event \in Event
    /\ moved \in BOOLEAN
    /\ jobs \in [Jobs -> {NoJob} \cup MemoryJob]
    /\ edits \in Nat
    /\ faults \in Nat

Init ==
    /\ \E s \in Snapshots : /\ pull = [snap |-> s, state |-> "open"]
                            /\ inbox = {s}
    /\ latest = [h \in Heads |-> None]
    /\ runs = {}
    /\ closedInbox = {}
    /\ stored = [s \in Snapshots |-> None]
    /\ current = None
    /\ receipt = [r \in Receipt |-> "none"]
    /\ merge = None
    /\ outbox = [e \in Event |-> "absent"]
    /\ attempts = [r \in Receipt |-> 0]
    /\ op = "idle"
    /\ opSnap = None
    /\ opBound = FALSE
    /\ batch = {}
    /\ event = None
    /\ moved = FALSE
    /\ jobs = [j \in Jobs |-> NoJob]
    /\ edits = 0
    /\ faults = 0

-------------------------------------------------------------------------------
\* The pull request and the events the relay takes from it.

CountEdit == edits < MaxEdits /\ edits' = edits + 1
CountFault == faults < MaxFaults /\ faults' = faults + 1

\* The holder of the lock does not notice what it has read change.
Move == /\ moved' = (op \in Reading)
        /\ UNCHANGED <<op, opSnap, opBound, batch, event>>

\* A push, a new title, a label: the relay gets an event bound to the content.
Edit(s) ==
    /\ CountEdit
    /\ pull.state = "open"
    /\ <<pull.snap, s>> \in EditTo
    /\ pull' = [pull EXCEPT !.snap = s]
    /\ inbox' = inbox \cup {s}
    /\ Move
    /\ UNCHANGED <<latest, runs, closedInbox, tables, queue, jobs, faults>>

Close(state) ==
    /\ CountEdit
    /\ pull.state = "open"
    /\ pull' = [pull EXCEPT !.state = state]
    /\ closedInbox' = closedInbox \cup {HeadSha[pull.snap]}
    /\ Move
    /\ UNCHANGED <<latest, runs, inbox, tables, queue, jobs, faults>>

Reopen ==
    /\ CountEdit
    /\ MayReopen
    /\ pull.state = "closed"
    /\ pull' = [pull EXCEPT !.state = "open"]
    /\ inbox' = inbox \cup {pull.snap}
    /\ Move
    /\ UNCHANGED <<latest, runs, closedInbox, tables, queue, jobs, faults>>

\* The workflow run of an event fails, or gives up after its resubmissions.
LoseEvent ==
    /\ CountFault
    /\ MayLose
    /\ \/ \E s \in inbox : inbox' = inbox \ {s} /\ UNCHANGED closedInbox
       \/ \E h \in closedInbox : closedInbox' = closedInbox \ {h} /\ UNCHANGED inbox
    /\ UNCHANGED <<github, tables, queue, lock, jobs, edits>>

-------------------------------------------------------------------------------
\* sync and sync_merged.

\* The first transaction of sync on an open pull request: the snapshot is saved
\* with the questions it already has, or with none until new ones are generated.
SaveSnapshot(bound, regenerate) ==
    LET s == pull.snap
    IN /\ op = "idle"
       /\ pull.state = "open"
       /\ ~(regenerate /\ s \in Triggered /\ HasReceipts(s))
       /\ current' = s
       /\ \/ /\ s \notin Triggered
             /\ stored' = [stored EXCEPT ![s] = NoQuestions]
             /\ op' = "project"
          \/ /\ s \in Triggered
             /\ stored[s] \in QuestionSets /\ ~regenerate
             /\ op' = "project"
             /\ UNCHANGED stored
          \/ /\ s \in Triggered
             /\ stored[s] \notin QuestionSets \/ regenerate
             /\ stored' = [stored EXCEPT ![s] = NoQuestions]
             /\ op' = "announce"
       /\ opSnap' = s
       /\ opBound' = bound
       /\ UNCHANGED <<receipt, merge, delivery>>

\* sync_merged, or sync, on a closed pull request: the first transaction.  Which
\* snapshot of the head a merge is measured by depends on its parent commits.
SaveMerge ==
    /\ op = "idle"
    /\ pull.state # "open"
    /\ \/ /\ pull.state = "closed" \/ merge \in Snapshots
          /\ UNCHANGED merge
       \/ /\ pull.state = "merged" /\ merge \notin Snapshots
          /\ merge' \in {Unmeasured} \cup
                        {s \in Snapshots : /\ stored[s] # None
                                           /\ HeadSha[s] = HeadSha[pull.snap]}
    /\ op' = "close"
    /\ opSnap' = pull.snap
    /\ UNCHANGED <<stored, current, receipt, opBound, delivery>>

\* The relay's sync_event, whose binding must be that of the content read.
SyncEvent(s) ==
    /\ s \in inbox
    /\ \/ /\ pull.snap = s
          /\ SaveSnapshot(TRUE, FALSE)
          /\ UNCHANGED inbox
       \/ /\ SaveMerge
          /\ inbox' = inbox \ {s}
       \/ /\ op = "idle" /\ pull.state = "open" /\ pull.snap # s
          /\ inbox' = inbox \ {s}
          /\ UNCHANGED <<tables, lock>>
    /\ UNCHANGED <<github, closedInbox, queue, jobs, edits, faults>>

\* The relay's closed_event, whose head must still be the head of the pull.
ClosedEvent(h) ==
    /\ h \in closedInbox
    /\ closedInbox' = closedInbox \ {h}
    /\ \/ HeadSha[pull.snap] = h /\ SaveMerge
       \/ /\ op = "idle"
          /\ HeadSha[pull.snap] # h \/ pull.state = "open"
          /\ UNCHANGED <<tables, lock>>
    /\ UNCHANGED <<github, inbox, queue, jobs, edits, faults>>

\* The operator's sync, and sync --regenerate.
ManualSync(regenerate) ==
    /\ CountEdit
    /\ SaveSnapshot(FALSE, regenerate) \/ SaveMerge
    /\ UNCHANGED <<github, relay, queue, jobs, faults>>

\* The job of the relay's event is over once its sync returns.
FinishSync ==
    /\ NoLock
    /\ inbox' = IF opBound THEN inbox \ {opSnap} ELSE inbox

\* sync shows the snapshot as being prepared before the model is called.
Announce ==
    /\ op = "announce"
    /\ outbox' = Enqueue(outbox, Projection(opSnap, opBound))
    /\ op' = "generate"
    /\ UNCHANGED <<github, relay, tables, attempts, opSnap, opBound, delivery, jobs,
                   edits, faults>>

Generate(q) ==
    /\ op = "generate"
    /\ PullCurrent(opSnap)
    /\ stored' = [stored EXCEPT ![opSnap] = q]
    /\ current' = opSnap
    /\ op' = "project"
    /\ UNCHANGED <<github, relay, receipt, merge, queue, opSnap, opBound, delivery,
                   jobs, edits, faults>>

\* The model fails, and sync shows the error.
GenerateFails ==
    /\ op = "generate"
    /\ CountFault
    /\ outbox' = Enqueue(outbox, Projection(opSnap, opBound))
    /\ FinishSync
    /\ UNCHANGED <<github, closedInbox, tables, attempts, jobs, edits>>

\* The pull request got new commits, or was closed, while the model worked.
GenerateStale ==
    /\ op = "generate"
    /\ ~PullCurrent(opSnap)
    /\ FinishSync
    /\ UNCHANGED <<github, closedInbox, tables, queue, jobs, edits, faults>>

\* The last transaction of sync, and of a graded job.
Project ==
    /\ op = "project"
    /\ outbox' = Enqueue(outbox, Projection(opSnap, opBound))
    /\ FinishSync
    /\ UNCHANGED <<github, closedInbox, tables, attempts, jobs, edits, faults>>

\* The last transaction of sync on a closed pull request.
ProjectClosed ==
    /\ op = "close"
    /\ outbox' = Enqueue(outbox, ClosedProjection(opSnap))
    /\ NoLock
    /\ UNCHANGED <<github, relay, tables, attempts, jobs, edits, faults>>

-------------------------------------------------------------------------------
\* The author's answers.

ActiveJobs == {j \in Jobs : jobs[j].state \in {"queued", "running"}}

Submit(j) ==
    /\ op = "idle"
    /\ jobs[j].state = "none"
    /\ current \in Triggered
    /\ stored[current] \in QuestionSets
    /\ PullCurrent(current)
    /\ Cardinality(ActiveJobs) < MaxActiveJobs
    /\ jobs' = [jobs EXCEPT ![j] = [state |-> "queued", snap |-> current,
                                    qv |-> stored[current]]]
    /\ UNCHANGED <<github, relay, tables, queue, lock, edits, faults>>

\* The executor has one thread.
StartJob(j) ==
    /\ op = "idle"
    /\ jobs[j].state = "queued"
    /\ \A i \in Jobs : jobs[i].state # "running"
    /\ jobs' = [jobs EXCEPT ![j].state = "running"]
    /\ UNCHANGED <<github, relay, tables, queue, lock, edits, faults>>

\* An answer is held, the grader fails, or the pull request has changed: the
\* job leaves a message for the author's page, and no trace in the store.
EndJob(j) ==
    /\ op = "idle"
    /\ jobs[j].state = "running"
    /\ jobs' = [jobs EXCEPT ![j] = NoJob]
    /\ UNCHANGED <<github, relay, tables, queue, lock, edits, faults>>

\* Mutant: the receipt is replaced when its answers are accepted again.
ReplaceReceipt(r) ==
    /\ receipt' = [receipt EXCEPT ![r] = "unverified"]
    /\ outbox' = Enqueue(outbox, {Dispatch(r)})

\* save_receipt: one receipt for a snapshot and its questions, and a
\* verification request for it, in one transaction.
SaveReceipt(r) ==
    /\ receipt' = [receipt EXCEPT ![r] = IF @ = "none" THEN "unverified" ELSE @]
    /\ outbox' = Enqueue(outbox, {Dispatch(r)})

\* Every answer was accepted.  The job graded the questions it was submitted
\* with; the receipt is kept even when they are no longer the current ones.
PassJob(j) ==
    LET r == ReceiptOf(jobs[j])
    IN /\ op = "idle"
       /\ jobs[j].state = "running"
       /\ PullCurrent(r.snap)
       /\ SaveReceipt(r)
       /\ \/ /\ ReceiptCurrent(r)
             /\ op' = "project"
             /\ opSnap' = r.snap
             /\ jobs' = [jobs EXCEPT ![j].state = IF receipt[r] = "verified"
                                                  THEN "verified"
                                                  ELSE "awaiting_verification"]
          \/ /\ ~ReceiptCurrent(r)
             /\ jobs' = [jobs EXCEPT ![j] = NoJob]
             /\ UNCHANGED <<op, opSnap>>
       /\ UNCHANGED <<github, relay, stored, current, merge, attempts, opBound, delivery,
                      edits, faults>>

\* A job is forgotten when its time is over, whatever its state.
ExpireJob(j) ==
    /\ op = "idle"
    /\ jobs[j].state # "none"
    /\ jobs' = [jobs EXCEPT ![j] = NoJob]
    /\ UNCHANGED <<github, relay, tables, queue, lock, edits, faults>>

-------------------------------------------------------------------------------
\* Verification, asked for by the workflow run of a receipt; a run that lost the
\* answer asks again.

\* _mark_jobs_verified
JobsVerified(r) ==
    [j \in Jobs |-> IF jobs[j].state = "awaiting_verification" /\ ReceiptOf(jobs[j]) = r
                    THEN [jobs[j] EXCEPT !.state = "verified"] ELSE jobs[j]]

\* mark_receipt_verified, one transaction with the events of the success.
MarkReceiptVerified(r) ==
    /\ receipt' = [receipt EXCEPT ![r] = "verified"]
    /\ outbox' = Enqueue(outbox, {SuccessStatus(r)})

\* verify, up to the first read of the pull request: the receipt answers the
\* current questions, and the pull request is open at its commits.
VerifyReceipt(r) ==
    /\ op = "idle"
    /\ receipt[r] # "none"
    /\ ReceiptCurrent(r)
    /\ PullCurrent(r.snap)
    /\ op' = "check"
    /\ event' = SuccessStatus(r)
    /\ UNCHANGED <<github, relay, tables, queue, opSnap, opBound, batch, moved, jobs,
                   edits, faults>>

\* Mutant: the second read is not compared.
CheckNothing ==
    /\ op = "check"
    /\ op' = "mark"
    /\ UNCHANGED <<github, relay, tables, queue, opSnap, opBound, delivery, jobs,
                   edits, faults>>

\* The second read: the content is that of the receipt.
CheckContent ==
    /\ op = "check"
    /\ BindingCurrent(event.snap)
    /\ op' = "mark"
    /\ UNCHANGED <<github, relay, tables, queue, opSnap, opBound, delivery, jobs,
                   edits, faults>>

\* It is not, or GitHub fails; the run that asked may end with it.
VerifyRefused ==
    /\ op = "check"
    /\ \/ ~BindingCurrent(event.snap) /\ UNCHANGED faults
       \/ CountFault
    /\ NoLock
    /\ runs' \in {runs, runs \ {ReceiptOf(event)}}
    /\ UNCHANGED <<pull, latest, relay, tables, queue, jobs, edits>>

\* The receipt is marked, whatever the pull request shows by now.
MarkVerified ==
    /\ op = "mark"
    /\ MarkReceiptVerified(ReceiptOf(event))
    /\ jobs' = JobsVerified(ReceiptOf(event))
    /\ NoLock
    /\ UNCHANGED <<github, relay, stored, current, merge, attempts, edits, faults>>

Verify(r) == r \in runs /\ VerifyReceipt(r)

\* A run that is refused, fails, or never reaches the server.
RunEnds(r) ==
    /\ r \in runs
    /\ runs' = runs \ {r}
    /\ UNCHANGED <<pull, latest, relay, tables, queue, lock, jobs, edits, faults>>

\* The operator reruns the workflow of a receipt by hand.
Rerun(r) ==
    /\ CountEdit
    /\ receipt[r] # "none"
    /\ runs' = runs \cup {r}
    /\ UNCHANGED <<pull, latest, relay, tables, queue, lock, jobs, faults>>

-------------------------------------------------------------------------------
\* flush_publications.

\* Which of the requests were sent over five minutes ago is up to the clock.
Requests == {e \in Event : outbox[e] = "sent" /\ e.kind = "verifier_dispatch"}

\* The author's page asks for its receipt's publication, which requeues.
PublicationStatus(overdue) ==
    /\ op = "idle"
    /\ outbox' = RequeueDispatches(outbox, overdue)
    /\ outbox' # outbox
    /\ UNCHANGED <<github, relay, tables, attempts, lock, jobs, edits, faults>>

FlushStart(overdue) ==
    /\ op = "idle"
    /\ outbox' = RequeueDispatches(outbox, overdue)
    /\ batch' = {e \in Event : outbox'[e] = "pending"}
    /\ batch' # {}
    /\ op' = "flush"
    /\ UNCHANGED <<github, relay, tables, attempts, opSnap, opBound, event, moved, jobs,
                   edits, faults>>

\* _deliver_event, the checks against the store that come before any call.
StoreAllows(e) ==
    /\ current = e.snap
    /\ e.kind = "verifier_dispatch" =>
          /\ receipt[ReceiptOf(e)] = "unverified"
          /\ attempts[ReceiptOf(e)] < MaxDispatch
          /\ ReceiptCurrent(ReceiptOf(e))
    /\ e.kind = "success_status" =>
          /\ receipt[ReceiptOf(e)] = "verified"
          /\ ReceiptCurrent(ReceiptOf(e))

\* A success may also be shown on the head of a pull request closed since.
ClosedAtHead(e) ==
    /\ e.kind = "success_status"
    /\ pull.state # "open"
    /\ HeadSha[pull.snap] = HeadSha[e.snap]

\* Mutant: a pending status is posted although its snapshot is verified by now.
NotNeutralised(e) == e.kind = "neutral_status" => e.snap \notin Triggered

\* A snapshot that is verified by now needs no pending or neutral status.
NotSuperseded(e) ==
    /\ e.kind \in {"pending_status", "neutral_status"} => ~VerifiedNow(current)
    /\ e.kind = "neutral_status" => e.snap \notin Triggered

\* Mutant: the commits are taken for the content.
AgreesAtCommits(e) == PullCurrent(e.snap) /\ NotSuperseded(e)

\* The checks that follow the second read of the pull request, of its content.
Agrees(e) == BindingCurrent(e.snap) /\ NotSuperseded(e)

\* set_status, or dispatch_verification.
Publish(e) ==
    \/ /\ e.kind = "verifier_dispatch"
       /\ runs' = runs \cup {ReceiptOf(e)}
       /\ UNCHANGED latest
    \/ /\ e.kind # "verifier_dispatch"
       /\ latest' = [latest EXCEPT ![HeadSha[e.snap]] = e]
       /\ UNCHANGED runs

CountAttempt(e) ==
    attempts' = [r \in Receipt |->
                    IF e = Dispatch(r) THEN attempts[r] + 1 ELSE attempts[r]]

\* e is the event being delivered, or the next one of the batch.
InHand(e) ==
    /\ e \in batch
    /\ \/ op = "flush"
       \/ op \in {"compare", "post"} /\ event = e

\* Mutant: the lock is kept after the last event of the batch.
NextInBatchLocked(e) ==
    /\ InHand(e)
    /\ batch' = batch \ {e}
    /\ op' = "flush"
    /\ event' = None
    /\ moved' = FALSE
    /\ UNCHANGED <<opSnap, opBound>>

\* The flush goes on with the rest of its batch, and releases the lock after it.
NextInBatch(e) ==
    /\ InHand(e)
    /\ batch' = batch \ {e}
    /\ op' = IF batch = {e} THEN "idle" ELSE "flush"
    /\ event' = None
    /\ moved' = FALSE
    /\ UNCHANGED <<opSnap, opBound>>

\* mark_publication_sent
MarkSent(e) ==
    /\ outbox' = [outbox EXCEPT ![e] = "sent"]
    /\ CountAttempt(e)

\* Mutant: any event is given up after one failure.
MarkGivenUp(e) ==
    /\ outbox' = [outbox EXCEPT ![e] = "sent"]
    /\ CountAttempt(e)

\* mark_publication_retry, or mark_publication_terminal when a dispatch has
\* been tried MaxDispatch times.
MarkFailed(e) ==
    /\ outbox' = [outbox EXCEPT ![e] =
                    IF e.kind = "verifier_dispatch" /\ attempts[ReceiptOf(e)] + 1 >= MaxDispatch
                    THEN "sent" ELSE "retrying"]
    /\ CountAttempt(e)

\* _deliver_event, up to the first read of the pull request: open at the event's
\* commits, or closed at the head of its success.
Look(e) ==
    /\ op = "flush"
    /\ e \in batch
    /\ StoreAllows(e)
    /\ \/ PullCurrent(e.snap) /\ op' = "compare"
       \/ ClosedAtHead(e) /\ op' = "post"
    /\ event' = e
    /\ UNCHANGED <<github, relay, tables, queue, opSnap, opBound, batch, moved, jobs,
                   edits, faults>>

\* The second read, of the content; what is left is the call itself.
Agree ==
    /\ op = "compare"
    /\ Agrees(event)
    /\ op' = "post"
    /\ UNCHANGED <<github, relay, tables, queue, opSnap, opBound, delivery, jobs,
                   edits, faults>>

\* The event is out of date by the store or by either read: it is marked sent
\* without a call.
Skip(e) ==
    /\ NextInBatch(e)
    /\ \/ op = "flush" /\ ~(StoreAllows(e) /\ (PullCurrent(e.snap) \/ ClosedAtHead(e)))
       \/ op = "compare" /\ ~Agrees(e)
    /\ MarkSent(e)
    /\ UNCHANGED <<github, relay, tables, jobs, edits, faults>>

\* The call, whatever the pull request shows by now, and the mark.
Post ==
    /\ op = "post"
    /\ NextInBatch(event)
    /\ Publish(event)
    /\ MarkSent(event)
    /\ UNCHANGED <<pull, relay, tables, jobs, edits, faults>>

\* A GitHub call fails: a read, or the publication, before or after it took
\* effect.
DeliveryFails(e) ==
    /\ NextInBatch(e)
    /\ CountFault
    /\ StoreAllows(e)
    /\ \/ op = "post" /\ Publish(e)
       \/ UNCHANGED <<latest, runs>>
    /\ MarkFailed(e)
    /\ UNCHANGED <<pull, relay, tables, jobs, edits>>

\* The stored snapshot of the event cannot be restored: the event is made due
\* again, a dispatch at its last attempt too.
RestoreFails(e) ==
    /\ op = "flush"
    /\ NextInBatch(e)
    /\ CountFault
    /\ e.kind = "verifier_dispatch" => attempts[ReceiptOf(e)] < MaxDispatch
    /\ outbox' = [outbox EXCEPT ![e] = "retrying"]
    /\ CountAttempt(e)
    /\ UNCHANGED <<github, relay, tables, jobs, edits>>

\* An error that is no answer of GitHub ends the flush; the rest stays due.
FlushAborts ==
    /\ op \in {"flush", "compare", "post"}
    /\ CountFault
    /\ NoLock
    /\ UNCHANGED <<github, relay, tables, queue, jobs, edits>>

-------------------------------------------------------------------------------
\* Time and crashes.

\* The delay before a retry goes by.
Elapse(e) ==
    /\ outbox[e] = "retrying"
    /\ outbox' = [outbox EXCEPT ![e] = "pending"]
    /\ UNCHANGED <<github, relay, tables, attempts, lock, jobs, edits, faults>>

\* The process dies and restarts: the lock and the jobs are gone.
Restart ==
    /\ CountFault
    /\ NoLock
    /\ jobs' = [j \in Jobs |-> NoJob]
    /\ UNCHANGED <<relay, tables, queue, edits>>

Crash == Restart /\ UNCHANGED github

\* The process dies between a publication and the mark that it was sent.
CrashAfterPublish ==
    /\ op = "post"
    /\ Publish(event)
    /\ Restart
    /\ UNCHANGED pull

-------------------------------------------------------------------------------
Author == \/ \E s \in Snapshots : Edit(s)
          \/ \E j \in Jobs : Submit(j)
          \/ Reopen
          \/ \E state \in {"closed", "merged"} : Close(state)
Operator == \/ \E regenerate \in BOOLEAN : ManualSync(regenerate)
            \/ \E r \in Receipt : Rerun(r)
Mark == CheckContent \/ VerifyRefused \/ MarkVerified
Relay == \/ \E s \in Snapshots : SyncEvent(s)
         \/ \E h \in Heads : ClosedEvent(h)
         \/ \E r \in Receipt : Verify(r) \/ RunEnds(r)
         \/ Mark
Sync == \/ Announce
        \/ \E q \in QuestionSets : Generate(q)
        \/ GenerateFails
        \/ GenerateStale
        \/ Project
        \/ ProjectClosed
Grade == \E j \in Jobs : StartJob(j) \/ EndJob(j) \/ PassJob(j) \/ ExpireJob(j)
Deliver == \/ \E e \in Event : Look(e) \/ Skip(e)
           \/ Agree
           \/ Post
Flush == \/ \E overdue \in SUBSET Requests : PublicationStatus(overdue) \/ FlushStart(overdue)
         \/ Deliver
         \/ \E e \in Event : DeliveryFails(e) \/ RestoreFails(e)
         \/ FlushAborts
Environment == \/ LoseEvent
               \/ \E e \in Event : Elapse(e)
               \/ Crash
               \/ CrashAfterPublish

Next == Author \/ Operator \/ Relay \/ Sync \/ Grade \/ Flush \/ Environment

Spec == Init /\ [][Next]_vars

\* The worker ticks and so flushes again and again, also after the five minutes
\* of each request; the executor takes its jobs in order; a holder of the lock
\* goes on; GitHub, the model and the relay's runs answer in the end.  What the
\* worker and the executor wait for, the lock, others may take in between: hence
\* strong fairness.  People, losses and crashes are not scheduled by anything.
Fairness ==
    /\ WF_vars(Sync \/ Deliver \/ Mark)
    /\ SF_vars(\E s \in Snapshots : SyncEvent(s))
    /\ \A j \in Jobs : SF_vars(StartJob(j) \/ EndJob(j))
    /\ WF_vars(\E e \in Event : Elapse(e))
    /\ SF_vars(FlushStart({}))
    /\ \A r \in Receipt : SF_vars(Dispatch(r) \in Requests /\ FlushStart({Dispatch(r)}))

FairSpec == Spec /\ Fairness

-------------------------------------------------------------------------------
(***************************************************************************)
(* What the gate promises.                                                 *)
(***************************************************************************)

\* A success shown on a head is that of a snapshot of that head which is either
\* verified or below the threshold: no crash, late delivery or repeated call of
\* set_status, mark_receipt_verified or save_receipt leaves any other.
SuccessJustified ==
    \A h \in Heads : latest[h] # None =>
        /\ HeadSha[latest[h].snap] = h
        /\ latest[h].kind = "success_status" => receipt[ReceiptOf(latest[h])] = "verified"
        /\ latest[h].kind = "neutral_status" => latest[h].snap \notin Triggered

\* The questions a verified receipt answers are still the stored ones, however
\* regenerations, failed generations and jobs that graded older questions fall.
VerifiedQuestionsKept ==
    \A r \in Receipt : receipt[r] = "verified" => stored[r.snap] = r.qv

\* Nothing a crash may hit loses a step of the hand-over: every receipt has its
\* verification request in the outbox, every verified receipt its success.
HandoverQueued ==
    \A r \in Receipt :
        /\ receipt[r] # "none" => outbox[Dispatch(r)] # "absent"
        /\ receipt[r] = "verified" => outbox[SuccessStatus(r)] # "absent"

\* Over requeues, retries and failures of every kind a dispatch is counted once
\* more than its limit at most, and then never comes back: a snapshot that cannot
\* be restored makes one due again at its limit, which the next flush gives up.
DispatchBudget ==
    \A r \in Receipt :
        /\ attempts[r] <= MaxDispatch + 1
        /\ outbox[Dispatch(r)] \in {"pending", "retrying"} => attempts[r] <= MaxDispatch

\* The page an author polls follows the receipt: awaiting verification exactly
\* until the receipt is verified, even by a run of another job's dispatch.
JobsFollowReceipts ==
    \A j \in Jobs :
        /\ jobs[j].state = "awaiting_verification" => receipt[ReceiptOf(jobs[j])] = "unverified"
        /\ jobs[j].state = "verified" => receipt[ReceiptOf(jobs[j])] = "verified"

\* The event of what the pull request shows waits for its sync, or was lost.
Announced == \/ MayLose
             \/ pull.state = "open" /\ pull.snap \in inbox
             \/ pull.state # "open" /\ HeadSha[pull.snap] \in closedInbox

\* A status is posted while the pull request shows the event's snapshot, or, for
\* a verified receipt, is closed at its head.  When it changed between the reads
\* and the post, the sync that will put the status right is already waiting.
PostsMatchPull ==
    [][\A h \in Heads : latest'[h] # latest[h] =>
          LET e == latest'[h] IN
          \/ pull = [snap |-> e.snap, state |-> "open"]
          \/ e.kind = "success_status" /\ pull.state # "open" /\ HeadSha[pull.snap] = h
          \/ moved /\ Announced
      ]_vars

\* A retried or late pending status never takes back the success of a snapshot
\* whose verification the store holds.
NoDowngrade ==
    [][\A h \in Heads : /\ latest[h] # None
                        /\ latest[h].kind = "success_status"
                        /\ latest'[h] # latest[h]
                     => latest'[h].snap # latest[h].snap]_vars

\* A receipt is verified only against the questions stored now and a pull request
\* that shows its snapshot, whatever happened while the workflow ran.  When it
\* changed between the last read and the mark, its sync is already waiting.
VerifiedWhenShown ==
    [][\A r \in Receipt :
          receipt[r] # "verified" /\ receipt'[r] = "verified"
          => /\ current = r.snap
             /\ stored[r.snap] = r.qv
             /\ \/ pull = [snap |-> r.snap, state |-> "open"]
                \/ moved /\ Announced]_vars

\* A measured merge keeps the snapshot it was measured by, through closed events
\* and syncs that come again.
MeasureKept == [][(merge \in Snapshots) => merge' = merge]_vars

\* Nothing is on its way between the store, the outbox, the relay and GitHub.
Settled ==
    /\ op = "idle"
    /\ inbox = {}
    /\ \A e \in StatusEvent : outbox[e] \notin {"pending", "retrying"}
    /\ pull.state = "open"
    /\ current = pull.snap

\* Once settled, a head whose change still waits for its author shows pending:
\* the success of another snapshot of the same head does not stay.  (Sync queues
\* a pending status for every triggered snapshot.)
SettledHeld ==
    Settled /\ current \in Triggered /\ ~VerifiedNow(current)
    => latest[HeadSha[current]] = PendingStatus(current)

\* Once settled, no success shows on a head whose change still waits for its
\* author, whatever labels and titles came and went before.
SettledNotOpen ==
    Settled /\ current \in Triggered /\ ~VerifiedNow(current)
    => \/ latest[HeadSha[current]] = None
       \/ latest[HeadSha[current]].kind = "pending_status"

\* Once settled, a head whose change is verified shows that success.
SettledOpen ==
    Settled /\ current \in Triggered /\ VerifiedNow(current)
    => latest[HeadSha[current]] = SuccessStatus([snap |-> current, qv |-> stored[current]])

\* The questions an answered receipt points to are never regenerated away.
ReceiptQuestionsKept ==
    \A r \in Receipt : receipt[r] # "none" => stored[r.snap] = r.qv

\* An accepted receipt comes to an end: it is verified, or its dispatch has been
\* tried as often as it may.
DispatchSettles ==
    \A r \in Receipt :
        receipt[r] = "unverified" ~> receipt[r] = "verified" \/ attempts[r] >= MaxDispatch

\* Every status event is sent or skipped in the end, whatever fails on the way.
OutboxDrains ==
    \A e \in StatusEvent : outbox[e] \in {"pending", "retrying"} ~> outbox[e] = "sent"

\* Every answer gets a result: no job stays queued or running for ever.
JobsFinish ==
    \A j \in Jobs : jobs[j].state \in {"queued", "running"}
                    ~> jobs[j].state \notin {"queued", "running"}

-------------------------------------------------------------------------------
\* The gate as those who look at the pull request's commits see it.
Explained == {s \in Snapshots : \E q \in QuestionSets :
                  receipt[[snap |-> s, qv |-> q]] = "verified"}

Shown == [h \in Heads |->
             IF latest[h] = None THEN [shows |-> "nothing"]
             ELSE [shows |-> IF latest[h].kind = "pending_status" THEN "pending" ELSE "success",
                   of |-> latest[h].snap]]

Gate == INSTANCE ReviewGate WITH explained <- Explained, gate <- Shown

\* The service with its crashes, retries and stale events implements the gate.
ImplementsGate == Gate!Spec
===============================================================================
