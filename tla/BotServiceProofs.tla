--------------------------- MODULE BotServiceProofs ---------------------------
(***************************************************************************)
(* Proofs about BotService, for any snapshots, questions and bounds.       *)
(***************************************************************************)
EXTENDS BotService, TLAPS

\* A step of the service, or a verification that none of the runs it knows of has
\* asked for; the lemmas hold of both, so that Verification can use them too.
AnyStep == [Next]_vars \/ \E r \in Receipt : VerifyReceipt(r)

\* _queue_publication_connection keeps the types of the outbox.
LEMMA EnqueueType ==
    ASSUME NEW box \in [Event -> OutboxStatus], NEW es
    PROVE  Enqueue(box, es) \in [Event -> OutboxStatus]
BY DEF Enqueue, OutboxStatus

\* requeue_unverified_dispatches keeps the types of the outbox.
LEMMA RequeueType ==
    ASSUME NEW box \in [Event -> OutboxStatus], NEW overdue
    PROVE  RequeueDispatches(box, overdue) \in [Event -> OutboxStatus]
BY DEF RequeueDispatches, OutboxStatus

\* set_status and dispatch_verification keep the types of GitHub's side.
LEMMA PublishType ==
    ASSUME TypeOK, NEW e \in Event, Publish(e)
    PROVE  latest' \in [Heads -> StatusEvent \cup {None}] /\ runs' \subseteq Receipt
<1>1. CASE e.kind = "verifier_dispatch"
  <2>1. ReceiptOf(e) \in Receipt
    BY <1>1 DEF Event, SnapshotEvent, ReceiptEvent, ReceiptOf, Receipt
  <2> QED BY <1>1, <2>1 DEF TypeOK, Publish
<1>2. CASE e.kind # "verifier_dispatch"
  <2>1. e \in StatusEvent
    BY <1>2 DEF StatusEvent
  <2> QED BY <1>2, <2>1 DEF TypeOK, Publish
<1> QED BY <1>1, <1>2

\* An empty store has the types declared for it.
LEMMA TypeInit == Init => TypeOK
<1> SUFFICES ASSUME Init PROVE TypeOK
  OBVIOUS
<1>1. /\ pull \in [snap : Snapshots, state : {"open", "closed", "merged"}]
      /\ inbox \subseteq Snapshots
  BY DEF Init
<1>2. /\ latest \in [Heads -> StatusEvent \cup {None}]
      /\ outbox \in [Event -> OutboxStatus]
      /\ jobs \in [Jobs -> {NoJob} \cup MemoryJob]
  BY DEF Init, OutboxStatus
<1>3. /\ stored \in [Snapshots -> QuestionSets \cup {NoQuestions, None}]
      /\ receipt \in [Receipt -> {"none", "unverified", "verified"}]
      /\ attempts \in [Receipt -> Nat]
  BY DEF Init
<1> QED BY <1>1, <1>2, <1>3 DEF Init, TypeOK, Reading

\* Every operation of the service, and every crash, keeps the types.
LEMMA TypeNext == TypeOK /\ AnyStep => TypeOK'
<1> SUFFICES ASSUME TypeOK, AnyStep PROVE TypeOK'
  OBVIOUS
<1> USE DEF github, relay, tables, queue, delivery, lock, CountEdit, CountFault
<1>1. ASSUME NEW s \in Snapshots, Edit(s) PROVE TypeOK'
  BY <1>1 DEF TypeOK, Edit, Move
<1>2. ASSUME NEW state \in {"closed", "merged"}, Close(state) PROVE TypeOK'
  BY <1>2, ConstantsAssumption DEF TypeOK, Close, Move
<1>3. CASE Reopen
  BY <1>3 DEF TypeOK, Reopen, Move
<1>4. CASE LoseEvent
  BY <1>4 DEF TypeOK, LoseEvent
<1>5. ASSUME NEW bound \in BOOLEAN, NEW regenerate \in BOOLEAN, SaveSnapshot(bound, regenerate)
      PROVE  /\ stored' \in [Snapshots -> QuestionSets \cup {NoQuestions, None}]
             /\ current' \in Snapshots
             /\ UNCHANGED <<receipt, merge>>
             /\ op' \in {"project", "announce"} /\ opSnap' \in Snapshots
             /\ opBound' \in BOOLEAN /\ UNCHANGED delivery
  BY <1>5 DEF TypeOK, SaveSnapshot
<1>6. ASSUME SaveMerge
      PROVE  /\ merge' \in Snapshots \cup {None, Unmeasured}
             /\ UNCHANGED <<stored, current, receipt, opBound, delivery>>
             /\ op' = "close" /\ opSnap' \in Snapshots
  BY <1>6 DEF TypeOK, SaveMerge
<1>7. ASSUME NEW s \in Snapshots, SyncEvent(s) PROVE TypeOK'
  <2>1. CASE SaveSnapshot(TRUE, FALSE)
    BY <1>5, <1>7, <2>1 DEF TypeOK, Reading, SyncEvent
  <2>2. CASE SaveMerge
    BY <1>6, <1>7, <2>2 DEF TypeOK, Reading, SyncEvent
  <2>3. CASE UNCHANGED <<tables, lock>>
    <3>1. inbox' \subseteq Snapshots /\ UNCHANGED <<github, closedInbox, queue, jobs, edits, faults>>
      BY <1>7 DEF TypeOK, SyncEvent
    <3> QED BY <2>3, <3>1 DEF TypeOK
  <2> QED BY <1>7, <2>1, <2>2, <2>3 DEF SyncEvent
<1>8. ASSUME NEW h \in Heads, ClosedEvent(h) PROVE TypeOK'
  <2>1. CASE SaveMerge
    BY <1>6, <1>8, <2>1 DEF TypeOK, Reading, ClosedEvent
  <2>2. CASE UNCHANGED <<tables, lock>>
    BY <1>8, <2>2 DEF TypeOK, Reading, ClosedEvent
  <2> QED BY <1>8, <2>1, <2>2 DEF ClosedEvent
<1>9. ASSUME NEW regenerate \in BOOLEAN, ManualSync(regenerate) PROVE TypeOK'
  <2>1. CASE SaveSnapshot(FALSE, regenerate)
    <3>1. /\ stored' \in [Snapshots -> QuestionSets \cup {NoQuestions, None}]
          /\ current' \in Snapshots /\ opSnap' \in Snapshots
          /\ op' \in {"project", "announce"}
          /\ UNCHANGED <<receipt, merge, delivery>>
      BY <1>5, <2>1
    <3>2. opBound' \in BOOLEAN
      BY <1>5, <2>1
    <3> QED BY <1>9, <3>1, <3>2 DEF TypeOK, Reading, ManualSync
  <2>2. CASE SaveMerge
    BY <1>6, <1>9, <2>2 DEF TypeOK, Reading, ManualSync
  <2> QED BY <1>9, <2>1, <2>2 DEF ManualSync
<1>10. NoLock => /\ op' = "idle" /\ opSnap' \in Snapshots \cup {None} /\ op' \notin Reading
                 /\ opBound' \in BOOLEAN /\ batch' \subseteq Event
                 /\ event' \in Event \cup {None} /\ moved' \in BOOLEAN
  BY DEF NoLock, Reading
<1>11. CASE Announce
  BY <1>11, EnqueueType DEF TypeOK, Reading, Announce
<1>12. ASSUME NEW q \in QuestionSets, Generate(q) PROVE TypeOK'
  BY <1>12 DEF TypeOK, Reading, Generate
<1>13. CASE GenerateFails
  BY <1>10, <1>13, EnqueueType DEF TypeOK, GenerateFails, FinishSync
<1>14. CASE GenerateStale
  BY <1>10, <1>14 DEF TypeOK, GenerateStale, FinishSync
<1>15. CASE Project
  BY <1>10, <1>15, EnqueueType DEF TypeOK, Project, FinishSync
<1>16. CASE ProjectClosed
  BY <1>10, <1>16, EnqueueType DEF TypeOK, ProjectClosed
<1>17. ASSUME NEW j \in Jobs, Submit(j) PROVE TypeOK'
  BY <1>17, ConstantsAssumption DEF TypeOK, Submit, MemoryJob
<1>18. ASSUME NEW j \in Jobs, StartJob(j) PROVE TypeOK'
  BY <1>18 DEF TypeOK, StartJob, MemoryJob, NoJob
<1>19. ASSUME NEW j \in Jobs, EndJob(j) PROVE TypeOK'
  BY <1>19 DEF TypeOK, EndJob
<1>20. ASSUME NEW j \in Jobs, PassJob(j) PROVE TypeOK'
  <2> DEFINE r == ReceiptOf(jobs[j])
  <2>1. jobs[j] \in MemoryJob
    BY <1>20 DEF TypeOK, PassJob, NoJob
  <2>2. r \in Receipt /\ r.snap \in Snapshots
    BY <2>1 DEF MemoryJob, ReceiptOf, Receipt
  <2>3. /\ receipt' \in [Receipt -> {"none", "unverified", "verified"}]
        /\ outbox' \in [Event -> OutboxStatus]
    BY <1>20, <2>2, EnqueueType DEF TypeOK, PassJob, SaveReceipt
  <2>4. jobs' \in [Jobs -> {NoJob} \cup MemoryJob]
    BY <1>20, <2>1 DEF TypeOK, PassJob, MemoryJob
  <2>5. op' \in {"idle", "project"} /\ opSnap' \in Snapshots \cup {None}
        /\ (op' = "project" => opSnap' \in Snapshots)
    BY <1>20, <2>2 DEF TypeOK, PassJob
  <2> QED BY <1>20, <2>3, <2>4, <2>5 DEF TypeOK, Reading, PassJob
<1>21. ASSUME NEW j \in Jobs, ExpireJob(j) PROVE TypeOK'
  BY <1>21 DEF TypeOK, ExpireJob
<1>22. ASSUME NEW r \in Receipt, VerifyReceipt(r) PROVE TypeOK'
  <2>1. SuccessStatus(r) \in Event
    BY DEF SuccessStatus, Event, ReceiptEvent, Receipt
  <2> QED BY <1>22, <2>1 DEF TypeOK, Reading, VerifyReceipt
<1>35. CASE CheckContent
  BY <1>35 DEF TypeOK, Reading, CheckContent
<1>36. CASE VerifyRefused
  BY <1>10, <1>36 DEF TypeOK, VerifyRefused
<1>37. CASE MarkVerified
  <2>1. receipt' \in [Receipt -> {"none", "unverified", "verified"}]
    BY <1>37 DEF TypeOK, MarkVerified, MarkReceiptVerified
  <2>2. outbox' \in [Event -> OutboxStatus]
    BY <1>37, EnqueueType DEF TypeOK, MarkVerified, MarkReceiptVerified
  <2>3. jobs' \in [Jobs -> {NoJob} \cup MemoryJob]
    BY <1>37 DEF TypeOK, MarkVerified, JobsVerified, MemoryJob, NoJob
  <2> QED BY <1>10, <1>37, <2>1, <2>2, <2>3 DEF TypeOK, MarkVerified
<1>23. ASSUME NEW r \in Receipt, RunEnds(r) PROVE TypeOK'
  BY <1>23 DEF TypeOK, RunEnds
<1>24. ASSUME NEW r \in Receipt, Rerun(r) PROVE TypeOK'
  BY <1>24 DEF TypeOK, Rerun
<1>25. ASSUME NEW overdue \in SUBSET Requests, PublicationStatus(overdue) PROVE TypeOK'
  BY <1>25, RequeueType DEF TypeOK, PublicationStatus
<1>26. ASSUME NEW overdue \in SUBSET Requests, FlushStart(overdue) PROVE TypeOK'
  BY <1>26, RequeueType DEF TypeOK, Reading, FlushStart
<1>27. ASSUME NEW e \in Event, CountAttempt(e) PROVE attempts' \in [Receipt -> Nat]
  BY <1>27 DEF TypeOK, CountAttempt
<1>28. ASSUME NEW e \in Event, NextInBatch(e)
       PROVE  /\ op' \in {"idle", "flush"} /\ op' \notin Reading
              /\ UNCHANGED <<opSnap, opBound>> /\ batch' \subseteq Event
              /\ event' = None /\ moved' = FALSE
  BY <1>28 DEF NextInBatch, TypeOK, Reading
<1>38. ASSUME NEW e \in Event, Look(e) PROVE TypeOK'
  BY <1>38 DEF TypeOK, Reading, Look
<1>39. CASE Agree
  BY <1>39 DEF TypeOK, Reading, Agree
<1>40. ASSUME NEW e \in Event, Skip(e) PROVE TypeOK'
  <2>1. outbox' \in [Event -> OutboxStatus] /\ attempts' \in [Receipt -> Nat]
    BY <1>27, <1>40 DEF Skip, MarkSent, TypeOK, OutboxStatus
  <2> QED BY <1>28, <1>40, <2>1 DEF TypeOK, Skip
<1>41. CASE Post
  <2>1. event \in Event
    BY <1>41 DEF Post, TypeOK, Reading
  <2>2. latest' \in [Heads -> StatusEvent \cup {None}] /\ runs' \subseteq Receipt
    BY <1>41, <2>1, PublishType DEF Post
  <2>3. outbox' \in [Event -> OutboxStatus] /\ attempts' \in [Receipt -> Nat]
    BY <1>27, <1>41, <2>1 DEF Post, MarkSent, TypeOK, OutboxStatus
  <2>4. NextInBatch(event)
    BY <1>41 DEF Post
  <2>5. /\ op' \in {"idle", "flush"} /\ op' \notin Reading
        /\ UNCHANGED <<opSnap, opBound>> /\ batch' \subseteq Event
        /\ event' = None /\ moved' = FALSE
    BY <1>28, <2>1, <2>4
  <2> QED BY <1>41, <2>2, <2>3, <2>5 DEF TypeOK, Post
<1>29. ASSUME NEW e \in Event, DeliveryFails(e) PROVE TypeOK'
  <2>1. latest' \in [Heads -> StatusEvent \cup {None}] /\ runs' \subseteq Receipt
    BY <1>29, PublishType DEF DeliveryFails, TypeOK
  <2>2. outbox' \in [Event -> OutboxStatus] /\ attempts' \in [Receipt -> Nat]
    BY <1>27, <1>29 DEF DeliveryFails, MarkFailed, TypeOK, OutboxStatus
  <2>3. /\ op' \in {"idle", "flush"} /\ op' \notin Reading
        /\ UNCHANGED <<opSnap, opBound>> /\ batch' \subseteq Event
        /\ event' = None /\ moved' = FALSE
    BY <1>28, <1>29 DEF DeliveryFails
  <2>4. UNCHANGED <<pull, relay, tables, jobs, edits>> /\ faults' \in Nat
    BY <1>29 DEF TypeOK, DeliveryFails
  <2> QED BY <2>1, <2>2, <2>3, <2>4 DEF TypeOK
<1>42. ASSUME NEW e \in Event, RestoreFails(e) PROVE TypeOK'
  <2>1. outbox' \in [Event -> OutboxStatus] /\ attempts' \in [Receipt -> Nat]
    BY <1>27, <1>42 DEF RestoreFails, TypeOK, OutboxStatus
  <2>2. /\ op' \in {"idle", "flush"} /\ op' \notin Reading
        /\ UNCHANGED <<opSnap, opBound>> /\ batch' \subseteq Event
        /\ event' = None /\ moved' = FALSE
    BY <1>28, <1>42 DEF RestoreFails
  <2>3. UNCHANGED <<github, relay, tables, jobs, edits>> /\ faults' \in Nat
    BY <1>42 DEF TypeOK, RestoreFails
  <2> QED BY <2>1, <2>2, <2>3 DEF TypeOK
<1>30. CASE FlushAborts
  BY <1>10, <1>30 DEF TypeOK, FlushAborts
<1>31. ASSUME NEW e \in Event, Elapse(e) PROVE TypeOK'
  BY <1>31 DEF TypeOK, Elapse, OutboxStatus
<1>32. CASE Crash
  BY <1>10, <1>32 DEF TypeOK, Crash, Restart
<1>33. CASE CrashAfterPublish
  <2>1. event \in Event
    BY <1>33 DEF CrashAfterPublish, TypeOK, Reading
  <2> QED BY <1>10, <1>33, <2>1, PublishType DEF TypeOK, CrashAfterPublish, Restart
<1>34. CASE UNCHANGED vars
  BY <1>34 DEF TypeOK, vars
<1> QED
  BY <1>1, <1>2, <1>3, <1>4, <1>7, <1>8, <1>9, <1>11, <1>12, <1>13, <1>14, <1>15, <1>16,
     <1>17, <1>18, <1>19, <1>20, <1>21, <1>22, <1>23, <1>24, <1>25, <1>26, <1>28, <1>29,
     <1>30, <1>31, <1>32, <1>33, <1>34, <1>35, <1>36, <1>37, <1>38, <1>39, <1>40, <1>41, <1>42
     DEF AnyStep, Verify, Next, Author, Operator, Relay, Mark, Sync, Grade, Flush, Deliver,
         Environment

\* The types of every variable hold at all times.
THEOREM TypeCorrect == Spec => []TypeOK
<1>1. TypeOK /\ [Next]_vars => TypeOK'
  BY TypeNext DEF AnyStep
<1> QED BY <1>1, TypeInit, PTL DEF Spec

-------------------------------------------------------------------------------
(***************************************************************************)
(* What a step may do to the tables, to the statuses and to the outbox.    *)
(***************************************************************************)

TableStep ==
    \/ \E bound, regenerate \in BOOLEAN : SaveSnapshot(bound, regenerate)
    \/ \E q \in QuestionSets : Generate(q)
    \/ \E j \in Jobs : PassJob(j)
    \/ MarkVerified
    \/ /\ UNCHANGED <<stored, current, receipt>>
       /\ op' \in {"announce", "generate"} => op \in {"announce", "generate"} /\ opSnap' = opSnap
       /\ op' = "project" => op = "project" /\ opSnap' = opSnap

\* What any step may do to the tables of snapshots, receipts and merges.
LEMMA TableSteps == AnyStep => TableStep
<1> SUFFICES ASSUME AnyStep PROVE TableStep
  OBVIOUS
<1> USE DEF github, relay, tables, queue, delivery, lock, TableStep
<1>1. CASE Author
  BY <1>1 DEF Author, Edit, Submit, Reopen, Close, Move
<1>2. CASE Operator
  BY <1>2 DEF Operator, ManualSync, SaveMerge, Rerun
<1>9. CASE \E r \in Receipt : VerifyReceipt(r)
  BY <1>9 DEF VerifyReceipt
<1>3. CASE Relay
  BY <1>3, <1>9 DEF Relay, SyncEvent, ClosedEvent, SaveMerge, Verify, RunEnds, Mark,
                    CheckContent, VerifyRefused, NoLock
<1>4. CASE Sync
  BY <1>4 DEF Sync, Announce, GenerateFails, GenerateStale, Project, ProjectClosed,
              FinishSync, NoLock
<1>5. CASE Grade
  BY <1>5 DEF Grade, StartJob, EndJob, ExpireJob
<1>6. CASE Flush
  BY <1>6 DEF Flush, PublicationStatus, FlushStart, Deliver, Look, Agree, Skip, Post,
              DeliveryFails, RestoreFails, NextInBatch, FlushAborts, NoLock
<1>7. CASE Environment
  BY <1>7 DEF Environment, LoseEvent, Elapse, CrashAfterPublish, Crash, Restart, NoLock
<1>8. CASE UNCHANGED vars
  BY <1>8 DEF vars
<1> QED BY <1>1, <1>2, <1>3, <1>4, <1>5, <1>6, <1>7, <1>8, <1>9 DEF AnyStep, Next

StatusStep == UNCHANGED latest \/ (op = "post" /\ Publish(event) /\ UNCHANGED <<pull, tables>>)

\* A status changes only by the call that ends a delivery.
LEMMA StatusSteps == AnyStep => StatusStep
<1> SUFFICES ASSUME AnyStep PROVE StatusStep
  OBVIOUS
<1> USE DEF github, StatusStep
<1>1. CASE Author
  BY <1>1 DEF Author, Edit, Submit, Reopen, Close
<1>2. CASE Operator
  BY <1>2 DEF Operator, ManualSync, Rerun
<1>3. CASE Relay
  BY <1>3 DEF Relay, SyncEvent, ClosedEvent, Verify, VerifyReceipt, RunEnds, Mark,
              CheckContent, VerifyRefused, MarkVerified
<1>4. CASE Sync
  BY <1>4 DEF Sync, Announce, Generate, GenerateFails, GenerateStale, Project, ProjectClosed
<1>5. CASE Grade
  BY <1>5 DEF Grade, StartJob, EndJob, PassJob, ExpireJob
<1>6. CASE Flush
  <2>1. ASSUME NEW e \in Event, DeliveryFails(e) PROVE StatusStep
    BY <2>1 DEF DeliveryFails, NextInBatch, InHand
  <2> QED
    BY <1>6, <2>1 DEF Flush, PublicationStatus, FlushStart, Deliver, Look, Agree, Skip, Post,
                      RestoreFails, FlushAborts
<1>7. CASE Environment
  BY <1>7 DEF Environment, LoseEvent, Elapse, CrashAfterPublish, Crash, Restart
<1>8. CASE UNCHANGED vars
  BY <1>8 DEF vars
<1>9. CASE \E r \in Receipt : VerifyReceipt(r)
  BY <1>9 DEF VerifyReceipt
<1> QED BY <1>1, <1>2, <1>3, <1>4, <1>5, <1>6, <1>7, <1>8, <1>9 DEF AnyStep, Next

-------------------------------------------------------------------------------
(***************************************************************************)
(* What the holder of the lock knows after its reads.  The store's answers *)
(* still hold, for nobody else writes to it; those of GitHub hold until     *)
(* the pull request moves, and then its new event waits for the lock.      *)
(***************************************************************************)
HandInv ==
    /\ op \in {"compare", "post"} => event \in batch /\ StoreAllows(event)
    /\ op = "post" => NotSuperseded(event)
    /\ op \in {"check", "mark"} =>
          /\ ReceiptOf(event) \in Receipt
          /\ event = SuccessStatus(ReceiptOf(event))
          /\ receipt[ReceiptOf(event)] # "none"
          /\ ReceiptCurrent(ReceiptOf(event))

FreshInv ==
    /\ op \in {"compare", "check"} => moved \/ PullCurrent(event.snap)
    /\ op = "mark" => moved \/ (pull.state = "open" /\ pull.snap = event.snap)
    /\ op = "post" => \/ moved
                      \/ pull.state = "open" /\ pull.snap = event.snap
                      \/ ClosedAtHead(event)
    /\ moved => op \in Reading /\ Announced

HandStep ==
    \/ op' \notin Reading /\ (moved' = FALSE \/ (op \notin Reading /\ moved' = moved))
    \/ /\ op \in Reading
       /\ UNCHANGED <<tables, attempts, lock, pull>>
       /\ MayLose \/ UNCHANGED relay
    \/ /\ op \in Reading
       /\ \/ \E s \in Snapshots : Edit(s)
          \/ \E state \in {"closed", "merged"} : Close(state)
          \/ Reopen
    \/ \E e \in Event : Look(e)
    \/ Agree
    \/ CheckContent
    \/ \E r \in Receipt : VerifyReceipt(r)

\* While the lock is held nobody but its holder writes to the store.
LEMMA HandSteps == TypeOK /\ AnyStep => HandStep
<1> SUFFICES ASSUME TypeOK, AnyStep PROVE HandStep
  OBVIOUS
<1> USE DEF github, relay, tables, queue, delivery, lock, HandStep
<1>1. CASE Author
  <2>1. ASSUME op \notin Reading, Move PROVE HandStep
    <3>1. moved' = (op \in Reading) /\ op' = op
      BY <2>1 DEF Move
    <3>2. (op \in Reading) = FALSE
      BY <2>1
    <3>3. moved' = FALSE
      BY <3>1, <3>2, Zenon
    <3> QED BY <2>1, <3>1, <3>3
  <2>2. ASSUME NEW j \in Jobs, Submit(j) PROVE HandStep
    BY <2>2 DEF Submit, Reading
  <2>3. ASSUME NEW s \in Snapshots, Edit(s) PROVE HandStep
    BY <2>1, <2>3 DEF Edit
  <2>4. ASSUME NEW state \in {"closed", "merged"}, Close(state) PROVE HandStep
    BY <2>1, <2>4 DEF Close
  <2>5. CASE Reopen
    BY <2>1, <2>5 DEF Reopen
  <2> QED BY <1>1, <2>2, <2>3, <2>4, <2>5 DEF Author
<1>2. ASSUME op = "idle", UNCHANGED lock PROVE HandStep
  BY <1>2 DEF Reading
<1>3. ASSUME op = "idle", UNCHANGED delivery, op' \in {"idle", "project", "announce", "close"}
      PROVE  HandStep
  BY <1>3 DEF Reading
<1>4. ASSUME NEW bound, NEW regenerate, SaveSnapshot(bound, regenerate) PROVE HandStep
  BY <1>3, <1>4 DEF SaveSnapshot
<1>5. SaveMerge => HandStep
  BY <1>3 DEF SaveMerge
<1>6. NoLock => HandStep
  BY DEF NoLock, Reading
<1>7. ASSUME UNCHANGED <<tables, attempts, lock, pull>>, MayLose \/ UNCHANGED relay PROVE HandStep
  BY <1>7
<1>8. CASE Operator
  BY <1>4, <1>5, <1>7, <1>8 DEF Operator, ManualSync, Rerun
<1>9. CASE Relay
  BY <1>2, <1>4, <1>5, <1>6, <1>7, <1>9
     DEF Relay, SyncEvent, ClosedEvent, Verify, RunEnds, Mark, VerifyRefused, MarkVerified
<1>10. CASE Sync
  <2>1. ASSUME UNCHANGED delivery, op \notin Reading, op' \in {"generate", "project"}
        PROVE  HandStep
    BY <2>1 DEF Reading
  <2>2. CASE Announce
    BY <2>1, <2>2 DEF Announce, Reading
  <2>3. ASSUME NEW q \in QuestionSets, Generate(q) PROVE HandStep
    BY <2>1, <2>3 DEF Generate, Reading
  <2> QED
    BY <1>6, <1>10, <2>2, <2>3
       DEF Sync, GenerateFails, GenerateStale, Project, ProjectClosed, FinishSync
<1>11. CASE Grade
  <2>1. ASSUME NEW j \in Jobs, PassJob(j) PROVE HandStep
    BY <1>3, <2>1 DEF PassJob
  <2> QED BY <1>2, <1>11, <2>1 DEF Grade, StartJob, EndJob, ExpireJob
<1>12. ASSUME NEW e, NextInBatch(e) PROVE HandStep
  BY <1>12 DEF NextInBatch, Reading
<1>13. CASE Flush
  <2>1. ASSUME NEW overdue, FlushStart(overdue) PROVE HandStep
    BY <2>1 DEF FlushStart, Reading
  <2> QED
    BY <1>2, <1>6, <1>12, <1>13, <2>1
       DEF Flush, PublicationStatus, Deliver, Skip, Post, DeliveryFails, RestoreFails, FlushAborts
<1>14. CASE Environment
  BY <1>6, <1>7, <1>14 DEF Environment, LoseEvent, Elapse, CrashAfterPublish, Crash, Restart
<1>15. CASE UNCHANGED vars
  BY <1>7, <1>15 DEF vars
<1> QED BY <1>1, <1>8, <1>9, <1>10, <1>11, <1>13, <1>14, <1>15 DEF AnyStep, Next

\* What the store has answered stays true until the holder acts on it.
LEMMA HandNext == TypeOK /\ HandInv /\ AnyStep => HandInv'
<1> SUFFICES ASSUME TypeOK, HandInv, HandStep PROVE HandInv'
  BY HandSteps
<1> USE DEF tables, delivery, lock
<1>1. CASE op' \notin Reading
  BY <1>1 DEF HandInv, Reading
<1>2. ASSUME op \in Reading, UNCHANGED <<tables, attempts, op, batch, event>> PROVE HandInv'
  BY <1>2 DEF HandInv, StoreAllows, NotSuperseded, VerifiedNow, ReceiptCurrent
<1>3. ASSUME NEW s \in Snapshots, Edit(s), op \in Reading PROVE HandInv'
  BY <1>2, <1>3 DEF Edit, Move, queue
<1>4. ASSUME NEW state, Close(state), op \in Reading PROVE HandInv'
  BY <1>2, <1>4 DEF Close, Move, queue
<1>5. CASE Reopen /\ op \in Reading
  BY <1>2, <1>5 DEF Reopen, Move, queue
<1>6. ASSUME NEW e \in Event, Look(e) PROVE HandInv'
  <2>1. /\ op' \in {"compare", "post"} /\ event' = e /\ e \in batch /\ StoreAllows(e)
        /\ op' = "post" => NotSuperseded(e)
        /\ UNCHANGED <<tables, attempts, batch>>
    BY <1>6 DEF Look, queue, ClosedAtHead, NotSuperseded
  <2> QED
    BY <2>1 DEF HandInv, StoreAllows, NotSuperseded, VerifiedNow, ReceiptCurrent
<1>7. CASE Agree
  <2>1. /\ op' = "post" /\ event \in batch /\ StoreAllows(event) /\ NotSuperseded(event)
        /\ UNCHANGED <<tables, attempts, batch, event>>
    BY <1>7 DEF Agree, Agrees, queue, HandInv
  <2> QED
    BY <2>1 DEF HandInv, StoreAllows, NotSuperseded, VerifiedNow, ReceiptCurrent
<1>8. CASE CheckContent
  <2>1. op' = "mark" /\ op = "check" /\ UNCHANGED <<tables, event>>
    BY <1>8 DEF CheckContent
  <2> QED BY <2>1 DEF HandInv, ReceiptCurrent
<1>9. ASSUME NEW r \in Receipt, VerifyReceipt(r) PROVE HandInv'
  <2>1. event' = SuccessStatus(r) /\ op' = "check" /\ UNCHANGED tables
    BY <1>9 DEF VerifyReceipt
  <2>2. ReceiptOf(SuccessStatus(r)) = r
    BY DEF ReceiptOf, SuccessStatus, Receipt
  <2> QED BY <1>9, <2>1, <2>2 DEF HandInv, VerifyReceipt, ReceiptCurrent
<1> QED BY <1>1, <1>2, <1>3, <1>4, <1>5, <1>6, <1>7, <1>8, <1>9 DEF HandStep

\* And so it is at all times.
LEMMA HandCorrect == Spec => []HandInv
<1>1. Init => HandInv
  BY DEF Init, HandInv
<1>2. TypeOK /\ HandInv /\ [Next]_vars => HandInv'
  BY HandNext DEF AnyStep
<1> QED BY <1>1, <1>2, TypeCorrect, PTL DEF Spec

\* What GitHub has answered stays true until the pull request moves; its event is
\* then waiting, since every sync needs the lock.
LEMMA FreshNext == TypeOK /\ FreshInv /\ AnyStep => FreshInv'
<1> SUFFICES ASSUME TypeOK, FreshInv, HandStep PROVE FreshInv'
  BY HandSteps
<1> USE DEF delivery, lock
<1>1. CASE op' \notin Reading /\ (moved' = FALSE \/ (op \notin Reading /\ moved' = moved))
  BY <1>1 DEF FreshInv, Reading
<1>2. CASE /\ op \in Reading
           /\ UNCHANGED <<tables, attempts, lock, pull>>
           /\ MayLose \/ UNCHANGED relay
  BY <1>2 DEF FreshInv, Announced, PullCurrent, ClosedAtHead, relay
<1>3. ASSUME op \in Reading, Move, Announced' PROVE FreshInv'
  BY <1>3 DEF FreshInv, Move, Reading
<1>4. ASSUME NEW s \in Snapshots, Edit(s), op \in Reading PROVE FreshInv'
  <2>1. Announced'
    BY <1>4 DEF Edit, Announced, TypeOK
  <2> QED BY <1>3, <1>4, <2>1 DEF Edit
<1>5. ASSUME NEW state \in {"closed", "merged"}, Close(state), op \in Reading PROVE FreshInv'
  <2>1. Announced'
    BY <1>5 DEF Close, Announced, TypeOK
  <2> QED BY <1>3, <1>5, <2>1 DEF Close
<1>6. CASE Reopen /\ op \in Reading
  <2>1. Announced'
    BY <1>6 DEF Reopen, Announced, TypeOK
  <2> QED BY <1>3, <1>6, <2>1 DEF Reopen
<1>7. ASSUME NEW e \in Event, Look(e) PROVE FreshInv'
  BY <1>7 DEF Look, FreshInv, Reading, PullCurrent, ClosedAtHead, github
<1>8. CASE Agree
  <2>1. /\ op = "compare" /\ op' = "post" /\ UNCHANGED <<event, moved, pull, relay>>
        /\ pull.snap = event.snap
    BY <1>8 DEF Agree, Agrees, BindingCurrent, github
  <2> QED BY <2>1 DEF FreshInv, Reading, PullCurrent, Announced, relay
<1>9. CASE CheckContent
  <2>1. /\ op = "check" /\ op' = "mark" /\ UNCHANGED <<event, moved, pull, relay>>
        /\ pull.snap = event.snap
    BY <1>9 DEF CheckContent, BindingCurrent, github
  <2> QED BY <2>1 DEF FreshInv, Reading, PullCurrent, Announced, relay
<1>10. ASSUME NEW r \in Receipt, VerifyReceipt(r) PROVE FreshInv'
  <2>1. /\ op' = "check" /\ event'.snap = r.snap /\ ~moved' /\ UNCHANGED pull
        /\ PullCurrent(r.snap)
    BY <1>10 DEF VerifyReceipt, SuccessStatus, FreshInv, Reading, github, TypeOK
  <2> QED BY <2>1 DEF FreshInv, PullCurrent
<1> QED BY <1>1, <1>2, <1>4, <1>5, <1>6, <1>7, <1>8, <1>9, <1>10 DEF HandStep

\* And so it is at all times.
LEMMA FreshCorrect == Spec => []FreshInv
<1>1. Init => FreshInv
  BY DEF Init, FreshInv, Reading
<1>2. TypeOK /\ FreshInv /\ [Next]_vars => FreshInv'
  BY FreshNext DEF AnyStep
<1> QED BY <1>1, <1>2, TypeCorrect, PTL DEF Spec

-------------------------------------------------------------------------------
(***************************************************************************)
(* A verified receipt fixes the questions of its snapshot.  It is inductive *)
(* only with what a sync remembers while the model works: questions are     *)
(* generated for triggered snapshots without a verified receipt.            *)
(***************************************************************************)
QuestionsInv ==
    /\ VerifiedQuestionsKept
    /\ \A s \in Snapshots : stored[s] \in QuestionSets => s \in Triggered
    /\ op \in {"announce", "generate"} =>
          /\ opSnap \in Triggered
          /\ \A r \in Receipt : receipt[r] = "verified" => r.snap # opSnap

\* There is no receipt, and nothing is stored, at the start.
LEMMA QuestionsInit == Init => QuestionsInv
BY NoneAssumption DEF Init, QuestionsInv, VerifiedQuestionsKept

\* A step that touches the tables keeps the questions of verified receipts.
LEMMA QuestionsStep == TypeOK /\ HandInv /\ QuestionsInv /\ TableStep => QuestionsInv'
<1> SUFFICES ASSUME TypeOK, HandInv, QuestionsInv, TableStep PROVE QuestionsInv'
  OBVIOUS
<1>1. ASSUME NEW bound \in BOOLEAN, NEW regenerate \in BOOLEAN,
             SaveSnapshot(bound, regenerate)
      PROVE  QuestionsInv'
  <2> DEFINE s == pull.snap
  <2>1. s \in Snapshots /\ opSnap' = s /\ UNCHANGED receipt
    BY <1>1 DEF TypeOK, SaveSnapshot
  <2>2. CASE UNCHANGED stored /\ op' = "project"
    BY <2>1, <2>2 DEF QuestionsInv, VerifiedQuestionsKept
  <2>3. CASE /\ stored' = [stored EXCEPT ![s] = NoQuestions]
             /\ s \notin Triggered \/ stored[s] \notin QuestionSets \/ ~HasReceipts(s)
             /\ op' \in {"announce", "generate"} => s \in Triggered
    <3>1. \A r \in Receipt : receipt[r] = "verified" => r.snap # s
      <4> SUFFICES ASSUME NEW r \in Receipt, receipt[r] = "verified", r.snap = s
                   PROVE  FALSE
        OBVIOUS
      <4>1. r.qv \in QuestionSets /\ r = [snap |-> s, qv |-> r.qv]
        BY DEF Receipt
      <4>2. stored[s] \in QuestionSets /\ s \in Triggered
        BY <4>1, <2>1 DEF QuestionsInv, VerifiedQuestionsKept
      <4>3. HasReceipts(s)
        BY <4>1 DEF HasReceipts
      <4> QED BY <2>3, <4>2, <4>3
    <3>2. \A t \in Snapshots : t # s => stored'[t] = stored[t]
      BY <2>3 DEF TypeOK
    <3>3. stored'[s] = NoQuestions
      BY <2>1, <2>3 DEF TypeOK
    <3>4. VerifiedQuestionsKept'
      BY <2>1, <3>1, <3>2 DEF QuestionsInv, VerifiedQuestionsKept, Receipt
    <3>5. (\A t \in Snapshots : stored[t] \in QuestionSets => t \in Triggered)'
      BY <3>2, <3>3, NoneAssumption DEF QuestionsInv
    <3> QED BY <2>1, <2>3, <3>1, <3>4, <3>5 DEF QuestionsInv
  <2> QED BY <1>1, <2>2, <2>3 DEF SaveSnapshot
<1>2. ASSUME NEW q \in QuestionSets, Generate(q) PROVE QuestionsInv'
  <2>1. /\ opSnap \in Snapshots /\ opSnap \in Triggered
        /\ \A r \in Receipt : receipt[r] = "verified" => r.snap # opSnap
    BY <1>2 DEF TypeOK, QuestionsInv, Generate
  <2>2. stored' = [stored EXCEPT ![opSnap] = q] /\ UNCHANGED receipt /\ op' = "project"
    BY <1>2 DEF Generate
  <2>3. \A t \in Snapshots : t # opSnap => stored'[t] = stored[t]
    BY <2>2 DEF TypeOK
  <2>4. VerifiedQuestionsKept'
    BY <2>1, <2>2, <2>3 DEF QuestionsInv, VerifiedQuestionsKept, Receipt
  <2> QED BY <2>1, <2>2, <2>3, <2>4 DEF QuestionsInv
<1>3. ASSUME NEW j \in Jobs, PassJob(j) PROVE QuestionsInv'
  <2>1. /\ UNCHANGED stored
        /\ op' \in {"idle", "project"}
        /\ \A r \in Receipt : receipt'[r] = "verified" => receipt[r] = "verified"
    BY <1>3 DEF TypeOK, PassJob, SaveReceipt
  <2> QED BY <2>1 DEF QuestionsInv, VerifiedQuestionsKept
<1>4. CASE MarkVerified
  <2> DEFINE r == ReceiptOf(event)
  <2>1. /\ UNCHANGED stored /\ op' = "idle"
        /\ stored[r.snap] = r.qv
        /\ \A t \in Receipt : t # r => receipt'[t] = receipt[t]
    BY <1>4 DEF TypeOK, MarkVerified, MarkReceiptVerified, HandInv, ReceiptCurrent, NoLock
  <2> QED BY <2>1 DEF QuestionsInv, VerifiedQuestionsKept
<1>5. CASE /\ UNCHANGED <<stored, current, receipt>>
           /\ op' \in {"announce", "generate"}
                => op \in {"announce", "generate"} /\ opSnap' = opSnap
  BY <1>5 DEF QuestionsInv, VerifiedQuestionsKept
<1> QED BY <1>1, <1>2, <1>3, <1>4, <1>5 DEF TableStep

\* The inductive invariant holds at all times.
THEOREM QuestionsCorrect == Spec => []QuestionsInv
<1>1. TypeOK /\ HandInv /\ QuestionsInv /\ [Next]_vars => QuestionsInv'
  BY TableSteps, QuestionsStep DEF AnyStep
<1> QED BY <1>1, QuestionsInit, TypeCorrect, HandCorrect, PTL DEF Spec

\* save_snapshot_with_publications, the refusal of --regenerate and save_receipt
\* together: the questions of a verified receipt are never replaced.
THEOREM VerifiedQuestionsStay == Spec => []VerifiedQuestionsKept
<1>1. QuestionsInv => VerifiedQuestionsKept
  BY DEF QuestionsInv
<1> QED BY <1>1, QuestionsCorrect, PTL

-------------------------------------------------------------------------------
(***************************************************************************)
(* What a head shows.                                                      *)
(***************************************************************************)

\* No transaction takes a verification back.
LEMMA VerifiedForEver ==
    TypeOK /\ AnyStep => \A r \in Receipt : receipt[r] = "verified" => receipt'[r] = "verified"
<1> SUFFICES ASSUME TypeOK, TableStep, NEW r \in Receipt, receipt[r] = "verified"
             PROVE  receipt'[r] = "verified"
  BY TableSteps
<1>1. ASSUME NEW bound \in BOOLEAN, NEW regenerate \in BOOLEAN,
             SaveSnapshot(bound, regenerate)
      PROVE  receipt'[r] = "verified"
  BY <1>1 DEF SaveSnapshot
<1>2. ASSUME NEW j \in Jobs, PassJob(j) PROVE receipt'[r] = "verified"
  BY <1>2 DEF TypeOK, PassJob, SaveReceipt
<1>3. CASE MarkVerified
  BY <1>3 DEF TypeOK, MarkVerified, MarkReceiptVerified
<1> QED BY <1>1, <1>2, <1>3 DEF TableStep, Generate

\* What the checks against the store allow to be posted.
Allowed(e) == StoreAllows(e) /\ NotSuperseded(e)

\* What _deliver_event publishes is justified by the tables it has read.
LEMMA PublishJustified ==
    ASSUME TypeOK, SuccessJustified, NEW e \in Event, Allowed(e), Publish(e)
    PROVE  \A h \in Heads : latest'[h] # None =>
              /\ HeadSha[latest'[h].snap] = h
              /\ latest'[h].kind = "success_status"
                    => receipt[ReceiptOf(latest'[h])] = "verified"
              /\ latest'[h].kind = "neutral_status" => latest'[h].snap \notin Triggered
<1>1. CASE e.kind = "verifier_dispatch"
  BY <1>1 DEF Publish, SuccessJustified
<1>2. CASE e.kind # "verifier_dispatch"
  <2>1. latest' = [latest EXCEPT ![HeadSha[e.snap]] = e]
    BY <1>2 DEF Publish
  <2>2. /\ e.kind = "success_status" => receipt[ReceiptOf(e)] = "verified"
        /\ e.kind = "neutral_status" => e.snap \notin Triggered
    BY DEF Allowed, StoreAllows, NotSuperseded
  <2> QED BY <2>1, <2>2 DEF SuccessJustified, TypeOK
<1> QED BY <1>1, <1>2

\* Whatever is delivered, repeated, delayed or cut off by a crash: a success
\* shown on a head belongs to a snapshot of that head that is verified or below
\* the threshold.
THEOREM SuccessIsJustified == Spec => []SuccessJustified
<1>1. Init => SuccessJustified
  BY DEF Init, SuccessJustified
<1>2. TypeOK /\ HandInv /\ SuccessJustified /\ [Next]_vars => SuccessJustified'
  <2> SUFFICES ASSUME TypeOK, HandInv, SuccessJustified, [Next]_vars PROVE SuccessJustified'
    OBVIOUS
  <2>1. TypeOK' /\ \A r \in Receipt : receipt[r] = "verified" => receipt'[r] = "verified"
    BY TypeNext, VerifiedForEver DEF AnyStep
  <2>2. ASSUME \A h \in Heads : latest'[h] # None =>
                  /\ HeadSha[latest'[h].snap] = h
                  /\ latest'[h].kind = "success_status"
                        => receipt[ReceiptOf(latest'[h])] = "verified"
                  /\ latest'[h].kind = "neutral_status" => latest'[h].snap \notin Triggered
        PROVE  SuccessJustified'
    <3> SUFFICES ASSUME NEW h \in Heads, latest'[h] # None
                 PROVE  latest'[h].kind = "success_status"
                           => receipt'[ReceiptOf(latest'[h])] = "verified"
      BY <2>2 DEF SuccessJustified, ReceiptOf
    <3>1. latest'[h] \in Event
      BY <2>1 DEF TypeOK, StatusEvent
    <3>2. latest'[h].kind = "success_status" => ReceiptOf(latest'[h]) \in Receipt
      BY <3>1 DEF Event, SnapshotEvent, ReceiptEvent, ReceiptOf, Receipt
    <3> QED BY <2>1, <2>2, <3>2
  <2>3. CASE UNCHANGED latest
    BY <2>2, <2>3 DEF SuccessJustified
  <2>4. CASE op = "post" /\ Publish(event)
    <3>1. event \in Event /\ Allowed(event)
      BY <2>4 DEF TypeOK, HandInv, Allowed
    <3> QED BY <2>2, <2>4, <3>1, PublishJustified
  <2> QED BY <2>3, <2>4, StatusSteps DEF StatusStep, AnyStep
<1> QED BY <1>1, <1>2, TypeCorrect, HandCorrect, PTL DEF Spec

\* _deliver_event compares the pull request twice and then calls set_status: what
\* it posts is what the pull request shows, or the sync of what it shows by now
\* is waiting for the lock.
THEOREM PostsAreFresh == Spec => PostsMatchPull
<1> DEFINE A == \A h \in Heads : latest'[h] # latest[h] =>
                  LET e == latest'[h] IN
                  \/ pull = [snap |-> e.snap, state |-> "open"]
                  \/ e.kind = "success_status" /\ pull.state # "open" /\ HeadSha[pull.snap] = h
                  \/ moved /\ Announced
<1>1. TypeOK /\ FreshInv /\ [Next]_vars => A
  <2> SUFFICES ASSUME TypeOK, FreshInv, [Next]_vars, NEW h \in Heads, latest'[h] # latest[h]
               PROVE  LET e == latest'[h] IN
                      \/ pull = [snap |-> e.snap, state |-> "open"]
                      \/ /\ e.kind = "success_status"
                         /\ pull.state # "open"
                         /\ HeadSha[pull.snap] = h
                      \/ moved /\ Announced
    OBVIOUS
  <2>1. op = "post" /\ Publish(event)
    BY StatusSteps DEF StatusStep, AnyStep
  <2>2. latest'[h] = event /\ HeadSha[event.snap] = h
    BY <2>1 DEF Publish, TypeOK
  <2>3. \/ pull.snap = event.snap /\ pull.state = "open"
        \/ /\ event.kind = "success_status"
           /\ pull.state # "open"
           /\ HeadSha[pull.snap] = HeadSha[event.snap]
        \/ moved /\ Announced
    BY <2>1 DEF FreshInv, ClosedAtHead
  <2>4. pull = [snap |-> pull.snap, state |-> pull.state]
    BY DEF TypeOK
  <2> QED BY <2>2, <2>3, <2>4
<1> QED BY <1>1, TypeCorrect, FreshCorrect, PTL DEF Spec, PostsMatchPull

\* mark_receipt_verified happens only in verify, after all its comparisons: they
\* still hold, or the sync of what the pull request shows by now is waiting.
THEOREM VerifiedOnlyWhenShown == Spec => VerifiedWhenShown
<1>1. TypeOK /\ HandInv /\ FreshInv /\ [Next]_vars =>
        \A r \in Receipt :
          receipt[r] # "verified" /\ receipt'[r] = "verified"
          => /\ current = r.snap
             /\ stored[r.snap] = r.qv
             /\ \/ pull = [snap |-> r.snap, state |-> "open"]
                \/ moved /\ Announced
  <2> SUFFICES ASSUME TypeOK, HandInv, FreshInv, TableStep, NEW r \in Receipt,
                      receipt[r] # "verified", receipt'[r] = "verified"
               PROVE  /\ current = r.snap
                      /\ stored[r.snap] = r.qv
                      /\ \/ pull = [snap |-> r.snap, state |-> "open"]
                         \/ moved /\ Announced
    BY TableSteps DEF AnyStep
  <2>1. ~\E bound, regenerate \in BOOLEAN : SaveSnapshot(bound, regenerate)
    BY DEF SaveSnapshot
  <2>2. ~\E j \in Jobs : PassJob(j)
    BY DEF TypeOK, PassJob, SaveReceipt
  <2>3. MarkVerified
    BY <2>1, <2>2 DEF TableStep, Generate
  <2>4. op = "mark" /\ r = ReceiptOf(event)
    BY <2>3 DEF TypeOK, MarkVerified, MarkReceiptVerified
  <2>5. event.snap = r.snap /\ ReceiptCurrent(r)
    BY <2>4 DEF HandInv, ReceiptOf
  <2>6. pull = [snap |-> pull.snap, state |-> pull.state]
    BY DEF TypeOK
  <2> QED BY <2>4, <2>5, <2>6 DEF FreshInv, ReceiptCurrent
<1> QED BY <1>1, TypeCorrect, HandCorrect, FreshCorrect, PTL DEF Spec, VerifiedWhenShown

\* Neither a pending status that was retried late nor one of a crashed flush
\* replaces the success of the snapshot it is for.
THEOREM NeverDowngraded == Spec => NoDowngrade
<1>1. TypeOK /\ HandInv /\ QuestionsInv /\ SuccessJustified /\ [Next]_vars =>
        \A h \in Heads : /\ latest[h] # None
                         /\ latest[h].kind = "success_status"
                         /\ latest'[h] # latest[h]
                      => latest'[h].snap # latest[h].snap
  <2> SUFFICES ASSUME TypeOK, HandInv, QuestionsInv, SuccessJustified, [Next]_vars,
                      NEW h \in Heads,
                      latest[h] # None, latest[h].kind = "success_status",
                      latest'[h] # latest[h], latest'[h].snap = latest[h].snap
               PROVE  FALSE
    OBVIOUS
  <2>1. PICK e \in batch : Allowed(e) /\ Publish(e)
    BY StatusSteps DEF StatusStep, AnyStep, HandInv, Allowed
  <2>2. latest'[h] = e /\ e \in Event /\ e.kind # "verifier_dispatch"
    BY <2>1 DEF Publish, TypeOK
  <2> DEFINE f == latest[h]
             r == ReceiptOf(f)
  <2>3. f \in ReceiptEvent /\ f.kind = "success_status"
    BY DEF TypeOK, StatusEvent, Event, SnapshotEvent
  <2>4. r \in Receipt /\ r.snap = e.snap /\ r.qv = f.qv /\ f.qv \in QuestionSets
    BY <2>2, <2>3 DEF ReceiptEvent, ReceiptOf, Receipt
  <2>5. receipt[r] = "verified" /\ stored[e.snap] = f.qv
    BY <2>3, <2>4 DEF SuccessJustified, QuestionsInv, VerifiedQuestionsKept
  <2>6. current = e.snap /\ VerifiedNow(current)
    BY <2>1, <2>4, <2>5 DEF Allowed, StoreAllows, VerifiedNow, ReceiptOf
  <2>7. e.kind = "success_status" /\ e \in ReceiptEvent
    BY <2>1, <2>2, <2>6 DEF Allowed, NotSuperseded, Event, SnapshotEvent, ReceiptEvent
  <2>8. stored[e.snap] = e.qv
    BY <2>1, <2>7 DEF Allowed, StoreAllows, ReceiptCurrent, ReceiptOf
  <2>9. e = f
    <3>1. e = [kind |-> e.kind, snap |-> e.snap, qv |-> e.qv]
      BY <2>7 DEF ReceiptEvent
    <3>2. f = [kind |-> f.kind, snap |-> f.snap, qv |-> f.qv]
      BY <2>3 DEF ReceiptEvent
    <3>3. e.kind = f.kind /\ e.snap = f.snap /\ e.qv = f.qv
      BY <2>2, <2>3, <2>5, <2>7, <2>8
    <3> HIDE DEF f
    <3> QED BY <3>1, <3>2, <3>3
  <2> QED BY <2>2, <2>9
<1> QED BY <1>1, TypeCorrect, HandCorrect, QuestionsCorrect, SuccessIsJustified, PTL
       DEF Spec, NoDowngrade

-------------------------------------------------------------------------------
(***************************************************************************)
(* What a step may do to the outbox and to the batch of a flush.           *)
(***************************************************************************)
Flushing == {"flush", "compare", "post"}

LockStep ==
    \/ (op' \in Flushing <=> op \in Flushing) /\ batch' = batch
    \/ op' = "idle" /\ batch' = {}

OutboxStep ==
    \/ UNCHANGED queue /\ LockStep
    \/ /\ op \notin Flushing /\ LockStep
       /\ \E es : /\ outbox' = Enqueue(outbox, es)
                  /\ \A e \in es : e.kind = "pending_status" => e.snap \in Triggered
       /\ UNCHANGED attempts
    \/ \E overdue : PublicationStatus(overdue) \/ FlushStart(overdue)
    \/ \E e \in Event : Skip(e) \/ DeliveryFails(e) \/ RestoreFails(e) \/ Elapse(e)
    \/ Post

\* Every action but those of the outbox leaves it alone or enqueues events.
LEMMA OutboxSteps == TypeOK /\ AnyStep => OutboxStep
<1> SUFFICES ASSUME TypeOK, AnyStep PROVE OutboxStep
  OBVIOUS
<1> USE DEF queue, delivery, lock, OutboxStep, LockStep, Flushing
<1>1. CASE Author
  BY <1>1 DEF Author, Edit, Submit, Reopen, Close, Move
<1>2. ASSUME NEW bound, NEW regenerate, SaveSnapshot(bound, regenerate) PROVE LockStep
  BY <1>2 DEF SaveSnapshot
<1>3. SaveMerge => LockStep
  BY DEF SaveMerge
<1>4. CASE Operator
  BY <1>2, <1>3, <1>4 DEF Operator, ManualSync, Rerun
<1>5. ASSUME NEW r \in Receipt, VerifyReceipt(r) PROVE OutboxStep
  BY <1>5 DEF VerifyReceipt
<1>12. CASE Mark
  <2>1. CASE MarkVerified
    BY <2>1 DEF MarkVerified, MarkReceiptVerified, SuccessStatus, NoLock
  <2> QED BY <1>12, <2>1 DEF Mark, CheckContent, VerifyRefused, NoLock
<1>11. CASE Relay
  BY <1>2, <1>3, <1>5, <1>11, <1>12 DEF Relay, SyncEvent, ClosedEvent, Verify, RunEnds
<1>6. CASE Sync
  <2>1. /\ \A s, b : \A e \in Projection(s, b) :
              e.kind = "pending_status" => e.snap \in Triggered
        /\ \A s : \A e \in ClosedProjection(s) :
              e.kind = "pending_status" => e.snap \in Triggered
    BY DEF Projection, ClosedProjection
  <2>2. CASE Announce
    BY <2>1, <2>2 DEF Announce
  <2>3. CASE GenerateFails
    BY <2>1, <2>3 DEF GenerateFails, FinishSync, NoLock
  <2>4. CASE Project
    BY <2>1, <2>4 DEF Project, FinishSync, NoLock
  <2>5. CASE ProjectClosed
    BY <2>1, <2>5 DEF ProjectClosed, NoLock
  <2> QED BY <1>6, <2>2, <2>3, <2>4, <2>5 DEF Sync, Generate, GenerateStale, FinishSync, NoLock
<1>7. CASE Grade
  <2>1. ASSUME NEW j \in Jobs, PassJob(j) PROVE OutboxStep
    <3>1. op' \in {"idle", "project"} /\ op = "idle" /\ UNCHANGED <<attempts, batch>>
      BY <2>1 DEF PassJob
    <3> QED BY <2>1, <3>1 DEF PassJob, SaveReceipt, Dispatch
  <2> QED BY <1>7, <2>1 DEF Grade, StartJob, EndJob, ExpireJob
<1>8. CASE Flush
  BY <1>8 DEF Flush, Deliver, Look, Agree, FlushAborts, NoLock
<1>9. CASE Environment
  BY <1>9 DEF Environment, LoseEvent, CrashAfterPublish, Crash, Restart, NoLock
<1>10. CASE UNCHANGED vars
  BY <1>10 DEF vars
<1> QED BY <1>1, <1>4, <1>5, <1>6, <1>7, <1>8, <1>9, <1>10, <1>11 DEF AnyStep, Next

\* A row of the outbox is never deleted.
LEMMA NeverAbsentAgain ==
    TypeOK /\ [Next]_vars =>
        \A e \in Event : outbox[e] # "absent" => outbox'[e] # "absent"
<1> SUFFICES ASSUME TypeOK, OutboxStep, NEW e \in Event, outbox[e] # "absent"
             PROVE  outbox'[e] # "absent"
  BY OutboxSteps DEF AnyStep
<1>1. ASSUME NEW es, outbox' = Enqueue(outbox, es) PROVE outbox'[e] # "absent"
  BY <1>1 DEF Enqueue
<1>2. ASSUME NEW overdue, PublicationStatus(overdue) \/ FlushStart(overdue)
      PROVE  outbox'[e] # "absent"
  BY <1>2 DEF PublicationStatus, FlushStart, RequeueDispatches
<1>3. ASSUME NEW d \in Event, Skip(d) \/ DeliveryFails(d) \/ RestoreFails(d) \/ Elapse(d)
      PROVE  outbox'[e] # "absent"
  BY <1>3 DEF TypeOK, Skip, MarkSent, DeliveryFails, MarkFailed, RestoreFails, Elapse
<1>5. CASE Post
  BY <1>5 DEF TypeOK, Post, MarkSent
<1>4. CASE UNCHANGED queue
  BY <1>4 DEF queue
<1> QED BY <1>1, <1>2, <1>3, <1>4, <1>5 DEF OutboxStep

\* save_receipt and mark_receipt_verified queue their events in the transaction
\* that makes them necessary, so no crash separates the two.
THEOREM HandoverIsQueued == Spec => []HandoverQueued
<1>1. Init => HandoverQueued
  BY DEF Init, HandoverQueued
<1>2. TypeOK /\ HandInv /\ HandoverQueued /\ [Next]_vars => HandoverQueued'
  <2> SUFFICES ASSUME TypeOK, HandInv, HandoverQueued, [Next]_vars, NEW r \in Receipt
               PROVE  /\ receipt'[r] # "none" => outbox'[Dispatch(r)] # "absent"
                      /\ receipt'[r] = "verified" => outbox'[SuccessStatus(r)] # "absent"
    BY DEF HandoverQueued, Dispatch, SuccessStatus
  <2>1. Dispatch(r) \in Event /\ SuccessStatus(r) \in Event
    BY DEF Dispatch, SuccessStatus, Event, ReceiptEvent, Receipt
  <2>2. CASE UNCHANGED receipt
    BY <2>1, <2>2, NeverAbsentAgain DEF HandoverQueued
  <2>3. ASSUME NEW j \in Jobs, PassJob(j)
        PROVE  /\ receipt'[r] # "none" => outbox'[Dispatch(r)] # "absent"
               /\ receipt'[r] = "verified" => outbox'[SuccessStatus(r)] # "absent"
    <3> DEFINE t == ReceiptOf(jobs[j])
    <3>1. CASE t = r
      <4>1. outbox'[Dispatch(r)] # "absent"
        BY <2>1, <2>3, <3>1 DEF PassJob, SaveReceipt, Enqueue, TypeOK, OutboxStatus
      <4>2. receipt'[r] = "verified" => receipt[r] = "verified"
        BY <2>3, <3>1 DEF PassJob, SaveReceipt, TypeOK
      <4> QED BY <2>1, <4>1, <4>2, NeverAbsentAgain DEF HandoverQueued
    <3>2. CASE t # r
      <4>1. receipt'[r] = receipt[r]
        BY <2>3, <3>2 DEF PassJob, SaveReceipt, TypeOK
      <4> QED BY <2>1, <4>1, NeverAbsentAgain DEF HandoverQueued
    <3> QED BY <3>1, <3>2
  <2>4. ASSUME MarkVerified
        PROVE  /\ receipt'[r] # "none" => outbox'[Dispatch(r)] # "absent"
               /\ receipt'[r] = "verified" => outbox'[SuccessStatus(r)] # "absent"
    <3> DEFINE t == ReceiptOf(event)
    <3>1. CASE t = r
      <4>1. outbox'[SuccessStatus(r)] # "absent"
        BY <2>1, <2>4, <3>1 DEF MarkVerified, MarkReceiptVerified, Enqueue, TypeOK, OutboxStatus
      <4>2. receipt[r] # "none"
        BY <2>4, <3>1 DEF MarkVerified, HandInv
      <4> QED BY <2>1, <4>1, <4>2, NeverAbsentAgain DEF HandoverQueued
    <3>2. CASE t # r
      <4>1. receipt'[r] = receipt[r]
        BY <2>4, <3>2 DEF MarkVerified, MarkReceiptVerified, TypeOK
      <4> QED BY <2>1, <4>1, NeverAbsentAgain DEF HandoverQueued
    <3> QED BY <3>1, <3>2
  <2> QED BY <2>2, <2>3, <2>4, TableSteps DEF TableStep, AnyStep, SaveSnapshot, Generate
<1> QED BY <1>1, <1>2, TypeCorrect, HandCorrect, PTL DEF Spec

-------------------------------------------------------------------------------
(***************************************************************************)
(* The limit on dispatches is inductive with the batch: what a flush has   *)
(* still to deliver is due, and only a flush has a batch.                  *)
(***************************************************************************)
BudgetInv ==
    /\ DispatchBudget
    /\ \A r \in Receipt : outbox[Dispatch(r)] = "absent" => attempts[r] <= MaxDispatch
    /\ \A e \in batch : op \in Flushing /\ outbox[e] = "pending"

\* Nothing has been dispatched at the start.
LEMMA BudgetInit == Init => BudgetInv
BY ConstantsAssumption
   DEF Init, BudgetInv, DispatchBudget, Dispatch, Event, ReceiptEvent, Receipt

\* No step of the outbox tries a dispatch once too often.
LEMMA BudgetStep == TypeOK /\ BudgetInv /\ OutboxStep => BudgetInv'
<1> SUFFICES ASSUME TypeOK, BudgetInv, OutboxStep PROVE BudgetInv'
  OBVIOUS
<1>1. \A r \in Receipt : /\ Dispatch(r) \in Event
                         /\ Dispatch(r).kind = "verifier_dispatch"
                         /\ ReceiptOf(Dispatch(r)) = r
  BY DEF Dispatch, ReceiptOf, Event, ReceiptEvent, Receipt
<1>2. LockStep => (op \notin Flushing => batch' = {} \/ (batch' = batch /\ batch = {}))
  BY DEF LockStep, BudgetInv
<1>3. CASE UNCHANGED queue /\ LockStep
  BY <1>3 DEF queue, LockStep, BudgetInv, DispatchBudget
<1>4. ASSUME op \notin Flushing, LockStep, NEW es, outbox' = Enqueue(outbox, es), UNCHANGED attempts
      PROVE  BudgetInv'
  <2>1. batch' = {}
    BY <1>2, <1>4
  <2>2. ASSUME NEW r \in Receipt
        PROVE  \/ outbox'[Dispatch(r)] = outbox[Dispatch(r)]
               \/ /\ outbox'[Dispatch(r)] = "pending"
                  /\ outbox[Dispatch(r)] \in {"absent", "pending", "retrying"}
    BY <1>1, <1>4 DEF Enqueue
  <2> QED BY <1>4, <2>1, <2>2 DEF BudgetInv, DispatchBudget
<1>5. ASSUME NEW overdue, outbox' = RequeueDispatches(outbox, overdue), NEW r \in Receipt
      PROVE  \/ outbox'[Dispatch(r)] = outbox[Dispatch(r)]
             \/ outbox'[Dispatch(r)] = "pending" /\ attempts[r] < MaxDispatch
  BY <1>1, <1>5 DEF RequeueDispatches
<1>6. ASSUME NEW overdue, PublicationStatus(overdue) PROVE BudgetInv'
  <2>1. outbox' = RequeueDispatches(outbox, overdue) /\ UNCHANGED <<attempts, op, batch>>
    BY <1>6 DEF PublicationStatus, lock, delivery
  <2>2. batch' = {}
    BY <1>6, <2>1 DEF PublicationStatus, BudgetInv, Flushing
  <2> QED BY <1>5, <2>1, <2>2, ConstantsAssumption DEF BudgetInv, DispatchBudget, TypeOK
<1>7. ASSUME NEW overdue, FlushStart(overdue) PROVE BudgetInv'
  <2>1. outbox' = RequeueDispatches(outbox, overdue) /\ UNCHANGED attempts
    BY <1>7 DEF FlushStart
  <2>2. op' = "flush" /\ \A e \in batch' : outbox'[e] = "pending"
    BY <1>7 DEF FlushStart
  <2> QED
    BY <1>5, <2>1, <2>2, ConstantsAssumption DEF BudgetInv, DispatchBudget, Flushing, TypeOK
<1>8. ASSUME NEW e \in Event, NextInBatch(e), CountAttempt(e),
             outbox' = [outbox EXCEPT ![e] = "sent"]
             \/ /\ outbox' = [outbox EXCEPT ![e] = "retrying"]
                /\ e.kind = "verifier_dispatch" => attempts[ReceiptOf(e)] < MaxDispatch
      PROVE  BudgetInv'
  <2>1. outbox[e] = "pending" /\ op \in Flushing
    BY <1>8 DEF NextInBatch, InHand, BudgetInv
  <2>2. \A d \in batch' : op' \in Flushing /\ outbox'[d] = "pending"
    <3> SUFFICES ASSUME NEW d \in batch' PROVE op' \in Flushing /\ outbox'[d] = "pending"
      OBVIOUS
    <3>1. d \in batch /\ d # e /\ d \in Event
      BY <1>8 DEF NextInBatch, TypeOK
    <3> QED BY <1>8, <3>1 DEF NextInBatch, BudgetInv, TypeOK, Flushing
  <2>3. ASSUME NEW r \in Receipt
        PROVE  /\ attempts'[r] <= MaxDispatch + 1
               /\ outbox'[Dispatch(r)] \in {"absent", "pending", "retrying"}
                     => attempts'[r] <= MaxDispatch
    <3>1. CASE e = Dispatch(r)
      <4>1. attempts'[r] = attempts[r] + 1 /\ attempts[r] <= MaxDispatch
        BY <1>1, <1>8, <2>1, <3>1 DEF CountAttempt, BudgetInv, DispatchBudget
      <4>2. attempts[r] \in Nat /\ MaxDispatch \in Nat
        BY ConstantsAssumption DEF TypeOK
      <4>3. outbox'[e] = "sent" \/ attempts[r] < MaxDispatch
        BY <1>1, <1>8, <3>1 DEF TypeOK
      <4> QED BY <3>1, <4>1, <4>2, <4>3
    <3>2. CASE e # Dispatch(r)
      <4>1. attempts'[r] = attempts[r] /\ outbox'[Dispatch(r)] = outbox[Dispatch(r)]
        BY <1>1, <1>8, <3>2 DEF CountAttempt, TypeOK
      <4> QED BY <4>1 DEF BudgetInv, DispatchBudget
    <3> QED BY <3>1, <3>2
  <2> QED BY <2>2, <2>3 DEF BudgetInv, DispatchBudget
<1>9. ASSUME NEW e \in Event, Elapse(e) PROVE BudgetInv'
  <2>1. /\ outbox[e] = "retrying" /\ outbox' = [outbox EXCEPT ![e] = "pending"]
        /\ UNCHANGED <<attempts, op, batch>>
    BY <1>9 DEF Elapse, lock, delivery
  <2>2. \A d \in Event : d # e => outbox'[d] = outbox[d]
    BY <2>1 DEF TypeOK
  <2>3. outbox'[e] = "pending"
    BY <2>1 DEF TypeOK
  <2> QED BY <1>1, <2>1, <2>2, <2>3 DEF BudgetInv, DispatchBudget, TypeOK
<1>10. ASSUME NEW e \in Event, Skip(e) PROVE BudgetInv'
  BY <1>8, <1>10 DEF Skip, MarkSent
<1>11. CASE Post
  <2>1. event \in Event
    BY <1>11 DEF Post, Reading, TypeOK
  <2> QED BY <1>8, <1>11, <2>1 DEF Post, MarkSent
<1>12. ASSUME NEW e \in Event, DeliveryFails(e) PROVE BudgetInv'
  <2>1. \/ outbox' = [outbox EXCEPT ![e] = "sent"]
        \/ /\ outbox' = [outbox EXCEPT ![e] = "retrying"]
           /\ ~(/\ e.kind = "verifier_dispatch"
                /\ attempts[ReceiptOf(e)] + 1 >= MaxDispatch)
    BY <1>12 DEF DeliveryFails, MarkFailed
  <2>2. e.kind = "verifier_dispatch" => ReceiptOf(e) \in Receipt
    BY DEF Event, SnapshotEvent, ReceiptEvent, ReceiptOf, Receipt
  <2>3. e.kind = "verifier_dispatch" => attempts[ReceiptOf(e)] \in Nat /\ MaxDispatch \in Nat
    BY <2>2, ConstantsAssumption DEF TypeOK
  <2>4. NextInBatch(e) /\ CountAttempt(e)
    BY <1>12 DEF DeliveryFails, MarkFailed
  <2> QED BY <1>8, <2>1, <2>3, <2>4
<1>13. ASSUME NEW e \in Event, RestoreFails(e) PROVE BudgetInv'
  BY <1>8, <1>13 DEF RestoreFails
<1> QED BY <1>3, <1>4, <1>6, <1>7, <1>9, <1>10, <1>11, <1>12, <1>13 DEF OutboxStep

\* The inductive invariant holds at all times.
THEOREM BudgetCorrect == Spec => []BudgetInv
<1>1. TypeOK /\ BudgetInv /\ [Next]_vars => BudgetInv'
  BY OutboxSteps, BudgetStep DEF AnyStep
<1> QED BY <1>1, BudgetInit, TypeCorrect, PTL DEF Spec

\* Requeues, retries, failures and crashes together count a receipt's dispatch
\* once more than its limit at most, however often its snapshot, which must be
\* restored first, cannot be.
THEOREM DispatchIsBounded == Spec => []DispatchBudget
<1>1. BudgetInv => DispatchBudget
  BY DEF BudgetInv
<1> QED BY <1>1, BudgetCorrect, PTL

-------------------------------------------------------------------------------
(***************************************************************************)
(* The jobs an author's page polls.                                        *)
(***************************************************************************)
JobStep ==
    \/ /\ UNCHANGED receipt
       /\ \A j \in Jobs : jobs'[j].state \in {"awaiting_verification", "verified"}
                         => jobs'[j] = jobs[j]
    \/ \E j \in Jobs : PassJob(j)
    \/ MarkVerified

\* Only a graded answer and a verification give a job one of its last two states.
LEMMA JobSteps == TypeOK /\ [Next]_vars => JobStep
<1> SUFFICES ASSUME TypeOK, [Next]_vars PROVE JobStep
  OBVIOUS
<1> USE DEF tables
<1>1. ASSUME UNCHANGED <<receipt, jobs>> PROVE JobStep
  BY <1>1 DEF JobStep
<1>2. CASE Author
  <2>1. ASSUME NEW j \in Jobs, Submit(j) PROVE JobStep
    BY <2>1 DEF Submit, TypeOK, JobStep
  <2> QED BY <1>1, <1>2, <2>1 DEF Author, Edit, Reopen, Close
<1>3. CASE Operator
  BY <1>1, <1>3 DEF Operator, ManualSync, SaveSnapshot, SaveMerge, Rerun
<1>4. CASE Relay
  <2>1. CASE MarkVerified
    BY <2>1 DEF JobStep
  <2> QED
    BY <1>1, <1>4, <2>1 DEF Relay, SyncEvent, ClosedEvent, SaveSnapshot, SaveMerge, RunEnds,
                            Verify, VerifyReceipt, Mark, CheckContent, VerifyRefused
<1>5. CASE Sync
  BY <1>1, <1>5 DEF Sync, Announce, Generate, GenerateFails, GenerateStale, Project, ProjectClosed
<1>6. CASE Grade
  <2>1. ASSUME NEW j \in Jobs, StartJob(j) PROVE JobStep
    <3>1. jobs[j] \in MemoryJob
      BY <2>1 DEF StartJob, TypeOK, NoJob
    <3>2. jobs'[j].state = "running"
      BY <2>1, <3>1 DEF StartJob, TypeOK, MemoryJob
    <3>3. \A i \in Jobs \ {j} : jobs'[i] = jobs[i]
      BY <2>1 DEF StartJob, TypeOK
    <3> QED BY <2>1, <3>2, <3>3 DEF StartJob, JobStep
  <2>2. ASSUME NEW j \in Jobs, EndJob(j) \/ ExpireJob(j) PROVE JobStep
    BY <2>2 DEF EndJob, ExpireJob, NoJob, TypeOK, JobStep
  <2>3. ASSUME NEW j \in Jobs, PassJob(j) PROVE JobStep
    BY <2>3 DEF JobStep
  <2> QED BY <1>6, <2>1, <2>2, <2>3 DEF Grade
<1>7. CASE Flush
  BY <1>1, <1>7 DEF Flush, PublicationStatus, FlushStart, Deliver, Look, Agree, Skip, Post,
                    DeliveryFails, RestoreFails, FlushAborts
<1>8. CASE Environment
  BY <1>8 DEF Environment, LoseEvent, Elapse, CrashAfterPublish, Crash, Restart, NoJob, JobStep
<1>9. CASE UNCHANGED vars
  BY <1>1, <1>9 DEF vars
<1> QED BY <1>2, <1>3, <1>4, <1>5, <1>6, <1>7, <1>8, <1>9 DEF Next

\* _mark_jobs_verified reaches every job that waits for the verified receipt,
\* and a job passed on a verified receipt does not wait for it.
THEOREM JobsFollow == Spec => []JobsFollowReceipts
<1>1. Init => JobsFollowReceipts
  BY DEF Init, JobsFollowReceipts, NoJob
<1>2. TypeOK /\ HandInv /\ JobsFollowReceipts /\ [Next]_vars => JobsFollowReceipts'
  <2> SUFFICES ASSUME TypeOK, HandInv, JobsFollowReceipts, JobStep PROVE JobsFollowReceipts'
    BY JobSteps
  <2>1. ASSUME NEW j \in Jobs, jobs[j].state # "none"
        PROVE  ReceiptOf(jobs[j]) \in Receipt
    <3>1. jobs[j] \in MemoryJob
      BY <2>1 DEF TypeOK, NoJob
    <3> QED BY <3>1 DEF MemoryJob, ReceiptOf, Receipt
  <2>2. CASE /\ UNCHANGED receipt
             /\ \A j \in Jobs : jobs'[j].state \in {"awaiting_verification", "verified"}
                               => jobs'[j] = jobs[j]
    BY <2>2 DEF JobsFollowReceipts, ReceiptOf
  <2>3. ASSUME NEW j \in Jobs, PassJob(j) PROVE JobsFollowReceipts'
    <3> DEFINE r == ReceiptOf(jobs[j])
    <3>1. r \in Receipt /\ receipt' = [receipt EXCEPT ![r] = IF @ = "none" THEN "unverified" ELSE @]
      BY <2>1, <2>3 DEF PassJob, SaveReceipt
    <3>2. \A t \in Receipt : /\ receipt[t] = "unverified" => receipt'[t] = "unverified"
                             /\ receipt[t] = "verified" => receipt'[t] = "verified"
      BY <3>1 DEF TypeOK
    <3>3. \A i \in Jobs \ {j} : jobs'[i] = jobs[i]
      BY <2>3 DEF PassJob, TypeOK
    <3>4. /\ jobs'[j].state = "awaiting_verification"
               => ReceiptOf(jobs'[j]) = r /\ receipt[r] # "verified"
          /\ jobs'[j].state = "verified" => ReceiptOf(jobs'[j]) = r /\ receipt[r] = "verified"
      <4>1. jobs[j] \in MemoryJob
        BY <2>3 DEF PassJob, TypeOK, NoJob
      <4>2. CASE jobs' = [jobs EXCEPT ![j] = NoJob]
        BY <4>2 DEF NoJob, TypeOK
      <4>3. CASE jobs' = [jobs EXCEPT ![j].state = IF receipt[r] = "verified" THEN "verified"
                                                   ELSE "awaiting_verification"]
        <5>1. /\ jobs'[j].state = IF receipt[r] = "verified" THEN "verified"
                                  ELSE "awaiting_verification"
              /\ ReceiptOf(jobs'[j]) = r
          BY <4>1, <4>3 DEF TypeOK, MemoryJob, ReceiptOf
        <5> QED BY <5>1
      <4> QED BY <2>3, <4>2, <4>3 DEF PassJob
    <3>5. ASSUME NEW i \in Jobs
          PROVE  /\ jobs'[i].state = "awaiting_verification"
                       => receipt'[ReceiptOf(jobs'[i])] = "unverified"
                 /\ jobs'[i].state = "verified" => receipt'[ReceiptOf(jobs'[i])] = "verified"
      <4>1. CASE i = j
        BY <3>1, <3>4, <4>1 DEF TypeOK
      <4>2. CASE i # j
        BY <2>1, <3>2, <3>3, <4>2 DEF JobsFollowReceipts
      <4> QED BY <4>1, <4>2
    <3> QED BY <3>5 DEF JobsFollowReceipts, ReceiptOf
  <2>4. CASE MarkVerified
    <3> DEFINE r == ReceiptOf(event)
    <3>1. /\ receipt' = [receipt EXCEPT ![r] = "verified"] /\ jobs' = JobsVerified(r)
          /\ r \in Receipt
      BY <2>4 DEF MarkVerified, MarkReceiptVerified, HandInv
    <3> HIDE DEF r
    <3>2. ASSUME NEW i \in Jobs
          PROVE  /\ jobs'[i].state = "awaiting_verification"
                       => receipt'[ReceiptOf(jobs'[i])] = "unverified"
                 /\ jobs'[i].state = "verified" => receipt'[ReceiptOf(jobs'[i])] = "verified"
      <4>1. CASE jobs[i].state = "awaiting_verification" /\ ReceiptOf(jobs[i]) = r
        <5>1. jobs[i] \in MemoryJob
          BY <4>1 DEF TypeOK, NoJob
        <5>2. jobs'[i].state = "verified" /\ ReceiptOf(jobs'[i]) = r
          BY <3>1, <4>1, <5>1 DEF JobsVerified, MemoryJob, ReceiptOf
        <5> QED BY <3>1, <5>2 DEF TypeOK
      <4>2. CASE ~(jobs[i].state = "awaiting_verification" /\ ReceiptOf(jobs[i]) = r)
        <5>1. jobs'[i] = jobs[i]
          BY <3>1, <4>2 DEF JobsVerified
        <5> QED BY <2>1, <3>1, <4>2, <5>1 DEF JobsFollowReceipts, TypeOK
      <4> QED BY <4>1, <4>2
    <3> QED BY <3>2 DEF JobsFollowReceipts, ReceiptOf
  <2> QED BY <2>2, <2>3, <2>4 DEF JobStep
<1> QED BY <1>1, <1>2, TypeCorrect, HandCorrect, PTL DEF Spec

-------------------------------------------------------------------------------
(***************************************************************************)
(* The service implements the gate.                                        *)
(***************************************************************************)
HeldOnlyTriggered ==
    \A s \in Snapshots : outbox[PendingStatus(s)] # "absent" => s \in Triggered

\* _projection_publications queues pending statuses for triggered snapshots only.
LEMMA HeldAreTriggered == Spec => []HeldOnlyTriggered
<1>1. \A s \in Snapshots : /\ PendingStatus(s) \in Event
                           /\ PendingStatus(s).kind = "pending_status"
                           /\ PendingStatus(s).snap = s
  BY DEF PendingStatus, Event, SnapshotEvent
<1>2. Init => HeldOnlyTriggered
  BY <1>1 DEF Init, HeldOnlyTriggered
<1>3. TypeOK /\ BudgetInv /\ HeldOnlyTriggered /\ [Next]_vars => HeldOnlyTriggered'
  <2> SUFFICES ASSUME TypeOK, BudgetInv, HeldOnlyTriggered, OutboxStep,
                      NEW s \in Snapshots, outbox'[PendingStatus(s)] # "absent"
               PROVE  s \in Triggered
    BY OutboxSteps DEF HeldOnlyTriggered, PendingStatus, AnyStep
  <2> SUFFICES ASSUME outbox[PendingStatus(s)] = "absent", outbox'[PendingStatus(s)] # "absent"
               PROVE  s \in Triggered
    BY DEF HeldOnlyTriggered
  <2>1. ASSUME NEW es, outbox' = Enqueue(outbox, es),
               \A e \in es : e.kind = "pending_status" => e.snap \in Triggered
        PROVE  s \in Triggered
    BY <1>1, <2>1 DEF Enqueue
  <2>2. ASSUME NEW overdue, PublicationStatus(overdue) \/ FlushStart(overdue) PROVE FALSE
    BY <1>1, <2>2 DEF PublicationStatus, FlushStart, RequeueDispatches
  <2>3. ASSUME NEW e \in Event, Elapse(e) PROVE FALSE
    BY <1>1, <2>3 DEF Elapse, TypeOK
  <2>4. ASSUME NEW e \in Event, Skip(e) \/ DeliveryFails(e) \/ RestoreFails(e) PROVE FALSE
    <3>1. outbox[e] = "pending"
      BY <2>4 DEF Skip, DeliveryFails, RestoreFails, NextInBatch, InHand, BudgetInv
    <3> QED
      BY <1>1, <2>4, <3>1 DEF Skip, MarkSent, DeliveryFails, MarkFailed, RestoreFails, TypeOK
  <2>5. ~Post
    <3> SUFFICES ASSUME Post PROVE FALSE
      OBVIOUS
    <3>1. outbox[event] = "pending" /\ event \in Event
      BY DEF Post, NextInBatch, InHand, BudgetInv, TypeOK
    <3> QED BY <1>1, <3>1 DEF Post, MarkSent, TypeOK
  <2> QED BY <2>1, <2>2, <2>3, <2>4, <2>5 DEF OutboxStep, queue
<1> QED BY <1>2, <1>3, TypeCorrect, BudgetCorrect, PTL DEF Spec

GateInv == TypeOK /\ HandInv /\ QuestionsInv /\ BudgetInv /\ HeldOnlyTriggered

\* Publishing an event holds or opens the head of its snapshot.
LEMMA PublishIsGateStep ==
    ASSUME GateInv, NEW e \in batch, Allowed(e), Publish(e), UNCHANGED receipt
    PROVE  [Gate!Next]_(Gate!gateVars)
<1> USE DEF GateInv
<1> DEFINE s == e.snap
<1>1. UNCHANGED Explained
  BY DEF Explained
<1>2. CASE e.kind = "verifier_dispatch"
  BY <1>1, <1>2 DEF Publish, Shown, Gate!gateVars
<1>3. CASE e.kind # "verifier_dispatch"
  <2>1. e \in Event /\ s \in Snapshots /\ HeadSha[s] \in Heads /\ e \in StatusEvent
    BY <1>3, ConstantsAssumption DEF TypeOK, Event, SnapshotEvent, ReceiptEvent, StatusEvent
  <2>2. latest' = [latest EXCEPT ![HeadSha[s]] = e] /\ e # None
    BY <1>3, <2>1, NoneAssumption DEF Publish
  <2>3. Shown' = [Shown EXCEPT ![HeadSha[s]] =
                    [shows |-> IF e.kind = "pending_status" THEN "pending" ELSE "success",
                     of |-> s]]
    BY <2>1, <2>2 DEF Shown, TypeOK
  <2>4. CASE e.kind = "pending_status"
    <3>1. e = PendingStatus(s)
      BY <2>1, <2>4 DEF PendingStatus, Event, SnapshotEvent, ReceiptEvent
    <3>2. s \in Triggered
      <4>1. outbox[PendingStatus(s)] # "absent"
        BY <3>1 DEF BudgetInv
      <4> QED BY <2>1, <4>1 DEF HeldOnlyTriggered
    <3>3. s \notin Explained
      <4> SUFFICES ASSUME NEW q \in QuestionSets,
                          receipt[[snap |-> s, qv |-> q]] = "verified"
                   PROVE  FALSE
        BY DEF Explained
      <4>1. [snap |-> s, qv |-> q] \in Receipt
        BY <2>1 DEF Receipt
      <4>2. stored[s] = q
        BY <4>1 DEF QuestionsInv, VerifiedQuestionsKept
      <4> QED BY <2>4, <4>2 DEF Allowed, StoreAllows, NotSuperseded, VerifiedNow
    <3>4. Gate!Hold(s)
      BY <1>1, <2>3, <2>4, <3>2, <3>3 DEF Gate!Hold, Gate!Show
    <3> QED BY <2>1, <3>4 DEF Gate!Next
  <2>5. CASE e.kind # "pending_status"
    <3>1. s \in Explained \cup (Snapshots \ Triggered)
      <4>1. CASE e.kind = "success_status"
        <5>1. e.qv \in QuestionSets
          BY <2>1, <4>1 DEF Event, SnapshotEvent, ReceiptEvent
        <5> QED BY <2>1, <4>1, <5>1 DEF Allowed, StoreAllows, ReceiptOf, Explained
      <4>2. CASE e.kind = "neutral_status"
        BY <2>1, <4>2 DEF Allowed, NotSuperseded
      <4> QED BY <1>3, <2>1, <2>5, <4>1, <4>2 DEF Event, SnapshotEvent, ReceiptEvent
    <3>2. Gate!Open(s)
      BY <1>1, <2>3, <2>5, <3>1 DEF Gate!Open, Gate!Show
    <3> QED BY <2>1, <3>2 DEF Gate!Next
  <2> QED BY <2>4, <2>5
<1> QED BY <1>2, <1>3

\* Every step that posts no status explains a snapshot or stutters.
LEMMA TablesAreGateStep ==
    ASSUME GateInv, TableStep, UNCHANGED latest
    PROVE  [Gate!Next]_(Gate!gateVars)
<1> USE DEF GateInv
<1>1. UNCHANGED Shown
  BY DEF Shown
<1>2. ASSUME UNCHANGED Explained PROVE [Gate!Next]_(Gate!gateVars)
  BY <1>1, <1>2 DEF Gate!gateVars
<1>3. ASSUME MarkVerified PROVE [Gate!Next]_(Gate!gateVars)
  <2> DEFINE r == ReceiptOf(event)
  <2>3. /\ r \in Receipt /\ ReceiptCurrent(r)
        /\ receipt' = [receipt EXCEPT ![r] = "verified"]
    BY <1>3 DEF MarkVerified, MarkReceiptVerified, HandInv
  <2> HIDE DEF r
  <2>1. r.snap \in Snapshots /\ r.qv \in QuestionSets /\ r = [snap |-> r.snap, qv |-> r.qv]
    BY <2>3 DEF Receipt
  <2>2. r.snap \in Triggered
    BY <2>1, <2>3 DEF ReceiptCurrent, QuestionsInv
  <2>4. \A s \in Snapshots, q \in QuestionSets :
           receipt'[[snap |-> s, qv |-> q]] = "verified"
             <=> receipt[[snap |-> s, qv |-> q]] = "verified" \/ (s = r.snap /\ q = r.qv)
    <3> SUFFICES ASSUME NEW s \in Snapshots, NEW q \in QuestionSets
                 PROVE  receipt'[[snap |-> s, qv |-> q]] = "verified"
                          <=> \/ receipt[[snap |-> s, qv |-> q]] = "verified"
                              \/ s = r.snap /\ q = r.qv
      OBVIOUS
    <3> DEFINE t == [snap |-> s, qv |-> q]
    <3>1. t \in Receipt /\ t.snap = s /\ t.qv = q
      BY DEF Receipt
    <3>2. t = r <=> s = r.snap /\ q = r.qv
      BY <2>1, <3>1
    <3> HIDE DEF t
    <3>3. receipt'[t] = "verified" <=> receipt[t] = "verified" \/ t = r
      BY <2>3, <3>1 DEF TypeOK
    <3> QED BY <3>2, <3>3 DEF t
  <2>5. Explained' = Explained \cup {r.snap}
    BY <2>1, <2>4 DEF Explained
  <2>6. Gate!Explain(r.snap)
    BY <1>1, <2>2, <2>5 DEF Gate!Explain
  <2> QED BY <2>1, <2>6 DEF Gate!Next
<1>4. ASSUME NEW j \in Jobs, PassJob(j) PROVE [Gate!Next]_(Gate!gateVars)
  <2>1. \A t \in Receipt : receipt'[t] = "verified" <=> receipt[t] = "verified"
    BY <1>4 DEF PassJob, SaveReceipt, TypeOK
  <2>2. UNCHANGED Explained
    BY <2>1 DEF Explained, Receipt
  <2> QED BY <1>2, <2>2
<1>5. CASE UNCHANGED receipt
  BY <1>2, <1>5 DEF Explained
<1> QED BY <1>3, <1>4, <1>5 DEF TableStep, SaveSnapshot, Generate

\* With its crashes, retries and stale events, the service behaves as the gate
\* of ReviewGate does.
THEOREM ServiceImplementsGate == Spec => ImplementsGate
<1>1. Init => Gate!Init
  BY DEF Init, Gate!Init, Explained, Shown, Receipt
<1>2. GateInv /\ [Next]_vars => [Gate!Next]_(Gate!gateVars)
  <2> SUFFICES ASSUME GateInv, [Next]_vars PROVE [Gate!Next]_(Gate!gateVars)
    OBVIOUS
  <2>1. CASE UNCHANGED latest
    BY <2>1, TableSteps, TablesAreGateStep DEF AnyStep
  <2>2. CASE op = "post" /\ Publish(event) /\ UNCHANGED <<pull, tables>>
    <3>1. event \in batch /\ Allowed(event)
      BY <2>2 DEF GateInv, HandInv, Allowed
    <3> QED BY <2>2, <3>1, PublishIsGateStep DEF tables
  <2> QED BY <2>1, <2>2, StatusSteps DEF StatusStep, AnyStep
<1>3. Spec => []GateInv
  BY TypeCorrect, HandCorrect, QuestionsCorrect, BudgetCorrect, HeldAreTriggered, PTL DEF GateInv
<1> QED BY <1>1, <1>2, <1>3, PTL DEF Spec, ImplementsGate, Gate!Spec
-------------------------------------------------------------------------------
(***************************************************************************)
(* What a head shows at rest, when the author never returns to a content,  *)
(* nobody opens a closed pull request again and no event of the relay is   *)
(* lost.                                                                   *)
(***************************************************************************)

\* Every edit shows a content of a higher rank.
Forwards(rank) == ~MayReopen /\ ~MayLose /\ \A e \in EditTo : rank[e[1]] < rank[e[2]]

\* The pull request will not be open with content s any more.
Past(rank, s) == pull.state # "open" \/ rank[s] < rank[pull.snap]

\* The service has taken s on, and s has not been replaced in its tables since.
TakenOn(rank, s) == current = s \/ Past(rank, s)

\* The current snapshot is what the pull request shows, or showed earlier, and a
\* sync that is under way is about it.
CurrentInv(rank) ==
    /\ current # None => current = pull.snap \/ Past(rank, current)
    /\ op \in {"announce", "generate", "project"} => current = opSnap

\* Statuses are queued for the current snapshot, successes for verified receipts.
QueuedInv(rank) ==
    \A e \in StatusEvent : outbox[e] # "absent" =>
        /\ TakenOn(rank, e.snap)
        /\ e.kind = "success_status" => receipt[ReceiptOf(e)] = "verified"

\* The pending status of what is shown is queued, or its event is still to come.
FaceInv ==
    /\ pull.state = "open" /\ pull.snap \in Triggered /\ pull.snap \notin inbox
       => outbox[PendingStatus(pull.snap)] # "absent"
    /\ op = "generate" /\ opSnap \in Triggered => outbox[PendingStatus(opSnap)] # "absent"

\* A pending status that was sent shows, unless it came too late to matter.
HeldInv(rank) ==
    \A s \in Triggered : outbox[PendingStatus(s)] = "sent" =>
        Past(rank, s) \/ VerifiedNow(s) \/ latest[HeadSha[s]] = PendingStatus(s)

\* A success that was sent shows, unless it came too late to matter.
OpenInv(rank) ==
    \A r \in Receipt : outbox[SuccessStatus(r)] = "sent" =>
        Past(rank, r.snap) \/ latest[HeadSha[r.snap]] = SuccessStatus(r)

SettleInv(rank) ==
    CurrentInv(rank) /\ QueuedInv(rank) /\ FaceInv /\ HeldInv(rank) /\ OpenInv(rank)

\* What any step may do to the pull request and the events on their way.
PullStep ==
    \/ UNCHANGED <<pull, inbox>>
    \/ \E s \in Snapshots : Edit(s)
    \/ \E state \in {"closed", "merged"} : Close(state)
    \/ Reopen
    \/ LoseEvent
    \/ \E s \in Snapshots : SyncEvent(s)
    \/ UNCHANGED pull /\ FinishSync /\ (op = "generate" \/ Project)

\* An event leaves the relay with the answer to its sync, or unfit for it.
LEMMA PullSteps == AnyStep => PullStep
<1> SUFFICES ASSUME AnyStep PROVE PullStep
  OBVIOUS
<1> USE DEF github, relay, PullStep
<1>1. CASE Author
  BY <1>1 DEF Author, Submit
<1>2. CASE Operator
  BY <1>2 DEF Operator, ManualSync, Rerun
<1>3. CASE Relay
  BY <1>3 DEF Relay, ClosedEvent, Verify, VerifyReceipt, RunEnds, Mark, CheckContent,
              VerifyRefused, MarkVerified
<1>4. CASE Sync
  BY <1>4 DEF Sync, Announce, Generate, GenerateFails, GenerateStale, Project, ProjectClosed
<1>5. CASE Grade
  BY <1>5 DEF Grade, StartJob, EndJob, PassJob, ExpireJob
<1>6. CASE Flush
  BY <1>6 DEF Flush, PublicationStatus, FlushStart, Deliver, Look, Agree, Skip, Post,
              DeliveryFails, RestoreFails, FlushAborts
<1>7. CASE Environment
  BY <1>7 DEF Environment, Elapse, CrashAfterPublish, Crash, Restart
<1>8. CASE UNCHANGED vars
  BY <1>8 DEF vars
<1>9. CASE \E r \in Receipt : VerifyReceipt(r)
  BY <1>9 DEF VerifyReceipt
<1> QED BY <1>1, <1>2, <1>3, <1>4, <1>5, <1>6, <1>7, <1>8, <1>9 DEF AnyStep, Next

\* The pull request goes forward only.
LEMMA PastStays ==
    ASSUME NEW rank \in [Snapshots -> Nat], Forwards(rank), TypeOK, AnyStep,
           NEW s \in Snapshots, s = pull.snap \/ Past(rank, s)
    PROVE  /\ Past(rank, s) => Past(rank, s)'
           /\ (s = pull.snap \/ Past(rank, s))'
<1>1. CASE UNCHANGED pull
  BY <1>1 DEF Past
<1>2. ASSUME NEW t \in Snapshots, Edit(t)
      PROVE  Past(rank, s)'
  <2>1. /\ pull'.snap = t /\ pull.snap \in Snapshots /\ rank[pull.snap] < rank[t]
        /\ pull'.state = pull.state
    BY <1>2 DEF Edit, TypeOK, Forwards
  <2>2. rank[s] \in Nat /\ rank[t] \in Nat /\ rank[pull.snap] \in Nat
    BY <2>1
  <2> QED BY <2>1, <2>2 DEF Past
<1>3. ASSUME NEW state \in {"closed", "merged"}, Close(state) PROVE Past(rank, s)'
  BY <1>3 DEF Close, TypeOK, Past
<1>4. ~Reopen
  BY DEF Reopen, Forwards
<1> QED
  BY <1>1, <1>2, <1>3, <1>4, PullSteps DEF PullStep, LoseEvent, SyncEvent, github

\* The tables follow the pull request.
LEMMA CurrentNext ==
    ASSUME NEW rank \in [Snapshots -> Nat], Forwards(rank), TypeOK, CurrentInv(rank), AnyStep
    PROVE  /\ CurrentInv(rank)'
           /\ \A s \in Snapshots : TakenOn(rank, s) => TakenOn(rank, s)'
<1>1. ASSUME UNCHANGED current
      PROVE  /\ (current # None => current = pull.snap \/ Past(rank, current))'
             /\ \A s \in Snapshots : TakenOn(rank, s) => TakenOn(rank, s)'
  <2>1. ASSUME NEW s \in Snapshots, Past(rank, s) PROVE Past(rank, s)'
    BY <2>1, PastStays
  <2>2. current # None => (current = pull.snap \/ Past(rank, current))'
    BY <1>1, PastStays DEF CurrentInv, TypeOK
  <2> QED BY <1>1, <2>1, <2>2 DEF TakenOn, Past
<1>2. ASSUME NEW bound \in BOOLEAN, NEW regenerate \in BOOLEAN, SaveSnapshot(bound, regenerate)
      PROVE  /\ CurrentInv(rank)'
             /\ \A s \in Snapshots : TakenOn(rank, s) => TakenOn(rank, s)'
  <2>1. current' = pull.snap /\ opSnap' = pull.snap /\ pull.snap \in Snapshots
    BY <1>2 DEF SaveSnapshot, TypeOK
  <2>2. \A s \in Snapshots : Past(rank, s) => Past(rank, s)'
    BY PastStays
  <2>3. (current = pull.snap \/ Past(rank, current))'
    BY <2>1, PastStays
  <2>4. ASSUME NEW s \in Snapshots, current = s PROVE TakenOn(rank, s)'
    <3>1. s = pull.snap \/ Past(rank, s)
      BY <2>4, NoneAssumption DEF CurrentInv
    <3> QED BY <2>1, <2>2, <3>1 DEF TakenOn
  <2> QED BY <2>1, <2>2, <2>3, <2>4 DEF CurrentInv, TakenOn
<1>3. ASSUME NEW q \in QuestionSets, Generate(q)
      PROVE  UNCHANGED current /\ (op \in {"announce", "generate", "project"} => current = opSnap)'
  BY <1>3 DEF Generate, CurrentInv
<1>4. ASSUME NEW j \in Jobs, PassJob(j)
      PROVE  UNCHANGED current /\ (op \in {"announce", "generate", "project"} => current = opSnap)'
  BY <1>4 DEF PassJob, ReceiptCurrent
<1>5. ASSUME MarkVerified
      PROVE  UNCHANGED current /\ (op \in {"announce", "generate", "project"} => current = opSnap)'
  BY <1>5 DEF MarkVerified, NoLock
<1>6. CASE /\ UNCHANGED current
           /\ op' \in {"announce", "generate"}
                => op \in {"announce", "generate"} /\ opSnap' = opSnap
           /\ op' = "project" => op = "project" /\ opSnap' = opSnap
  BY <1>1, <1>6 DEF CurrentInv
<1> QED BY <1>1, <1>2, <1>3, <1>4, <1>5, <1>6, TableSteps DEF CurrentInv, TableStep

\* What any step may do to the outbox, and what it queues.
QueueStep ==
    \/ UNCHANGED outbox
    \/ /\ op \in {"announce", "generate", "project"}
       /\ outbox' = Enqueue(outbox, Projection(opSnap, opBound))
       /\ UNCHANGED tables
    \/ outbox' = Enqueue(outbox, ClosedProjection(opSnap)) /\ UNCHANGED tables
    \/ \E j \in Jobs : PassJob(j)
    \/ MarkVerified
    \/ \E overdue : PublicationStatus(overdue) \/ FlushStart(overdue)
    \/ \E e \in Event : Skip(e) \/ DeliveryFails(e) \/ RestoreFails(e) \/ Elapse(e)
    \/ Post

\* Only syncs, verifications and accepted answers queue anything.
LEMMA QueueSteps == AnyStep => QueueStep
<1> SUFFICES ASSUME AnyStep PROVE QueueStep
  OBVIOUS
<1> USE DEF queue, QueueStep
<1>1. CASE Author
  BY <1>1 DEF Author, Edit, Submit, Reopen, Close
<1>2. CASE Operator
  BY <1>2 DEF Operator, ManualSync, Rerun
<1>3. CASE Relay
  BY <1>3 DEF Relay, SyncEvent, ClosedEvent, Verify, VerifyReceipt, RunEnds, Mark,
              CheckContent, VerifyRefused
<1>4. CASE Sync
  BY <1>4 DEF Sync, Announce, Generate, GenerateFails, GenerateStale, Project, ProjectClosed
<1>5. CASE Grade
  BY <1>5 DEF Grade, StartJob, EndJob, ExpireJob
<1>6. CASE Flush
  BY <1>6 DEF Flush, Deliver, Look, Agree, FlushAborts
<1>7. CASE Environment
  BY <1>7 DEF Environment, LoseEvent, Crash, CrashAfterPublish, Restart
<1>8. CASE UNCHANGED vars
  BY <1>8 DEF vars
<1>9. CASE \E r \in Receipt : VerifyReceipt(r)
  BY <1>9 DEF VerifyReceipt
<1> QED BY <1>1, <1>2, <1>3, <1>4, <1>5, <1>6, <1>7, <1>8, <1>9 DEF AnyStep, Next

\* A status that is new in the outbox is of the current snapshot.
LEMMA NewStatus ==
    ASSUME TypeOK, HandInv, BudgetInv, NEW rank, CurrentInv(rank), QueueStep,
           NEW e \in StatusEvent,
           outbox[e] = "absent", outbox'[e] # "absent"
    PROVE  /\ UNCHANGED current /\ current = e.snap
           /\ e.kind = "success_status" => receipt'[ReceiptOf(e)] = "verified"
<1>1. e \in Event /\ e.kind # "verifier_dispatch"
  BY DEF StatusEvent
<1>2. ASSUME NEW es, outbox' = Enqueue(outbox, es) PROVE e \in es
  BY <1>1, <1>2 DEF Enqueue
<1>3. CASE /\ op \in {"announce", "generate", "project"}
           /\ outbox' = Enqueue(outbox, Projection(opSnap, opBound))
           /\ UNCHANGED tables
  <2>1. e \in Projection(opSnap, opBound)
    BY <1>2, <1>3
  <2> QED BY <1>3, <2>1 DEF Projection, CurrentInv, tables
<1>4. CASE outbox' = Enqueue(outbox, ClosedProjection(opSnap)) /\ UNCHANGED tables
  <2>1. e \in ClosedProjection(opSnap)
    BY <1>2, <1>4
  <2> QED BY <1>4, <2>1 DEF ClosedProjection, Projection, tables
<1>5. ASSUME NEW j \in Jobs, PassJob(j) PROVE FALSE
  <2>1. e \in {Dispatch(ReceiptOf(jobs[j]))}
    BY <1>2, <1>5 DEF PassJob, SaveReceipt
  <2> QED BY <1>1, <2>1 DEF Dispatch
<1>6. ASSUME MarkVerified
      PROVE  /\ UNCHANGED current /\ current = e.snap
             /\ receipt'[ReceiptOf(e)] = "verified"
  <2> DEFINE r == ReceiptOf(event)
  <2>1. e \in {SuccessStatus(r)} /\ r \in Receipt /\ ReceiptCurrent(r)
    BY <1>2, <1>6 DEF MarkVerified, MarkReceiptVerified, HandInv
  <2>3. UNCHANGED current /\ receipt' = [receipt EXCEPT ![r] = "verified"]
    BY <1>6 DEF MarkVerified, MarkReceiptVerified
  <2> HIDE DEF r
  <2>2. e.snap = r.snap /\ ReceiptOf(e) = r
    BY <2>1 DEF SuccessStatus, ReceiptOf, Receipt
  <2> QED BY <2>1, <2>2, <2>3 DEF ReceiptCurrent, TypeOK
<1>7. ASSUME NEW overdue, PublicationStatus(overdue) \/ FlushStart(overdue) PROVE FALSE
  BY <1>1, <1>7 DEF PublicationStatus, FlushStart, RequeueDispatches
<1>8. ASSUME NEW d \in Event, Skip(d) \/ DeliveryFails(d) \/ RestoreFails(d) \/ Elapse(d)
      PROVE  FALSE
  <2>1. outbox[d] \in {"pending", "retrying"}
    BY <1>8 DEF Skip, DeliveryFails, RestoreFails, NextInBatch, InHand, Elapse, BudgetInv
  <2> QED
    BY <1>1, <1>8, <2>1
       DEF Skip, MarkSent, DeliveryFails, MarkFailed, RestoreFails, Elapse, TypeOK
<1>9. ~Post
  <2> SUFFICES ASSUME Post PROVE FALSE
    OBVIOUS
  <2>1. outbox[event] = "pending"
    BY DEF Post, NextInBatch, InHand, BudgetInv
  <2> QED BY <1>1, <2>1 DEF Post, MarkSent, TypeOK
<1> QED BY <1>3, <1>4, <1>5, <1>6, <1>7, <1>8, <1>9 DEF QueueStep

\* A status is marked sent only when it was posted or found out of date: a failed
\* one is tried again.
LEMMA NewlySent ==
    ASSUME TypeOK, QueueStep, NEW e \in StatusEvent, outbox[e] # "sent", outbox'[e] = "sent"
    PROVE  Skip(e) \/ (Post /\ event = e)
<1>1. e \in Event /\ e.kind # "verifier_dispatch"
  BY DEF StatusEvent
<1>2. ASSUME NEW es, outbox' = Enqueue(outbox, es) PROVE FALSE
  BY <1>1, <1>2 DEF Enqueue
<1>3. ASSUME NEW overdue, PublicationStatus(overdue) \/ FlushStart(overdue) PROVE FALSE
  BY <1>1, <1>3 DEF PublicationStatus, FlushStart, RequeueDispatches
<1>4. ASSUME NEW d \in Event, Skip(d) PROVE d = e
  BY <1>1, <1>4 DEF Skip, MarkSent, TypeOK
<1>6. CASE Post
  BY <1>1, <1>6 DEF Post, MarkSent, TypeOK
<1>5. ASSUME NEW d \in Event, DeliveryFails(d) \/ RestoreFails(d) \/ Elapse(d) PROVE FALSE
  BY <1>1, <1>5 DEF DeliveryFails, MarkFailed, RestoreFails, Elapse, TypeOK
<1> QED
  BY <1>2, <1>3, <1>4, <1>5, <1>6
  DEF QueueStep, PassJob, SaveReceipt, MarkVerified, MarkReceiptVerified

\* What is queued stays justified.
LEMMA QueuedNext ==
    ASSUME NEW rank \in [Snapshots -> Nat], Forwards(rank), TypeOK, HandInv, BudgetInv,
           CurrentInv(rank), QueuedInv(rank), [Next]_vars
    PROVE  QueuedInv(rank)'
<1> SUFFICES ASSUME NEW e \in StatusEvent, outbox'[e] # "absent"
             PROVE  /\ TakenOn(rank, e.snap)'
                    /\ e.kind = "success_status" => receipt'[ReceiptOf(e)] = "verified"
  BY DEF QueuedInv, StatusEvent, Event, ReceiptOf
<1>1. e.snap \in Snapshots /\ (e.kind = "success_status" => ReceiptOf(e) \in Receipt)
  BY DEF StatusEvent, Event, SnapshotEvent, ReceiptEvent, ReceiptOf, Receipt
<1>2. CASE outbox[e] = "absent"
  BY <1>2, NewStatus, QueueSteps DEF TakenOn, AnyStep
<1>3. CASE outbox[e] # "absent"
  BY <1>1, <1>3, CurrentNext, VerifiedForEver DEF QueuedInv, AnyStep
<1> QED BY <1>2, <1>3

\* _projection_publications queues the pending status of a triggered snapshot.
LEMMA PendingQueued ==
    ASSUME TypeOK, NEW s \in Snapshots, s \in Triggered, NEW bound,
           outbox' = Enqueue(outbox, Projection(s, bound))
    PROVE  outbox'[PendingStatus(s)] # "absent"
<1>1. PendingStatus(s) \in Projection(s, bound)
  BY DEF Projection, PendingStatus, Event, SnapshotEvent
<1>2. PendingStatus(s) \in Event
  BY DEF PendingStatus, Event, SnapshotEvent
<1> QED BY <1>1, <1>2 DEF Enqueue, TypeOK, OutboxStatus

\* The model is called after the pending status was queued.
LEMMA GenerateBegins ==
    AnyStep /\ op' = "generate" => Announce \/ (op = "generate" /\ opSnap' = opSnap)
<1> SUFFICES ASSUME AnyStep, op' = "generate"
             PROVE  Announce \/ (op = "generate" /\ opSnap' = opSnap)
  OBVIOUS
<1> USE DEF lock, delivery
<1>1. CASE Author
  BY <1>1 DEF Author, Edit, Submit, Reopen, Close, Move
<1>2. CASE Operator
  BY <1>2 DEF Operator, ManualSync, SaveSnapshot, SaveMerge, Rerun
<1>3. CASE Relay
  BY <1>3 DEF Relay, SyncEvent, ClosedEvent, SaveSnapshot, SaveMerge, Verify, VerifyReceipt,
              RunEnds, Mark, CheckContent, VerifyRefused, MarkVerified, NoLock
<1>4. CASE Sync
  BY <1>4 DEF Sync, Generate, GenerateFails, GenerateStale, Project, ProjectClosed,
              FinishSync, NoLock
<1>5. CASE Grade
  BY <1>5 DEF Grade, StartJob, EndJob, PassJob, ExpireJob
<1>6. CASE Flush
  BY <1>6 DEF Flush, PublicationStatus, FlushStart, Deliver, Look, Agree, Skip, Post,
              DeliveryFails, RestoreFails, NextInBatch, FlushAborts, NoLock
<1>7. CASE Environment
  BY <1>7 DEF Environment, LoseEvent, Elapse, CrashAfterPublish, Crash, Restart, NoLock
<1>8. CASE UNCHANGED vars
  BY <1>8 DEF vars
<1>9. CASE \E r \in Receipt : VerifyReceipt(r)
  BY <1>9 DEF VerifyReceipt
<1> QED BY <1>1, <1>2, <1>3, <1>4, <1>5, <1>6, <1>7, <1>8, <1>9 DEF AnyStep, Next

\* No event leaves the relay before the pending status it asks for is queued.
LEMMA ShownNext ==
    ASSUME NEW rank \in [Snapshots -> Nat], Forwards(rank), TypeOK, TypeOK', FaceInv, [Next]_vars
    PROVE  FaceInv'
<1>1. \A s \in Snapshots : /\ PendingStatus(s) \in Event
                           /\ outbox[PendingStatus(s)] # "absent"
                              => outbox'[PendingStatus(s)] # "absent"
  <2>1. \A s \in Snapshots : PendingStatus(s) \in Event
    BY DEF PendingStatus, Event, SnapshotEvent
  <2> QED BY <2>1, NeverAbsentAgain
<1>2. ASSUME op' = "generate", opSnap' \in Triggered
      PROVE  outbox'[PendingStatus(opSnap')] # "absent"
  <2>1. opSnap' \in Snapshots
    BY <1>2 DEF TypeOK
  <2>2. CASE Announce
    BY <1>2, <2>1, <2>2, PendingQueued DEF Announce
  <2>3. CASE op = "generate" /\ opSnap' = opSnap
    BY <1>1, <1>2, <2>1, <2>3 DEF FaceInv
  <2> QED BY <1>2, <2>2, <2>3, GenerateBegins DEF AnyStep
<1>3. ASSUME pull'.state = "open", pull'.snap \in Triggered, pull'.snap \notin inbox'
      PROVE  outbox'[PendingStatus(pull'.snap)] # "absent"
  <2>1. pull.snap \in Snapshots /\ pull = [snap |-> pull.snap, state |-> pull.state]
    BY DEF TypeOK
  <2>2. CASE pull' = pull /\ pull.snap \notin inbox
    BY <1>1, <1>3, <2>1, <2>2 DEF FaceInv
  <2>3. ASSUME NEW t \in Snapshots, Edit(t) PROVE FALSE
    BY <1>3, <2>1, <2>3 DEF Edit
  <2>4. ASSUME NEW state \in {"closed", "merged"}, Close(state) PROVE FALSE
    BY <1>3, <2>1, <2>4 DEF Close
  <2>5. ~Reopen /\ ~LoseEvent
    BY DEF Reopen, LoseEvent, Forwards
  <2>6. ASSUME NEW s \in Snapshots, SyncEvent(s) PROVE pull' = pull /\ pull.snap \notin inbox
    BY <1>3, <2>6 DEF SyncEvent, SaveMerge, github
  <2>7. ASSUME UNCHANGED pull, FinishSync, op = "generate" \/ Project
        PROVE  outbox'[PendingStatus(pull'.snap)] # "absent"
    <3> SUFFICES ASSUME pull.snap \in inbox PROVE outbox'[PendingStatus(pull.snap)] # "absent"
      BY <2>2, <2>7
    <3>1. pull.snap = opSnap
      BY <1>3, <2>7 DEF FinishSync
    <3>2. CASE op = "generate"
      BY <1>1, <1>3, <2>1, <2>7, <3>1, <3>2 DEF FaceInv
    <3>3. CASE Project
      BY <1>3, <2>1, <2>7, <3>1, <3>3, PendingQueued DEF Project
    <3> QED BY <2>7, <3>2, <3>3
  <2>8. PullStep
    BY PullSteps DEF AnyStep
  <2> QED
    BY <1>3, <2>2, <2>3, <2>4, <2>5, <2>6, <2>7, <2>8 DEF PullStep
<1> QED BY <1>2, <1>3 DEF FaceInv

\* The answers of a verified snapshot stay.
LEMMA VerifiedNowStays ==
    ASSUME TypeOK, QuestionsInv, QuestionsInv', AnyStep, NEW s \in Snapshots, VerifiedNow(s)
    PROVE  VerifiedNow(s)'
<1> DEFINE r == [snap |-> s, qv |-> stored[s]]
<1>1. r \in Receipt /\ receipt[r] = "verified" /\ stored[s] \in QuestionSets
  BY DEF VerifiedNow, Receipt
<1>2. receipt'[r] = "verified"
  BY <1>1, VerifiedForEver
<1>3. stored'[s] = stored[s]
  BY <1>1, <1>2 DEF QuestionsInv, VerifiedQuestionsKept
<1> QED BY <1>1, <1>2, <1>3 DEF VerifiedNow

\* What set_status posts is of the current snapshot: a success once it is
\* verified, and its pending status before.
LEMMA PostedIsShown ==
    ASSUME TypeOK, NEW f \in batch, Allowed(f), Publish(f), NEW s \in Snapshots,
           s \in Triggered, current = s, NEW h \in Heads, latest'[h] # latest[h]
    PROVE  /\ latest'[h] = f
           /\ ~VerifiedNow(s) => f = PendingStatus(s)
           /\ VerifiedNow(s) => f = SuccessStatus([snap |-> s, qv |-> stored[s]])
<1>1. f \in Event /\ f.kind # "verifier_dispatch" /\ latest'[h] = f
  BY ConstantsAssumption DEF Publish, TypeOK
<1>3. f.snap = s
  BY DEF Allowed, StoreAllows
<1>4. f.kind # "neutral_status"
  BY <1>3 DEF Allowed, NotSuperseded
<1>5. CASE f.kind = "pending_status"
  <2>1. f = PendingStatus(s)
    BY <1>1, <1>3, <1>5 DEF PendingStatus, Event, SnapshotEvent, ReceiptEvent
  <2>2. ~VerifiedNow(s)
    BY <1>3, <1>5 DEF Allowed, NotSuperseded
  <2> QED BY <1>1, <1>3, <2>1, <2>2
<1>6. CASE f.kind = "success_status"
  <2>1. f \in ReceiptEvent /\ f.qv \in QuestionSets
    BY <1>1, <1>6 DEF Event, SnapshotEvent, ReceiptEvent
  <2>2. receipt[[snap |-> s, qv |-> f.qv]] = "verified" /\ stored[s] = f.qv
    BY <1>3, <1>6 DEF Allowed, StoreAllows, ReceiptCurrent, ReceiptOf
  <2>3. f = SuccessStatus([snap |-> s, qv |-> stored[s]])
    BY <1>3, <1>6, <2>1, <2>2 DEF SuccessStatus, ReceiptEvent
  <2> QED BY <1>1, <1>3, <2>1, <2>2, <2>3 DEF VerifiedNow
<1> QED BY <1>1, <1>4, <1>5, <1>6 DEF Event, SnapshotEvent, ReceiptEvent

\* What a delivery that is marked sent has read, if it did not publish.
LEMMA DeliveredOrPast ==
    ASSUME NEW rank, TypeOK, CurrentInv(rank), QuestionsInv, NEW e \in StatusEvent,
           Skip(e) \/ (Post /\ event = e),
           e.snap \in Triggered, e.kind # "neutral_status", TakenOn(rank, e.snap),
           e.kind = "success_status" => receipt[ReceiptOf(e)] = "verified"
    PROVE  \/ Past(rank, e.snap)
           \/ e.kind = "pending_status" /\ VerifiedNow(e.snap)
           \/ latest'[HeadSha[e.snap]] = e
<1>1. e \in Event /\ e.kind # "verifier_dispatch" /\ e.snap \in Snapshots
  BY DEF StatusEvent, Event, SnapshotEvent, ReceiptEvent
<1>2. CASE Post /\ event = e
  BY <1>1, <1>2, ConstantsAssumption DEF Post, Publish, TypeOK
<1>3. CASE Skip(e) /\ ~Past(rank, e.snap)
  <2>1. current = e.snap /\ pull.snap = e.snap /\ pull.state = "open"
    BY <1>1, <1>3, NoneAssumption DEF TakenOn, CurrentInv, Past
  <2>2. StoreAllows(e)
    <3>1. e.kind = "success_status" => ReceiptOf(e) \in Receipt /\ ReceiptOf(e).snap = e.snap
      BY DEF StatusEvent, Event, SnapshotEvent, ReceiptEvent, ReceiptOf, Receipt
    <3>2. e.kind = "success_status" => ReceiptCurrent(ReceiptOf(e))
      BY <2>1, <3>1 DEF ReceiptCurrent, QuestionsInv, VerifiedQuestionsKept
    <3> QED BY <1>1, <2>1, <3>2 DEF StoreAllows
  <2>3. PullCurrent(e.snap) /\ BindingCurrent(e.snap)
    BY <2>1 DEF PullCurrent, BindingCurrent
  <2>4. ~NotSuperseded(e)
    BY <1>3, <2>2, <2>3 DEF Skip, Agrees
  <2> QED BY <2>1, <2>4 DEF NotSuperseded
<1> QED BY <1>2, <1>3

\* What a head shows is kept by every step while its snapshot is not past.
LEMMA HeldNext ==
    ASSUME NEW rank \in [Snapshots -> Nat], Forwards(rank), TypeOK, TypeOK', HandInv,
           QuestionsInv, QuestionsInv', HeldOnlyTriggered, BudgetInv, CurrentInv(rank),
           QueuedInv(rank), HeldInv(rank), [Next]_vars
    PROVE  HeldInv(rank)'
<1> SUFFICES ASSUME NEW s \in Triggered, outbox'[PendingStatus(s)] = "sent"
             PROVE  Past(rank, s)' \/ VerifiedNow(s)' \/ latest'[HeadSha[s]] = PendingStatus(s)
  BY DEF HeldInv, PendingStatus
<1> DEFINE e == PendingStatus(s)
<1>1. /\ s \in Snapshots /\ e \in StatusEvent /\ e \in Event
      /\ e.snap = s /\ e.kind = "pending_status"
  BY ConstantsAssumption DEF PendingStatus, StatusEvent, Event, SnapshotEvent
<1>2. /\ Past(rank, s) => Past(rank, s)'
      /\ VerifiedNow(s) => VerifiedNow(s)'
  BY <1>1, PastStays, VerifiedNowStays DEF AnyStep
<1>3. CASE outbox[e] # "sent"
  <2>1. Skip(e) \/ (Post /\ event = e)
    BY <1>1, <1>3, NewlySent, QueueSteps DEF AnyStep
  <2>2. outbox[e] # "absent"
    BY <2>1 DEF Skip, Post, NextInBatch, InHand, BudgetInv
  <2> QED BY <1>1, <1>2, <2>1, <2>2, DeliveredOrPast DEF QueuedInv
<1>4. CASE outbox[e] = "sent" /\ ~Past(rank, s) /\ ~VerifiedNow(s)
  <2>1. latest[HeadSha[s]] = e
    BY <1>4 DEF HeldInv
  <2>2. current = s
    BY <1>1, <1>4 DEF QueuedInv, TakenOn
  <2>3. ASSUME op = "post", Publish(event), latest'[HeadSha[s]] # latest[HeadSha[s]]
        PROVE  latest'[HeadSha[s]] = e
    <3>1. event \in batch /\ Allowed(event)
      BY <2>3 DEF HandInv, Allowed
    <3>2. HeadSha[s] \in Heads
      BY <1>1, ConstantsAssumption
    <3> QED BY <1>1, <1>4, <2>2, <2>3, <3>1, <3>2, PostedIsShown
  <2> QED BY <2>1, <2>3, StatusSteps DEF StatusStep, AnyStep
<1> QED BY <1>2, <1>3, <1>4 DEF HeldInv

\* The same of a success.
LEMMA OpenNext ==
    ASSUME NEW rank \in [Snapshots -> Nat], Forwards(rank), TypeOK, TypeOK', HandInv,
           QuestionsInv, HeldOnlyTriggered, BudgetInv, CurrentInv(rank), QueuedInv(rank),
           OpenInv(rank), [Next]_vars
    PROVE  OpenInv(rank)'
<1> SUFFICES ASSUME NEW r \in Receipt, outbox'[SuccessStatus(r)] = "sent"
             PROVE  Past(rank, r.snap)' \/ latest'[HeadSha[r.snap]] = SuccessStatus(r)
  BY DEF OpenInv, SuccessStatus
<1> DEFINE e == SuccessStatus(r)
           s == r.snap
<1>1. /\ s \in Snapshots /\ e \in StatusEvent /\ e \in Event /\ ReceiptOf(e) = r
      /\ e.snap = s /\ e.kind = "success_status"
  BY DEF SuccessStatus, StatusEvent, Event, ReceiptEvent, Receipt, ReceiptOf
<1>2. Past(rank, s) => Past(rank, s)'
  BY <1>1, PastStays DEF AnyStep
<1>3. ASSUME receipt[r] = "verified"
      PROVE  s \in Triggered /\ VerifiedNow(s) /\ r = [snap |-> s, qv |-> stored[s]]
  BY <1>3 DEF QuestionsInv, VerifiedQuestionsKept, VerifiedNow, Receipt
<1>4. CASE outbox[e] # "sent"
  <2>1. Skip(e) \/ (Post /\ event = e)
    BY <1>1, <1>4, NewlySent, QueueSteps DEF AnyStep
  <2>2. outbox[e] # "absent"
    BY <2>1 DEF Skip, Post, NextInBatch, InHand, BudgetInv
  <2>3. receipt[ReceiptOf(e)] = "verified" /\ TakenOn(rank, s)
    BY <1>1, <2>2 DEF QueuedInv
  <2> QED BY <1>1, <1>2, <1>3, <2>1, <2>3, DeliveredOrPast
<1>5. CASE outbox[e] = "sent" /\ ~Past(rank, s)
  <2>1. latest[HeadSha[s]] = e
    BY <1>5 DEF OpenInv
  <2>2. current = s /\ receipt[r] = "verified"
    BY <1>1, <1>5 DEF QueuedInv, TakenOn
  <2>3. ASSUME op = "post", Publish(event), latest'[HeadSha[s]] # latest[HeadSha[s]]
        PROVE  latest'[HeadSha[s]] = e
    <3>1. event \in batch /\ Allowed(event)
      BY <2>3 DEF HandInv, Allowed
    <3>2. HeadSha[s] \in Heads
      BY <1>1, ConstantsAssumption
    <3> QED BY <1>1, <1>3, <1>5, <2>2, <2>3, <3>1, <3>2, PostedIsShown
  <2> QED BY <2>1, <2>3, StatusSteps DEF StatusStep, AnyStep
<1> QED BY <1>2, <1>4, <1>5

\* The inductive invariant holds at all times.
THEOREM SettleCorrect ==
    ASSUME NEW rank \in [Snapshots -> Nat], Forwards(rank)
    PROVE  Spec => []SettleInv(rank)
<1>1. Init => SettleInv(rank)
  <2> SUFFICES ASSUME Init PROVE SettleInv(rank)
    OBVIOUS
  <2>1. \A e \in Event : outbox[e] = "absent"
    BY DEF Init
  <2>2. /\ \A s \in Snapshots : PendingStatus(s) \in Event
        /\ \A r \in Receipt : SuccessStatus(r) \in Event
    BY DEF PendingStatus, SuccessStatus, Event, SnapshotEvent, ReceiptEvent, Receipt
  <2>3. CurrentInv(rank) /\ FaceInv
    BY DEF Init, CurrentInv, FaceInv
  <2>4. QueuedInv(rank)
    BY <2>1 DEF QueuedInv, StatusEvent
  <2> QED
    BY <2>1, <2>2, <2>3, <2>4, ConstantsAssumption DEF SettleInv, HeldInv, OpenInv
<1>2. /\ TypeOK /\ TypeOK' /\ HandInv
      /\ QuestionsInv /\ QuestionsInv' /\ HeldOnlyTriggered /\ BudgetInv
      /\ SettleInv(rank) /\ [Next]_vars
      => SettleInv(rank)'
  <2> SUFFICES ASSUME TypeOK, TypeOK', HandInv, QuestionsInv, QuestionsInv',
                      HeldOnlyTriggered, BudgetInv, SettleInv(rank), [Next]_vars
               PROVE  SettleInv(rank)'
    OBVIOUS
  <2>1. CurrentInv(rank)' /\ QueuedInv(rank)'
    BY CurrentNext, QueuedNext DEF SettleInv, AnyStep
  <2>2. FaceInv'
    BY ShownNext DEF SettleInv
  <2>3. HeldInv(rank)' /\ OpenInv(rank)'
    BY HeldNext, OpenNext DEF SettleInv
  <2> QED BY <2>1, <2>2, <2>3 DEF SettleInv
<1> QED
  BY <1>1, <1>2, TypeCorrect, HandCorrect, QuestionsCorrect, HeldAreTriggered, BudgetCorrect, PTL
     DEF Spec

\* Once nothing is on its way any more, the head of a change that waits for its
\* author shows pending, whatever was retried, repeated or cut off on the way.
THEOREM SettledIsHeld ==
    ASSUME NEW rank \in [Snapshots -> Nat], Forwards(rank)
    PROVE  Spec => []SettledHeld
<1>1. TypeOK /\ SettleInv(rank) => SettledHeld
  <2> SUFFICES ASSUME TypeOK, SettleInv(rank), Settled, current \in Triggered, ~VerifiedNow(current)
               PROVE  latest[HeadSha[current]] = PendingStatus(current)
    BY DEF SettledHeld
  <2>1. /\ current \in Snapshots /\ PendingStatus(current) \in StatusEvent
        /\ PendingStatus(current) \in Event
    BY ConstantsAssumption DEF PendingStatus, StatusEvent, Event, SnapshotEvent
  <2>2. outbox[PendingStatus(current)] = "sent"
    BY <2>1 DEF Settled, SettleInv, FaceInv, TypeOK, OutboxStatus
  <2>3. ~Past(rank, current)
    BY <2>1 DEF Settled, Past
  <2> QED BY <2>2, <2>3 DEF SettleInv, HeldInv
<1>2. Spec => []SettleInv(rank)
  BY SettleCorrect
<1> QED BY <1>1, <1>2, TypeCorrect, PTL

\* And the head of a change whose author has answered shows its success.
THEOREM SettledIsOpen ==
    ASSUME NEW rank \in [Snapshots -> Nat], Forwards(rank)
    PROVE  Spec => []SettledOpen
<1>1. TypeOK /\ HandoverQueued /\ SettleInv(rank) => SettledOpen
  <2> SUFFICES ASSUME TypeOK, HandoverQueued, SettleInv(rank), Settled, current \in Triggered,
                      VerifiedNow(current)
               PROVE  latest[HeadSha[current]]
                        = SuccessStatus([snap |-> current, qv |-> stored[current]])
    BY DEF SettledOpen
  <2> DEFINE r == [snap |-> current, qv |-> stored[current]]
  <2>1. r \in Receipt /\ r.snap = current /\ receipt[r] = "verified"
    BY ConstantsAssumption DEF VerifiedNow, Receipt
  <2>2. SuccessStatus(r) \in StatusEvent /\ SuccessStatus(r) \in Event
    BY <2>1 DEF SuccessStatus, StatusEvent, Event, ReceiptEvent, Receipt
  <2>3. outbox[SuccessStatus(r)] = "sent"
    BY <2>1, <2>2 DEF Settled, HandoverQueued, TypeOK, OutboxStatus
  <2>4. ~Past(rank, current)
    BY <2>1 DEF Settled, Past, Receipt
  <2> HIDE DEF r
  <2> QED BY <2>1, <2>3, <2>4 DEF SettleInv, OpenInv, r
<1>2. Spec => []SettleInv(rank)
  BY SettleCorrect
<1> QED BY <1>1, <1>2, TypeCorrect, HandoverIsQueued, PTL

\* A merge that was measured stays measured by the same snapshot, whichever event
\* of the closing comes again, late, or around a manual sync (record_merge).
THEOREM MeasureStays == Spec => MeasureKept
<1>1. ASSUME Next, merge \in Snapshots PROVE merge' = merge
  <2> USE DEF github, relay, tables, queue, delivery, lock
  <2>1. CASE Author
    BY <2>1 DEF Author, Edit, Submit, Reopen, Close
  <2>2. CASE Operator
    BY <1>1, <2>2 DEF Operator, ManualSync, SaveSnapshot, SaveMerge, Rerun
  <2>3. CASE Relay
    BY <1>1, <2>3 DEF Relay, SyncEvent, SaveSnapshot, ClosedEvent, SaveMerge, Verify,
                      VerifyReceipt, RunEnds, Mark, CheckContent, VerifyRefused,
                      MarkVerified
  <2>4. CASE Sync
    BY <2>4 DEF Sync, Announce, Generate, GenerateFails, GenerateStale, Project, ProjectClosed,
                FinishSync, NoLock
  <2>5. CASE Grade
    BY <2>5 DEF Grade, StartJob, PassJob, EndJob, ExpireJob
  <2>6. CASE Flush
    BY <2>6 DEF Flush, FlushStart, PublicationStatus, Deliver, Look, Agree, Skip, Post,
                DeliveryFails, RestoreFails, FlushAborts
  <2>7. CASE Environment
    BY <2>7 DEF Environment, LoseEvent, Elapse, CrashAfterPublish, Crash, Restart, NoLock
  <2> QED BY <1>1, <2>1, <2>2, <2>3, <2>4, <2>5, <2>6, <2>7 DEF Next
<1> QED BY <1>1, PTL DEF Spec, MeasureKept
===============================================================================
