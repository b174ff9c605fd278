---------------------------- MODULE BackgroundJobs ----------------------------
(***************************************************************************)
(* The background jobs of the web application and the Actions runs that    *)
(* submit and poll them, for one pull request.                             *)
(*                                                                         *)
(* A workflow run posts an event and polls the job it is given until the   *)
(* job ends.  AppRuntime keeps jobs in memory under one key per request, a *)
(* bounded table whose ended jobs stay for half an hour, and runs them on  *)
(* one thread.  Of the service only the content it last saved matters      *)
(* here; BotService has the rest.                                          *)
(***************************************************************************)
EXTENDS Naturals, Sequences, FiniteSets, Functions

CONSTANTS
    Contents,       \* what the pull request may show: head, base, title, labels
    Heads, HeadOf,  \* the head of each content
    EditTo,         \* the edits of the author
    Runs,           \* workflow runs
    MaxJobs,        \* _MAX_EVENT_JOBS
    MaxPosts,       \* attempts of a POST, 3 in the code
    MaxResubmits,   \* _MAX_JOB_RESUBMITS
    MayReopen,      \* whether a closed pull request is opened again
    MaxManual,      \* bound on the syncs asked for by people
    MaxFaults,      \* bound on crashes, failed calls and lost answers
    None

ASSUME JobsAssumption ==
    /\ HeadOf \in [Contents -> Heads]
    /\ EditTo \subseteq Contents \X Contents
    /\ {MaxJobs, MaxPosts} \subseteq Nat \ {0}
    /\ {MaxResubmits, MaxManual, MaxFaults} \subseteq Nat
    /\ MayReopen \in BOOLEAN
    /\ None \notin Contents

VARIABLES
    pull,       \* the pull request on GitHub
    seen,       \* the content the service saved last, its current snapshot
    runs,       \* workflow runs
    jobs,       \* AppRuntime._jobs, ids in order of creation
    keys,       \* AppRuntime._job_keys
    queue,      \* ids submitted to the executor
    worker,     \* what the executor's thread is doing
    nextId,     \* the id of the next job; a restart does not repeat ids
    broken,     \* jobs whose future holds an exception that nobody reads
    expired,    \* every job up to this id has lived for _JOB_TTL_SECONDS
    manual, faults

server == <<jobs, keys, queue, worker, nextId, broken>>
vars == <<pull, seen, runs, server, expired, manual, faults>>

-------------------------------------------------------------------------------
\* The key of a job names all it does.
SyncRequest(c) == [kind |-> "sync_event", of |-> c]
VerifyRequest(c) == [kind |-> "receipt_verify", of |-> c]
ClosedRequest(h) == [kind |-> "closed_event", of |-> h]
ManualRequest == [kind |-> "manual_sync", of |-> None]
Request ==
    {SyncRequest(c) : c \in Contents} \cup {VerifyRequest(c) : c \in Contents}
      \cup {ClosedRequest(h) : h \in Heads} \cup {ManualRequest}

Failed == {"conflict", "error", "stale"}
Terminal == Failed \cup {"completed"}

Job == [req : Request, state : {"queued", "running"} \cup Terminal, owners : SUBSET Runs]

Run == [state : {"off", "fired", "submitting", "polling", "passed", "failed"},
        req : Request \cup {None}, job : Nat, tries : Nat, resubmits : Nat]

OffRun == [state |-> "off", req |-> None, job |-> 0, tries |-> 0, resubmits |-> 0]
FiredRun == [OffRun EXCEPT !.state = "fired"]
Submitting(req) == [OffRun EXCEPT !.state = "submitting", !.req = req, !.tries = MaxPosts]
Ended(run, state) == [OffRun EXCEPT !.state = state, !.req = run.req]

NoWork == [job |-> 0, result |-> "none", content |-> None]
Work == [job : Nat, result : {"none"} \cup Terminal, content : Contents \cup {None}]

-------------------------------------------------------------------------------
\* The table of jobs.

\* What _purge_jobs_locked leaves.
Kept == {i \in DOMAIN jobs : i > expired \/ jobs[i].state \notin Terminal}

KeysWithout(gone) == Restrict(keys, DOMAIN keys \ {jobs[i].req : i \in gone})

Purge ==
    /\ jobs' = Restrict(jobs, Kept)
    /\ keys' = KeysWithout(DOMAIN jobs \ Kept)

ShouldReplace(i) ==
    /\ jobs[i].state \in Terminal
    /\ jobs[i].req.kind = "manual_sync" \/ jobs[i].state \in Failed

\* Mutant: the oldest job makes room, whether it has ended or not.
OldestVictims(ids) ==
    {i \in ids : Cardinality(ids) >= MaxJobs /\ \A k \in ids : i <= k}

\* _trim_terminal_jobs_locked: the oldest ended job makes room.
Victims(ids) ==
    LET terminal == {i \in ids : jobs[i].state \in Terminal}
    IN {i \in terminal : Cardinality(ids) >= MaxJobs /\ \A k \in terminal : i <= k}

\* The job that answers req without a new one.
Reusable(req) ==
    {i \in Kept : req \in DOMAIN keys /\ keys[req] = i /\ ~ShouldReplace(i)}

\* The jobs that stay beside a new one for req.
Staying(req) ==
    LET others == {i \in Kept : ~(req \in DOMAIN keys /\ keys[req] = i)}
    IN others \ Victims(others)

Room(req) == Cardinality(Staying(req)) < MaxJobs

\* Mutant: the run that finds a job is not let in to poll it.
ReuseSilently(i, who) ==
    /\ Purge
    /\ UNCHANGED <<queue, nextId>>

\* _record_equivalent_actions_owner
Reuse(i, who) ==
    /\ jobs' = [Restrict(jobs, Kept) EXCEPT ![i].owners = @ \cup who]
    /\ keys' = KeysWithout(DOMAIN jobs \ Kept)
    /\ UNCHANGED <<queue, nextId>>

Create(req, who) ==
    LET rest == KeysWithout(DOMAIN jobs \ Staying(req))
    IN /\ jobs' = [i \in Staying(req) \cup {nextId} |->
                      IF i = nextId THEN [req |-> req, state |-> "queued", owners |-> who]
                      ELSE jobs[i]]
       /\ keys' = [k \in DOMAIN rest \cup {req} |-> IF k = req THEN nextId ELSE rest[k]]
       /\ queue' = Append(queue, nextId)
       /\ nextId' = nextId + 1

\* _enqueue_job: job i answers req, submitted by who.
Enqueue(req, who, i) ==
    /\ \/ i \in Reusable(req) /\ Reuse(i, who)
       \/ Reusable(req) = {} /\ Room(req) /\ i = nextId /\ Create(req, who)
    /\ UNCHANGED <<worker, broken>>

\* _enqueue_job answers 503: every job of a full table is queued or running.
Refuse(req) ==
    /\ Reusable(req) = {}
    /\ ~Room(req)
    /\ Purge
    /\ UNCHANGED <<queue, worker, nextId, broken>>

-------------------------------------------------------------------------------
TypeOK ==
    /\ pull \in [snap : Contents, open : BOOLEAN]
    /\ seen \in Contents \cup {None}
    /\ runs \in [Runs -> Run]
    /\ \A r \in Runs : runs[r].state \in {"submitting", "polling"} => runs[r].req \in Request
    /\ nextId \in Nat \ {0}
    /\ DOMAIN jobs \subseteq 1..(nextId - 1)
    /\ jobs \in [DOMAIN jobs -> Job]
    /\ DOMAIN keys \subseteq Request
    /\ keys \in [DOMAIN keys -> Nat]
    /\ queue \in Seq(Nat)
    /\ worker \in Work
    /\ broken \subseteq Nat
    /\ expired \in Nat
    /\ manual \in Nat
    /\ faults \in Nat

\* The pull request has just been opened, which fires a run.
Init ==
    /\ \E c \in Contents, r \in Runs :
           /\ pull = [snap |-> c, open |-> TRUE]
           /\ runs = [x \in Runs |-> IF x = r THEN FiredRun ELSE OffRun]
    /\ seen = None
    /\ jobs = <<>>
    /\ keys = <<>>
    /\ queue = <<>>
    /\ worker = NoWork
    /\ nextId = 1
    /\ broken = {}
    /\ expired = 0
    /\ manual = 0
    /\ faults = 0

CountFault == faults < MaxFaults /\ faults' = faults + 1

-------------------------------------------------------------------------------
\* The pull request, and the runs it fires.

Fire(r, run) == runs[r] = OffRun /\ runs' = [runs EXCEPT ![r] = run]

Edit(c, r) ==
    /\ pull.open
    /\ <<pull.snap, c>> \in EditTo
    /\ pull' = [pull EXCEPT !.snap = c]
    /\ Fire(r, FiredRun)
    /\ UNCHANGED <<seen, server, expired, manual, faults>>

Close(r) ==
    /\ pull.open
    /\ pull' = [pull EXCEPT !.open = FALSE]
    /\ Fire(r, Submitting(ClosedRequest(HeadOf[pull.snap])))
    /\ UNCHANGED <<seen, server, expired, manual, faults>>

Reopen(r) ==
    /\ MayReopen
    /\ ~pull.open
    /\ pull' = [pull EXCEPT !.open = TRUE]
    /\ Fire(r, FiredRun)
    /\ UNCHANGED <<seen, server, expired, manual, faults>>

\* The service dispatches a verification of a receipt for its current snapshot.
Dispatch(r) ==
    /\ seen # None
    /\ Fire(r, Submitting(VerifyRequest(seen)))
    /\ UNCHANGED <<pull, seen, server, expired, manual, faults>>

\* The run reads the pull request itself and binds its event to what it shows.
ReadBinding(r) ==
    /\ runs[r].state = "fired"
    /\ runs' = [runs EXCEPT ![r] = Submitting(SyncRequest(pull.snap))]
    /\ UNCHANGED <<pull, seen, server, expired, manual, faults>>

-------------------------------------------------------------------------------
\* The relay client in a run.

\* _submit_actions_job
Submit(r) ==
    /\ runs[r].state = "submitting"
    /\ \E i \in 1..nextId :
           /\ Enqueue(runs[r].req, {r}, i)
           /\ runs' = [runs EXCEPT ![r].state = "polling", ![r].job = i]
    /\ UNCHANGED <<pull, seen, expired, manual, faults>>

\* A POST without a good answer is tried again, if a try is left.
TryAgain(r) ==
    runs' = IF runs[r].tries > 1 THEN [runs EXCEPT ![r].tries = @ - 1]
            ELSE [runs EXCEPT ![r] = Ended(@, "failed")]

SubmitRefused(r) ==
    /\ runs[r].state = "submitting"
    /\ Refuse(runs[r].req)
    /\ TryAgain(r)
    /\ UNCHANGED <<pull, seen, expired, manual, faults>>

\* A timeout: the POST got through, and its answer did not, or neither did.
SubmitLost(r) ==
    /\ runs[r].state = "submitting"
    /\ CountFault
    /\ \/ \E i \in 1..nextId : Enqueue(runs[r].req, {r}, i)
       \/ UNCHANGED server
    /\ TryAgain(r)
    /\ UNCHANGED <<pull, seen, expired, manual>>

\* Mutant: any job that has ended will do.
PollEnded(r) ==
    /\ runs[r].state = "polling"
    /\ runs[r].job \in Kept
    /\ jobs[runs[r].job].state \in Terminal
    /\ runs' = [runs EXCEPT ![r] = Ended(@, "passed")]
    /\ Purge
    /\ UNCHANGED <<pull, seen, queue, worker, nextId, broken, expired, manual, faults>>

\* _poll_actions_job and action_job_payload, on a job that is there.
PollAnswered(r) ==
    /\ runs[r].state = "polling"
    /\ runs[r].job \in Kept
    /\ LET job == jobs[runs[r].job]
       IN \/ /\ job.state = "completed"
             /\ r \in job.owners
             /\ runs' = [runs EXCEPT ![r] = Ended(@, "passed")]
          \/ /\ job.state \in Failed \/ r \notin job.owners
             /\ runs' = [runs EXCEPT ![r] = Ended(@, "failed")]
    /\ Purge
    /\ UNCHANGED <<pull, seen, queue, worker, nextId, broken, expired, manual, faults>>

\* The job is gone, with a restart or its time: the run submits its event again.
PollMissing(r) ==
    /\ runs[r].state = "polling"
    /\ runs[r].job \notin Kept
    /\ \/ /\ runs[r].resubmits < MaxResubmits
          /\ runs' = [runs EXCEPT ![r].state = "submitting", ![r].tries = 1,
                                  ![r].resubmits = @ + 1]
       \/ /\ runs[r].resubmits >= MaxResubmits
          /\ runs' = [runs EXCEPT ![r] = Ended(@, "failed")]
    /\ Purge
    /\ UNCHANGED <<pull, seen, queue, worker, nextId, broken, expired, manual, faults>>

\* The deadline of three minutes, or a call that fails for good.
RunFails(r) ==
    /\ runs[r].state \in {"fired", "submitting", "polling"}
    /\ runs' = [runs EXCEPT ![r] = Ended(@, "failed")]
    /\ UNCHANGED <<pull, seen, server, expired, manual, faults>>

-------------------------------------------------------------------------------
\* The web application.

\* /prs/<pr>/sync
ManualSync ==
    /\ manual < MaxManual
    /\ manual' = manual + 1
    /\ \/ \E i \in 1..nextId : Enqueue(ManualRequest, {}, i)
       \/ Refuse(ManualRequest)
    /\ UNCHANGED <<pull, seen, runs, expired, faults>>

\* tick_once, from the scheduler or after a job.
Tick ==
    /\ Kept # DOMAIN jobs
    /\ Purge
    /\ UNCHANGED <<pull, seen, runs, queue, worker, nextId, broken, expired, manual, faults>>

\* _run_job takes the next job of the executor.
StartJob ==
    /\ worker = NoWork
    /\ queue # <<>>
    /\ jobs' = [jobs EXCEPT ![Head(queue)].state = "running"]
    /\ worker' = [NoWork EXCEPT !.job = Head(queue)]
    /\ queue' = Tail(queue)
    /\ UNCHANGED <<pull, seen, runs, keys, nextId, broken, expired, manual, faults>>

\* What the service makes of a pull request it finds closed.
ReadClosed(req) ==
    /\ ~pull.open
    /\ UNCHANGED seen
    /\ worker' = [worker EXCEPT !.result =
                     IF req.kind = "closed_event" /\ HeadOf[pull.snap] # req.of
                     THEN "conflict" ELSE
                     IF req.kind = "receipt_verify" THEN "stale" ELSE "completed"]

\* What it makes of an open one.
ReadOpen(req) ==
    /\ pull.open
    /\ \/ /\ req.kind = "manual_sync" \/ req = SyncRequest(pull.snap)
          /\ seen' = pull.snap
          /\ worker' = [worker EXCEPT !.result = "completed", !.content = pull.snap]
       \/ /\ req.kind = "sync_event" /\ req.of # pull.snap
          /\ UNCHANGED seen
          /\ worker' = [worker EXCEPT !.result = "stale"]
       \/ /\ req.kind = "closed_event"
          /\ UNCHANGED seen
          /\ worker' = [worker EXCEPT !.result =
                           IF HeadOf[pull.snap] = req.of THEN "error" ELSE "conflict"]
       \/ /\ req.kind = "receipt_verify"
          /\ UNCHANGED seen
          /\ worker' = [worker EXCEPT !.result =
                           IF {seen, pull.snap} = {req.of} THEN "completed" ELSE "stale"]

\* The service reads the pull request for a job, and saves what it read.
ReadPull ==
    /\ worker.job # 0
    /\ worker.result = "none"
    /\ LET req == jobs[worker.job].req IN ReadClosed(req) \/ ReadOpen(req)
    /\ UNCHANGED <<pull, runs, jobs, keys, queue, nextId, broken, expired, manual, faults>>

\* The job ends as it was read, or is stale after the model's call when the
\* pull request got another head or was closed.
FinishJob ==
    /\ worker.result # "none"
    /\ \E result \in Terminal :
           /\ \/ result = worker.result
              \/ /\ result = "stale"
                 /\ worker.content # None
                 /\ ~pull.open \/ HeadOf[pull.snap] # HeadOf[worker.content]
           /\ jobs' = [jobs EXCEPT ![worker.job].state = result]
    /\ worker' = NoWork
    /\ UNCHANGED <<pull, seen, runs, keys, queue, nextId, broken, expired, manual, faults>>

\* Mutant: the error is left in the future.
JobFailsSilently ==
    /\ worker.job # 0
    /\ CountFault
    /\ worker' = NoWork
    /\ UNCHANGED <<pull, seen, runs, jobs, keys, queue, nextId, broken, expired, manual>>

\* GitHub, the model or the disk fails, before or after the read.
JobFails ==
    /\ worker.job # 0
    /\ CountFault
    /\ jobs' = [jobs EXCEPT ![worker.job].state = "error"]
    /\ worker' = NoWork
    /\ UNCHANGED <<pull, seen, runs, keys, queue, nextId, broken, expired, manual>>

\* An sqlite3.Error is caught by no clause of _run_job and ends in the future,
\* which only drain_events reads.
StorageError ==
    /\ worker.job # 0
    /\ CountFault
    /\ broken' = broken \cup {worker.job}
    /\ worker' = NoWork
    /\ UNCHANGED <<pull, seen, runs, jobs, keys, queue, nextId, expired, manual>>

-------------------------------------------------------------------------------
\* Time and crashes.

Age ==
    /\ expired < nextId - 1
    /\ expired' = expired + 1
    /\ UNCHANGED <<pull, seen, runs, server, manual, faults>>

Restart ==
    /\ CountFault
    /\ jobs' = <<>>
    /\ keys' = <<>>
    /\ queue' = <<>>
    /\ worker' = NoWork
    /\ broken' = {}
    /\ UNCHANGED <<pull, seen, runs, nextId, expired, manual>>

-------------------------------------------------------------------------------
Relay(r) == \/ ReadBinding(r)
            \/ Submit(r)
            \/ SubmitRefused(r)
            \/ PollAnswered(r)
            \/ PollMissing(r)
GitHub(r) == \/ \E c \in Contents : Edit(c, r)
             \/ Close(r)
             \/ Reopen(r)
             \/ Dispatch(r)
             \/ SubmitLost(r)
             \/ RunFails(r)
Executor == StartJob \/ ReadPull \/ FinishJob
Environment == ManualSync \/ Tick \/ JobFails \/ StorageError \/ Age \/ Restart

Next == \/ \E r \in Runs : Relay(r) \/ GitHub(r)
        \/ Executor
        \/ Environment

Spec == Init /\ [][Next]_vars

\* A run goes on until it has its answer; the executor's thread takes the next
\* job when it is free, and the calls of a job return or fail.
Fairness ==
    /\ WF_vars(Executor)
    /\ \A r \in Runs : WF_vars(Relay(r))

FairSpec == Spec /\ Fairness

-------------------------------------------------------------------------------
(***************************************************************************)
(* What the jobs promise.                                                  *)
(***************************************************************************)

\* The two dictionaries agree, so that a request has one job at most: nothing
\* that purges, replaces, trims or reuses a job leaves a key to a job that is
\* gone, or a job that its key does not find.
KeysMatchJobs ==
    /\ \A k \in DOMAIN keys : keys[k] \in DOMAIN jobs /\ jobs[keys[k]].req = k
    /\ \A i \in DOMAIN jobs : jobs[i].req \in DOMAIN keys /\ keys[jobs[i].req] = i

\* The table never holds more than _MAX_EVENT_JOBS jobs.
TableBounded == Cardinality(DOMAIN jobs) <= MaxJobs

\* The executor and the table agree: the queued jobs are those the executor has
\* still to take, once each, in order, and the running ones are the one it has
\* and those a storage error broke off.
ExecutorMatchesJobs ==
    /\ {i \in DOMAIN jobs : jobs[i].state = "queued"} = Range(queue)
    /\ {i \in DOMAIN jobs : jobs[i].state = "running"} = ({worker.job} \ {0}) \cup broken
    /\ \A m, n \in DOMAIN queue : m < n => queue[m] < queue[n]

\* A run polls a job of its own request and may read it, whoever created it and
\* whatever was purged or forgotten since.
PollersOwnTheirJob ==
    \A r \in Runs : runs[r].state = "polling" /\ runs[r].job \in DOMAIN jobs =>
        jobs[runs[r].job].req = runs[r].req /\ r \in jobs[runs[r].job].owners

\* Only the end of the process takes a job that has not ended.
ActiveStay ==
    \A i \in DOMAIN jobs : jobs[i].state \notin Terminal =>
        \/ i \in DOMAIN jobs'
        \/ (DOMAIN jobs' = {} /\ worker' = NoWork)
ActiveJobsKept == [][ActiveStay]_vars

\* A run that passed for what the open pull request shows tells the truth: the
\* service saved that content last.
PassedRunsAreSeen ==
    \A r \in Runs :
        runs[r].state = "passed" /\ pull.open /\ runs[r].req = SyncRequest(pull.snap)
        => seen = pull.snap

\* A run gets an answer, through refusals and restarts; only a run whose job
\* was broken off by a storage error has to wait for its deadline.
RunsEnd ==
    \A r \in Runs :
        runs[r].state \in {"fired", "submitting", "polling"}
        ~> \/ runs[r].state \in {"passed", "failed"}
           \/ runs[r].state = "polling" /\ runs[r].job \in broken

\* A job that was accepted ends, whatever fails within it, and in its turn; only
\* a storage error breaks it off, and then nothing but a restart ends it.
JobsEnd ==
    \A k \in Request :
        k \in DOMAIN keys /\ jobs[keys[k]].state \in {"queued", "running"}
        ~> \/ k \notin DOMAIN keys
           \/ jobs[keys[k]].state \in Terminal
           \/ keys[k] \in broken
===============================================================================
