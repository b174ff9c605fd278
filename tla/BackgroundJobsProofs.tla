------------------------- MODULE BackgroundJobsProofs -------------------------
(***************************************************************************)
(* What TLAPS proves of BackgroundJobs.                                    *)
(***************************************************************************)
EXTENDS BackgroundJobs, FiniteSetTheorems, TLAPS

USE JobsAssumption

\* The requests of runs and people are keys the table may hold.
LEMMA RequestsKnown ==
    /\ \A c \in Contents : SyncRequest(c) \in Request /\ VerifyRequest(c) \in Request
    /\ \A h \in Heads : ClosedRequest(h) \in Request
    /\ ManualRequest \in Request
BY DEF Request

\* Every step leaves the server alone, purges its table, enqueues a request, or
\* is one of the executor or of a crash.
ServerStep ==
    \/ UNCHANGED server
    \/ Purge /\ UNCHANGED <<queue, worker, nextId, broken>>
    \/ \E req \in Request, who \in SUBSET Runs, i \in Nat : Enqueue(req, who, i)
    \/ StartJob
    \/ ReadPull
    \/ FinishJob
    \/ JobFails
    \/ StorageError
    \/ Restart

\* What the runs submit are requests the server knows.
LEMMA ServerSteps == TypeOK /\ [Next]_vars => ServerStep
<1> SUFFICES ASSUME TypeOK, [Next]_vars PROVE ServerStep
  OBVIOUS
<1>1. CASE UNCHANGED vars
  BY <1>1 DEF vars, server, ServerStep
<1>2. ASSUME NEW r \in Runs, Relay(r) PROVE ServerStep
  <2>1. CASE ReadBinding(r) \/ SubmitRefused(r) \/ PollAnswered(r) \/ PollMissing(r)
    BY <2>1 DEF ReadBinding, SubmitRefused, Refuse, PollAnswered, PollMissing, server,
                ServerStep
  <2>2. CASE Submit(r)
    <3>1. PICK i \in 1..nextId : Enqueue(runs[r].req, {r}, i)
      BY <2>2 DEF Submit
    <3>2. runs[r].req \in Request /\ {r} \in SUBSET Runs /\ i \in Nat
      BY <2>2 DEF Submit, TypeOK
    <3> QED
      BY <3>1, <3>2 DEF ServerStep
  <2> QED
    BY <1>2, <2>1, <2>2 DEF Relay
<1>3. ASSUME NEW r \in Runs, GitHub(r) PROVE ServerStep
  <2>1. CASE SubmitLost(r)
    <3>1. CASE UNCHANGED server
      BY <3>1 DEF ServerStep
    <3>2. CASE \E i \in 1..nextId : Enqueue(runs[r].req, {r}, i)
      <4>1. PICK i \in 1..nextId : Enqueue(runs[r].req, {r}, i)
        BY <3>2
      <4>2. runs[r].req \in Request /\ {r} \in SUBSET Runs /\ i \in Nat
        BY <2>1 DEF SubmitLost, TypeOK
      <4> QED
        BY <4>1, <4>2 DEF ServerStep
    <3> QED
      BY <2>1, <3>1, <3>2 DEF SubmitLost
  <2> QED
    BY <1>3, <2>1 DEF GitHub, Edit, Close, Reopen, Dispatch, RunFails, server, ServerStep
<1>4. CASE ManualSync
  <2>1. ASSUME NEW i \in 1..nextId, Enqueue(ManualRequest, {}, i) PROVE ServerStep
    <3>1. {} \in SUBSET Runs /\ i \in Nat
      BY DEF TypeOK
    <3> QED
      BY <2>1, <3>1, RequestsKnown DEF ServerStep
  <2> QED
    BY <1>4, <2>1 DEF ManualSync, Refuse, ServerStep
<1> QED
  BY <1>1, <1>2, <1>3, <1>4
  DEF Next, Executor, Environment, Tick, Age, server, ServerStep

-------------------------------------------------------------------------------
(***************************************************************************)
(* Types.                                                                  *)
(***************************************************************************)

\* The types of the server's variables.
ServerTypes ==
    /\ nextId \in Nat \ {0}
    /\ DOMAIN jobs \subseteq 1..(nextId - 1)
    /\ jobs \in [DOMAIN jobs -> Job]
    /\ DOMAIN keys \subseteq Request
    /\ keys \in [DOMAIN keys -> Nat]
    /\ queue \in Seq(Nat)
    /\ worker \in Work
    /\ broken \subseteq Nat

\* _enqueue_job keeps the types.
LEMMA EnqueueTypes ==
    ASSUME ServerTypes, NEW req \in Request, NEW who \in SUBSET Runs, NEW i \in Nat,
           Enqueue(req, who, i)
    PROVE  ServerTypes'
<1>1. CASE i \in Reusable(req) /\ Reuse(i, who)
  <2>1. jobs' \in [DOMAIN jobs' -> Job] /\ DOMAIN jobs' \subseteq DOMAIN jobs
    <3> DEFINE old == Restrict(jobs, Kept)
    <3>1. old \in [Kept -> Job] /\ Kept \subseteq DOMAIN jobs
      BY DEF Restrict, Kept, ServerTypes
    <3>2. jobs' = [old EXCEPT ![i].owners = @ \cup who]
      BY <1>1 DEF Reuse
    <3> HIDE DEF old
    <3>3. jobs' \in [Kept -> Job]
      BY <3>1, <3>2 DEF Job
    <3> QED
      BY <3>1, <3>3
  <2>2. keys' \in [DOMAIN keys' -> Nat] /\ DOMAIN keys' \subseteq DOMAIN keys
    BY <1>1 DEF Reuse, Restrict, KeysWithout, ServerTypes
  <2>3. UNCHANGED <<queue, nextId, worker, broken>>
    BY <1>1 DEF Reuse, Enqueue
  <2> QED
    BY <2>1, <2>2, <2>3 DEF ServerTypes
<1>2. CASE i = nextId /\ Create(req, who)
  <2>1. /\ jobs' \in [DOMAIN jobs' -> Job]
        /\ DOMAIN jobs' \subseteq DOMAIN jobs \cup {nextId}
    BY <1>2 DEF Create, Staying, Kept, ServerTypes, Job
  <2>2. /\ keys' \in [DOMAIN keys' -> Nat]
        /\ DOMAIN keys' \subseteq DOMAIN keys \cup {req}
    BY <1>2 DEF Create, Restrict, KeysWithout, ServerTypes
  <2>3. /\ queue' = Append(queue, nextId) /\ nextId' = nextId + 1
        /\ UNCHANGED <<worker, broken>>
    BY <1>2 DEF Create, Enqueue
  <2>4. queue' \in Seq(Nat) /\ nextId' \in Nat \ {0} /\ worker' \in Work
    BY <2>3 DEF ServerTypes
  <2>5. DOMAIN jobs' \subseteq 1..(nextId' - 1) /\ DOMAIN keys' \subseteq Request
    BY <2>1, <2>2, <2>3 DEF ServerTypes
  <2> QED
    BY <2>1, <2>2, <2>3, <2>4, <2>5 DEF ServerTypes
<1> QED
  BY <1>1, <1>2 DEF Enqueue

\* Every step of the server keeps the types.
LEMMA ServerTypesNext == TypeOK /\ [Next]_vars => ServerTypes'
<1> SUFFICES ASSUME TypeOK, [Next]_vars PROVE ServerTypes'
  OBVIOUS
<1>1. ServerStep /\ ServerTypes
  BY ServerSteps DEF TypeOK, ServerTypes
<1>2. CASE UNCHANGED server
  BY <1>1, <1>2 DEF server, ServerTypes
<1>3. CASE Purge /\ UNCHANGED <<queue, worker, nextId, broken>>
  <2>1. jobs' \in [DOMAIN jobs' -> Job] /\ DOMAIN jobs' \subseteq DOMAIN jobs
    BY <1>1, <1>3 DEF Purge, Restrict, Kept, ServerTypes
  <2>2. keys' \in [DOMAIN keys' -> Nat] /\ DOMAIN keys' \subseteq DOMAIN keys
    BY <1>1, <1>3 DEF Purge, Restrict, KeysWithout, ServerTypes
  <2> QED
    BY <1>1, <1>3, <2>1, <2>2 DEF ServerTypes
<1>4. ASSUME NEW state \in {"running"} \cup Terminal, NEW i,
             jobs' = [jobs EXCEPT ![i].state = state]
      PROVE  DOMAIN jobs' = DOMAIN jobs /\ jobs' \in [DOMAIN jobs' -> Job]
  BY <1>1, <1>4 DEF ServerTypes, Job
<1>5. CASE StartJob
  <2>1. Head(queue) \in Nat /\ Tail(queue) \in Seq(Nat)
    BY <1>1, <1>5 DEF StartJob, ServerTypes
  <2>2. worker' \in Work
    BY <1>5, <2>1 DEF StartJob, Work, NoWork
  <2> QED
    BY <1>1, <1>4, <1>5, <2>1, <2>2 DEF StartJob, ServerTypes
<1>6. CASE ReadPull
  <2>1. worker' \in Work
    BY <1>1, <1>6 DEF ReadPull, ReadClosed, ReadOpen, ServerTypes, TypeOK, Work, Terminal,
                      Failed
  <2> QED
    BY <1>1, <1>6, <2>1 DEF ReadPull, ServerTypes
<1>7. NoWork \in Work
  BY DEF NoWork, Work
<1>8. CASE FinishJob
  BY <1>1, <1>4, <1>7, <1>8 DEF FinishJob, ServerTypes
<1>9. CASE JobFails
  BY <1>1, <1>4, <1>7, <1>9 DEF JobFails, ServerTypes, Terminal, Failed
<1>10. CASE StorageError
  BY <1>1, <1>7, <1>10 DEF StorageError, ServerTypes, Work
<1>11. CASE Restart
  BY <1>1, <1>7, <1>11 DEF Restart, ServerTypes
<1> QED
  BY <1>1, <1>2, <1>3, <1>5, <1>6, <1>8, <1>9, <1>10, <1>11, EnqueueTypes DEF ServerStep

\* The types of the variables of the runs.
RunTypes ==
    /\ runs \in [Runs -> Run]
    /\ \A r \in Runs : runs[r].state \in {"submitting", "polling"} => runs[r].req \in Request

\* One run changes, and stays a run.
LEMMA RunChanges ==
    ASSUME RunTypes, NEW r \in Runs, NEW run \in Run, runs' = [runs EXCEPT ![r] = run],
           run.state \in {"submitting", "polling"} => run.req \in Request
    PROVE  RunTypes'
BY DEF RunTypes

\* Every step of a run keeps the types.
LEMMA RunTypesNext == TypeOK /\ [Next]_vars => RunTypes'
<1> SUFFICES ASSUME TypeOK, [Next]_vars PROVE RunTypes'
  OBVIOUS
<1>1. RunTypes
  BY DEF TypeOK, RunTypes
<1>2. CASE UNCHANGED runs
  BY <1>1, <1>2 DEF RunTypes
<1>3. FiredRun \in Run /\ FiredRun.state = "fired"
  BY DEF FiredRun, OffRun, Run
<1>4. ASSUME NEW req \in Request
      PROVE  Submitting(req) \in Run /\ Submitting(req).req \in Request
  BY <1>4 DEF Submitting, OffRun, Run
<1>5. ASSUME NEW r \in Runs, NEW state \in {"passed", "failed"}
      PROVE  Ended(runs[r], state) \in Run /\ Ended(runs[r], state).state = state
  BY <1>1 DEF Ended, OffRun, Run, RunTypes
<1>6. ASSUME NEW r \in Runs, Relay(r) PROVE RunTypes'
  <2>1. CASE ReadBinding(r)
    <3>1. SyncRequest(pull.snap) \in Request
      BY RequestsKnown DEF TypeOK
    <3> QED
      BY <1>1, <1>4, <2>1, <3>1, RunChanges DEF ReadBinding
  <2>2. CASE Submit(r)
    <3>1. PICK i \in 1..nextId : runs' = [runs EXCEPT ![r].state = "polling", ![r].job = i]
      BY <2>2 DEF Submit
    <3>2. i \in Nat /\ runs[r].state = "submitting"
      BY <2>2 DEF TypeOK, Submit
    <3> QED
      BY <1>1, <3>1, <3>2, ZenonT(60) DEF RunTypes, Run
  <2>3. CASE SubmitRefused(r)
    BY <1>1, <1>5, <2>3, RunChanges DEF SubmitRefused, TryAgain, RunTypes, Run
  <2>4. CASE PollAnswered(r)
    BY <1>1, <1>5, <2>4, RunChanges DEF PollAnswered
  <2>5. CASE PollMissing(r)
    <3>1. CASE runs' = [runs EXCEPT ![r] = Ended(@, "failed")]
      BY <1>1, <1>5, <3>1, RunChanges
    <3>2. CASE runs' = [runs EXCEPT ![r].state = "submitting", ![r].tries = 1,
                                    ![r].resubmits = @ + 1]
      BY <1>1, <2>5, <3>2 DEF PollMissing, RunTypes, Run
    <3> QED
      BY <2>5, <3>1, <3>2 DEF PollMissing
  <2> QED
    BY <1>6, <2>1, <2>2, <2>3, <2>4, <2>5 DEF Relay
<1>7. ASSUME NEW r \in Runs, GitHub(r) PROVE RunTypes'
  <2>1. CASE \/ \E c \in Contents : Edit(c, r)
             \/ Reopen(r)
    BY <1>1, <1>3, <2>1, RunChanges DEF Edit, Reopen, Fire
  <2>2. CASE Close(r)
    <3>1. ClosedRequest(HeadOf[pull.snap]) \in Request
      BY RequestsKnown DEF TypeOK
    <3> QED
      BY <1>1, <1>4, <2>2, <3>1, RunChanges DEF Close, Fire
  <2>3. CASE Dispatch(r)
    <3>1. VerifyRequest(seen) \in Request
      BY <2>3, RequestsKnown DEF TypeOK, Dispatch
    <3> QED
      BY <1>1, <1>4, <2>3, <3>1, RunChanges DEF Dispatch, Fire
  <2>4. CASE SubmitLost(r)
    BY <1>1, <1>5, <2>4, RunChanges DEF SubmitLost, TryAgain, RunTypes, Run
  <2>5. CASE RunFails(r)
    BY <1>1, <1>5, <2>5, RunChanges DEF RunFails
  <2> QED
    BY <1>7, <2>1, <2>2, <2>3, <2>4, <2>5 DEF GitHub
<1>8. CASE Executor \/ Environment \/ UNCHANGED vars
  BY <1>2, <1>8 DEF Executor, StartJob, ReadPull, FinishJob, Environment, ManualSync, Tick,
                    JobFails, StorageError, Age, Restart, vars
<1> QED
  BY <1>6, <1>7, <1>8 DEF Next

\* Every step of anything else keeps the types.
LEMMA TypeNext == TypeOK /\ [Next]_vars => TypeOK'
<1> SUFFICES ASSUME TypeOK, [Next]_vars PROVE TypeOK'
  OBVIOUS
<1>1. ServerTypes' /\ RunTypes'
  BY ServerTypesNext, RunTypesNext
<1>2. pull' \in [snap : Contents, open : BOOLEAN]
  BY DEF TypeOK, Next, Relay, ReadBinding, Submit, SubmitRefused, PollAnswered, PollMissing,
         GitHub, Edit, Close, Reopen, Dispatch, SubmitLost, RunFails, Executor, StartJob,
         ReadPull, FinishJob, Environment, ManualSync, Tick, JobFails, StorageError, Age,
         Restart, vars
<1>3. seen' \in Contents \cup {None}
  <2>1. CASE ReadPull
    BY <2>1 DEF ReadPull, ReadOpen, ReadClosed, TypeOK
  <2>2. CASE UNCHANGED seen
    BY <2>2 DEF TypeOK
  <2>3. ASSUME NEW r \in Runs, Relay(r) PROVE UNCHANGED seen
    BY <2>3, Zenon DEF Relay, ReadBinding, Submit, SubmitRefused, PollAnswered, PollMissing
  <2>4. ASSUME NEW r \in Runs, GitHub(r) PROVE UNCHANGED seen
    BY <2>4, Zenon DEF GitHub, Edit, Close, Reopen, Dispatch, SubmitLost, RunFails
  <2>5. CASE Environment
    BY <2>2, <2>5, Zenon DEF Environment, ManualSync, Tick, JobFails, StorageError, Age, Restart
  <2>6. CASE StartJob \/ FinishJob \/ UNCHANGED vars
    BY <2>2, <2>6, Zenon DEF StartJob, FinishJob, vars
  <2> QED
    BY <2>1, <2>2, <2>3, <2>4, <2>5, <2>6 DEF Next, Executor
<1>4. expired' \in Nat /\ manual' \in Nat /\ faults' \in Nat
  <2>1. CASE UNCHANGED <<expired, manual, faults>>
    BY <2>1 DEF TypeOK
  <2>2. ASSUME NEW r \in Runs, Relay(r) PROVE UNCHANGED <<expired, manual, faults>>
    BY <2>2, Zenon DEF Relay, ReadBinding, Submit, SubmitRefused, PollAnswered, PollMissing
  <2>3. ASSUME NEW r \in Runs, GitHub(r)
        PROVE  \/ UNCHANGED <<expired, manual, faults>>
               \/ UNCHANGED <<expired, manual>> /\ CountFault
    BY <2>3, Zenon DEF GitHub, Edit, Close, Reopen, Dispatch, SubmitLost, RunFails
  <2>4. CASE Executor \/ UNCHANGED vars
    BY <2>1, <2>4 DEF Executor, StartJob, ReadPull, FinishJob, vars
  <2>5. CASE Environment
    BY <2>5, SMTT(30) DEF Environment, ManualSync, Tick, JobFails, StorageError, Age, Restart,
                CountFault, TypeOK
  <2> QED
    BY <2>1, <2>2, <2>3, <2>4, <2>5 DEF Next, CountFault, TypeOK
<1> QED
  BY <1>1, <1>2, <1>3, <1>4 DEF TypeOK, ServerTypes, RunTypes

\* The types of every variable hold at all times.
THEOREM TypeCorrect == Spec => []TypeOK
<1>1. Init => TypeOK
  <2> SUFFICES ASSUME Init PROVE TypeOK
    OBVIOUS
  <2>1. RunTypes
    BY DEF Init, RunTypes, Run, FiredRun, OffRun
  <2>2. ServerTypes
    BY DEF Init, ServerTypes, NoWork, Work
  <2> QED
    BY <2>1, <2>2 DEF Init, TypeOK, RunTypes, ServerTypes
<1> QED
  BY <1>1, TypeNext, PTL DEF Spec
-------------------------------------------------------------------------------
(***************************************************************************)
(* The two dictionaries.                                                   *)
(***************************************************************************)

\* Purging keeps the keys of the jobs that stay, and no others.
LEMMA PurgeKeys ==
    ASSUME KeysMatchJobs, Purge
    PROVE  KeysMatchJobs'
BY DEF KeysMatchJobs, Purge, KeysWithout, Restrict, Kept

\* So does a reuse.
LEMMA ReuseKeys ==
    ASSUME KeysMatchJobs, NEW req, NEW who, NEW i, i \in Reusable(req), Reuse(i, who)
    PROVE  KeysMatchJobs'
<1> DEFINE old == Restrict(jobs, Kept)
<1>1. i \in Kept /\ DOMAIN old = Kept /\ \A k \in Kept : old[k] = jobs[k]
  BY DEF Reusable, Restrict
<1>2. jobs' = [old EXCEPT ![i].owners = @ \cup who]
  BY DEF Reuse
<1> HIDE DEF old
<1>3. DOMAIN jobs' = Kept /\ \A k \in Kept : jobs'[k].req = jobs[k].req
  BY <1>1, <1>2
<1>4. keys' = [k \in DOMAIN keys \ {jobs[n].req : n \in DOMAIN jobs \ Kept} |-> keys[k]]
  BY DEF Reuse, KeysWithout, Restrict
<1> QED
  BY <1>3, <1>4 DEF KeysMatchJobs, Kept

\* A new job takes the place of the one its key led to.
LEMMA CreateKeys ==
    ASSUME ServerTypes, KeysMatchJobs, NEW req \in Request, NEW who, Reusable(req) = {},
           Create(req, who)
    PROVE  KeysMatchJobs'
<1> DEFINE rest == KeysWithout(DOMAIN jobs \ Staying(req))
<1>1. /\ Staying(req) \subseteq DOMAIN jobs
      /\ nextId \notin DOMAIN jobs
      /\ \A i \in Staying(req) : jobs[i].req # req
  BY DEF Staying, Kept, ServerTypes, KeysMatchJobs
<1>2. rest = [k \in DOMAIN keys \ {jobs[n].req : n \in DOMAIN jobs \ Staying(req)} |-> keys[k]]
  BY DEF KeysWithout, Restrict
<1>3. \A i \in Staying(req) : jobs[i].req \in DOMAIN rest /\ rest[jobs[i].req] = i
  BY <1>1, <1>2 DEF KeysMatchJobs
<1>4. \A k \in DOMAIN rest : rest[k] \in Staying(req) /\ jobs[rest[k]].req = k
  BY <1>2 DEF KeysMatchJobs
<1> HIDE DEF rest
<1>5. /\ jobs' = [i \in Staying(req) \cup {nextId} |->
                     IF i = nextId THEN [req |-> req, state |-> "queued", owners |-> who]
                     ELSE jobs[i]]
      /\ keys' = [k \in DOMAIN rest \cup {req} |-> IF k = req THEN nextId ELSE rest[k]]
  BY DEF Create, rest
<1>6. /\ DOMAIN jobs' = Staying(req) \cup {nextId}
      /\ jobs'[nextId].req = req
      /\ \A i \in Staying(req) : jobs'[i] = jobs[i]
  BY <1>1, <1>5
<1>7. /\ DOMAIN keys' = DOMAIN rest \cup {req}
      /\ keys'[req] = nextId
      /\ \A k \in DOMAIN rest : k # req => keys'[k] = rest[k]
  BY <1>5
<1>8. ASSUME NEW k \in DOMAIN keys' PROVE keys'[k] \in DOMAIN jobs' /\ jobs'[keys'[k]].req = k
  BY <1>4, <1>6, <1>7, <1>8
<1>9. ASSUME NEW i \in DOMAIN jobs' PROVE jobs'[i].req \in DOMAIN keys' /\ keys'[jobs'[i].req] = i
  BY <1>1, <1>3, <1>6, <1>7, <1>9
<1> QED
  BY <1>8, <1>9 DEF KeysMatchJobs

\* A change of state leaves the dictionaries as they are.
LEMMA StateKeys ==
    ASSUME ServerTypes, KeysMatchJobs, NEW i, NEW state,
           jobs' = [jobs EXCEPT ![i].state = state], UNCHANGED keys
    PROVE  KeysMatchJobs'
<1>1. DOMAIN jobs' = DOMAIN jobs /\ \A k \in DOMAIN jobs : jobs'[k].req = jobs[k].req
  BY DEF ServerTypes, Job
<1> QED
  BY <1>1 DEF KeysMatchJobs

\* _purge_jobs_locked, _trim_terminal_jobs_locked, _should_replace_job and
\* _enqueue_job keep a request and its job together.
THEOREM KeysMatch == Spec => []KeysMatchJobs
<1>1. Init => KeysMatchJobs
  BY DEF Init, KeysMatchJobs
<1>2. TypeOK /\ KeysMatchJobs /\ [Next]_vars => KeysMatchJobs'
  <2> SUFFICES ASSUME TypeOK, KeysMatchJobs, [Next]_vars PROVE KeysMatchJobs'
    OBVIOUS
  <2>1. ServerStep /\ ServerTypes
    BY ServerSteps DEF TypeOK, ServerTypes
  <2>2. CASE UNCHANGED <<jobs, keys>>
    BY <2>2 DEF KeysMatchJobs
  <2>3. ASSUME NEW req \in Request, NEW who \in SUBSET Runs, NEW i \in Nat, Enqueue(req, who, i)
        PROVE  KeysMatchJobs'
    BY <2>1, <2>3, ReuseKeys, CreateKeys DEF Enqueue
  <2>4. CASE StartJob \/ FinishJob \/ JobFails
    BY <2>1, <2>4, StateKeys DEF StartJob, FinishJob, JobFails
  <2>5. CASE Restart
    BY <2>5 DEF Restart, KeysMatchJobs
  <2> QED
    BY <2>1, <2>2, <2>3, <2>4, <2>5, PurgeKeys DEF ServerStep, ReadPull, StorageError, server
<1> QED
  BY <1>1, <1>2, TypeCorrect, PTL DEF Spec
-------------------------------------------------------------------------------
(***************************************************************************)
(* Who may poll.                                                           *)
(***************************************************************************)

\* A job that was there keeps its request and its owners while it is there.
OldJobs ==
    /\ nextId' >= nextId
    /\ \A i \in DOMAIN jobs' : i < nextId =>
           /\ i \in DOMAIN jobs
           /\ jobs'[i].req = jobs[i].req
           /\ jobs[i].owners \subseteq jobs'[i].owners

\* What _enqueue_job does to the jobs that were there.
LEMMA EnqueueOldJobs ==
    ASSUME ServerTypes, NEW req \in Request, NEW who \in SUBSET Runs, NEW i \in Nat,
           Enqueue(req, who, i)
    PROVE  OldJobs
<1>1. CASE i \in Reusable(req) /\ Reuse(i, who)
  <2> DEFINE old == Restrict(jobs, Kept)
  <2>1. /\ i \in Kept /\ Kept \subseteq DOMAIN jobs
        /\ old \in [Kept -> Job] /\ \A k \in Kept : old[k] = jobs[k]
    BY <1>1 DEF Reusable, Restrict, Kept, ServerTypes
  <2>2. jobs' = [old EXCEPT ![i].owners = @ \cup who]
    BY <1>1 DEF Reuse
  <2> HIDE DEF old
  <2>3. /\ DOMAIN jobs' = Kept
        /\ \A k \in Kept : /\ jobs'[k].req = jobs[k].req
                            /\ jobs[k].owners \subseteq jobs'[k].owners
    BY <2>1, <2>2 DEF Job
  <2>4. nextId' >= nextId
    BY <1>1 DEF Reuse, ServerTypes
  <2> QED
    BY <2>1, <2>3, <2>4 DEF OldJobs
<1>2. CASE Create(req, who)
  <2>1. Staying(req) \subseteq DOMAIN jobs
    BY DEF Staying, Kept
  <2>2. /\ DOMAIN jobs' = Staying(req) \cup {nextId}
        /\ \A k \in Staying(req) : k # nextId => jobs'[k] = jobs[k]
    BY <1>2 DEF Create
  <2>3. nextId' >= nextId
    BY <1>2 DEF Create, ServerTypes
  <2> QED
    BY <2>1, <2>2, <2>3 DEF OldJobs, ServerTypes
<1> QED
  BY <1>1, <1>2 DEF Enqueue

\* What any step does to them.
LEMMA OldJobsNext == TypeOK /\ [Next]_vars => OldJobs
<1> SUFFICES ASSUME TypeOK, [Next]_vars PROVE OldJobs
  OBVIOUS
<1>1. ServerStep /\ ServerTypes
  BY ServerSteps DEF TypeOK, ServerTypes
<1>2. CASE UNCHANGED <<jobs, nextId>>
  BY <1>1, <1>2 DEF OldJobs, ServerTypes
<1>3. CASE Purge /\ UNCHANGED <<queue, worker, nextId, broken>>
  BY <1>1, <1>3 DEF Purge, Restrict, Kept, OldJobs, ServerTypes
<1>4. ASSUME NEW i, NEW state, jobs' = [jobs EXCEPT ![i].state = state], UNCHANGED nextId
      PROVE  OldJobs
  BY <1>1, <1>4 DEF OldJobs, ServerTypes, Job
<1>5. CASE StartJob \/ FinishJob \/ JobFails
  BY <1>4, <1>5 DEF StartJob, FinishJob, JobFails
<1>6. CASE Restart
  BY <1>1, <1>6 DEF Restart, OldJobs, ServerTypes
<1> QED
  BY <1>1, <1>2, <1>3, <1>5, <1>6, EnqueueOldJobs
  DEF ServerStep, ReadPull, StorageError, server

\* A run that polls after a step polled the same job before, or got it just now.
LEMMA PollingRuns ==
    ASSUME TypeOK, [Next]_vars, NEW x \in Runs, runs'[x].state = "polling"
    PROVE  \/ runs'[x] = runs[x]
           \/ /\ runs'[x].req = runs[x].req
              /\ runs[x].req \in Request
              /\ \E i \in 1..nextId : runs'[x].job = i /\ Enqueue(runs[x].req, {x}, i)
<1>1. RunTypes
  BY DEF TypeOK, RunTypes
<1>2. CASE UNCHANGED runs
  BY <1>2
<1>3. \A r \in Runs : Ended(runs[r], "failed").state # "polling" /\ Ended(runs[r], "passed").state # "polling"
  BY DEF Ended, OffRun
<1>4. ASSUME NEW r \in Runs, Relay(r)
      PROVE  \/ runs'[x] = runs[x]
             \/ /\ runs'[x].req = runs[x].req
                /\ runs[x].req \in Request
                /\ \E i \in 1..nextId : runs'[x].job = i /\ Enqueue(runs[x].req, {x}, i)
  <2>1. CASE Submit(r)
    <3>1. PICK i \in 1..nextId : /\ Enqueue(runs[r].req, {r}, i)
                                 /\ runs' = [runs EXCEPT ![r].state = "polling", ![r].job = i]
      BY <2>1 DEF Submit
    <3>2. CASE x = r
      <4>1. runs'[x].req = runs[x].req /\ runs'[x].job = i
        BY <1>1, <3>1, <3>2 DEF RunTypes, Run
      <4>2. runs[x].req \in Request
        BY <1>1, <2>1, <3>2 DEF RunTypes, Submit
      <4> QED
        BY <3>1, <3>2, <4>1, <4>2
    <3>3. CASE x # r
      BY <1>1, <3>1, <3>3 DEF RunTypes
    <3> QED
      BY <3>2, <3>3
  <2>2. CASE ReadBinding(r)
    BY <1>1, <2>2 DEF ReadBinding, Submitting, OffRun, RunTypes
  <2>3. CASE SubmitRefused(r)
    BY <1>1, <1>3, <2>3 DEF SubmitRefused, TryAgain, RunTypes, Run
  <2>4. CASE PollAnswered(r) \/ PollMissing(r)
    BY <1>1, <1>3, <2>4 DEF PollAnswered, PollMissing, RunTypes, Run
  <2> QED
    BY <1>4, <2>1, <2>2, <2>3, <2>4 DEF Relay
<1>5. ASSUME NEW r \in Runs, GitHub(r) PROVE runs'[x] = runs[x]
  <2>1. CASE Close(r) \/ Reopen(r) \/ Dispatch(r) \/ \E c \in Contents : Edit(c, r)
    <3>1. /\ FiredRun.state # "polling"
          /\ \A req : Submitting(req).state # "polling"
      BY DEF FiredRun, Submitting, OffRun
    <3>2. PICK run : runs' = [runs EXCEPT ![r] = run] /\ run.state # "polling"
      BY <2>1, <3>1 DEF Close, Reopen, Dispatch, Edit, Fire
    <3> QED
      BY <1>1, <3>2 DEF RunTypes
  <2>2. CASE SubmitLost(r)
    BY <1>1, <1>3, <2>2 DEF SubmitLost, TryAgain, RunTypes, Run
  <2>3. CASE RunFails(r)
    BY <1>1, <1>3, <2>3 DEF RunFails, RunTypes
  <2> QED
    BY <1>5, <2>1, <2>2, <2>3 DEF GitHub
<1>6. CASE Executor \/ Environment \/ UNCHANGED vars
  BY <1>2, <1>6 DEF Executor, StartJob, ReadPull, FinishJob, Environment, ManualSync, Tick,
                    JobFails, StorageError, Age, Restart, vars
<1> QED
  BY <1>4, <1>5, <1>6 DEF Next

\* _enqueue_job gives a run a job of its request that it may read.
LEMMA EnqueuedOwn ==
    ASSUME ServerTypes, KeysMatchJobs, NEW req \in Request, NEW x \in Runs, NEW i \in 1..nextId,
           Enqueue(req, {x}, i)
    PROVE  /\ i < nextId'
           /\ i \in DOMAIN jobs' /\ jobs'[i].req = req /\ x \in jobs'[i].owners
<1>1. CASE i \in Reusable(req) /\ Reuse(i, {x})
  <2> DEFINE old == Restrict(jobs, Kept)
  <2>1. /\ i \in Kept /\ i \in DOMAIN jobs /\ jobs[i].req = req
        /\ old \in [Kept -> Job] /\ old[i] = jobs[i]
    BY <1>1 DEF Reusable, Restrict, Kept, ServerTypes, KeysMatchJobs
  <2>2. jobs' = [old EXCEPT ![i].owners = @ \cup {x}]
    BY <1>1 DEF Reuse
  <2> HIDE DEF old
  <2>3. i \in DOMAIN jobs' /\ jobs'[i].req = req /\ x \in jobs'[i].owners
    BY <2>1, <2>2 DEF Job
  <2>4. i < nextId'
    BY <1>1, <2>1 DEF Reuse, ServerTypes
  <2> QED
    BY <2>3, <2>4
<1>2. CASE i = nextId /\ Create(req, {x})
  BY <1>2 DEF Create, ServerTypes
<1> QED
  BY <1>1, <1>2 DEF Enqueue

\* A polled id is never given to another job.
PollInv ==
    \A r \in Runs : runs[r].state = "polling" =>
        /\ runs[r].job < nextId
        /\ runs[r].job \in DOMAIN jobs =>
               jobs[runs[r].job].req = runs[r].req /\ r \in jobs[runs[r].job].owners

\* The inductive invariant holds at all times.
THEOREM PollCorrect == Spec => []PollInv
<1>1. Init => PollInv
  BY DEF Init, PollInv, FiredRun, OffRun
<1>2. TypeOK /\ KeysMatchJobs /\ PollInv /\ [Next]_vars => PollInv'
  <2> SUFFICES ASSUME TypeOK, TypeOK', KeysMatchJobs, PollInv, [Next]_vars,
                      NEW x \in Runs, runs'[x].state = "polling"
               PROVE  /\ runs'[x].job < nextId'
                      /\ runs'[x].job \in DOMAIN jobs' =>
                             /\ jobs'[runs'[x].job].req = runs'[x].req
                             /\ x \in jobs'[runs'[x].job].owners
    BY TypeNext DEF PollInv
  <2>1. OldJobs /\ ServerTypes
    BY OldJobsNext DEF TypeOK, ServerTypes
  <2>2. CASE runs'[x] = runs[x]
    <3>1. runs[x].job \in Nat /\ nextId \in Nat /\ nextId' \in Nat
      <4>1. runs \in [Runs -> Run] /\ nextId \in Nat /\ nextId' \in Nat
        BY DEF TypeOK
      <4> QED BY <4>1 DEF Run
    <3> QED
      BY <2>1, <2>2, <3>1 DEF OldJobs, PollInv
  <2>3. CASE /\ runs'[x].req = runs[x].req
             /\ runs[x].req \in Request
             /\ \E i \in 1..nextId : runs'[x].job = i /\ Enqueue(runs[x].req, {x}, i)
    <3> DEFINE req == runs[x].req
    <3>1. PICK i \in 1..nextId : runs'[x].job = i /\ Enqueue(req, {x}, i)
      BY <2>3
    <3>2. req \in Request /\ runs'[x].req = req
      BY <2>3
    <3> HIDE DEF req
    <3>3. /\ i < nextId'
          /\ i \in DOMAIN jobs' /\ jobs'[i].req = req /\ x \in jobs'[i].owners
      BY <2>1, <3>1, <3>2, EnqueuedOwn
    <3> QED BY <3>1, <3>2, <3>3
  <2> QED
    BY <2>2, <2>3, PollingRuns
<1> QED
  BY <1>1, <1>2, TypeCorrect, KeysMatch, PTL DEF Spec

\* action_job_payload never shows a run the job of another, and never refuses a
\* run its own.
THEOREM PollersOwn == Spec => []PollersOwnTheirJob
<1>1. PollInv => PollersOwnTheirJob
  BY DEF PollInv, PollersOwnTheirJob
<1> QED
  BY <1>1, PollCorrect, PTL
-------------------------------------------------------------------------------
(***************************************************************************)
(* Active jobs and the executor.                                           *)
(***************************************************************************)

Queued == {i \in DOMAIN jobs : jobs[i].state = "queued"}
Running == {i \in DOMAIN jobs : jobs[i].state = "running"}
SameActive == Queued' = Queued /\ Running' = Running

\* A purge takes jobs that have ended.
LEMMA PurgeActive == ASSUME Purge PROVE SameActive
BY DEF Purge, Restrict, Kept, SameActive, Queued, Running, Terminal, Failed

\* A reuse does the same to the rest.
LEMMA ReuseActive ==
    ASSUME ServerTypes, NEW req, NEW who \in SUBSET Runs, NEW i, i \in Reusable(req), Reuse(i, who)
    PROVE  SameActive
<1> DEFINE old == Restrict(jobs, Kept)
<1>1. /\ i \in Kept /\ Kept \subseteq DOMAIN jobs
      /\ old \in [Kept -> Job] /\ \A k \in Kept : old[k] = jobs[k]
  BY DEF Reusable, Restrict, Kept, ServerTypes
<1>2. jobs' = [old EXCEPT ![i].owners = @ \cup who]
  BY DEF Reuse
<1> HIDE DEF old
<1>3. DOMAIN jobs' = Kept /\ \A k \in Kept : jobs'[k].state = jobs[k].state
  BY <1>1, <1>2 DEF Job
<1> QED
  BY <1>3 DEF SameActive, Queued, Running, Kept, Terminal, Failed

\* A new job is queued; what it replaces or trims has ended.
LEMMA CreateActive ==
    ASSUME ServerTypes, NEW req \in Request, NEW who \in SUBSET Runs, Reusable(req) = {},
           Create(req, who)
    PROVE  Queued' = Queued \cup {nextId} /\ Running' = Running
<1>1. /\ nextId \notin DOMAIN jobs
      /\ Staying(req) \subseteq DOMAIN jobs
  BY DEF ServerTypes, Staying, Kept
<1>2. ASSUME NEW i \in DOMAIN jobs, jobs[i].state \notin Terminal PROVE i \in Staying(req)
  <2>1. i \in Kept
    BY <1>2 DEF Kept
  <2>2. ~(req \in DOMAIN keys /\ keys[req] = i)
    BY <1>2, <2>1 DEF Reusable, ShouldReplace
  <2> QED
    BY <1>2, <2>1, <2>2 DEF Staying, Victims
<1>3. /\ DOMAIN jobs' = Staying(req) \cup {nextId}
      /\ jobs'[nextId].state = "queued"
      /\ \A k \in Staying(req) : jobs'[k] = jobs[k]
  BY <1>1 DEF Create
<1> QED
  BY <1>1, <1>2, <1>3 DEF Queued, Running, Terminal, Failed

\* Nothing but a restart takes a job that has not ended from the table.
THEOREM ActiveKept == Spec => ActiveJobsKept
<1>1. TypeOK /\ [Next]_vars => ActiveStay
  <2> SUFFICES ASSUME TypeOK, [Next]_vars PROVE ActiveStay
    OBVIOUS
  <2>1. ServerStep /\ ServerTypes
    BY ServerSteps DEF TypeOK, ServerTypes
  <2>2. \A i \in DOMAIN jobs : jobs[i].state \notin Terminal => i \in Queued \cup Running
    BY <2>1 DEF ServerTypes, Job, Queued, Running
  <2>3. CASE Queued \cup Running \subseteq DOMAIN jobs'
    BY <2>2, <2>3 DEF ActiveStay
  <2>4. Queued' \cup Running' \subseteq DOMAIN jobs'
    BY DEF Queued, Running
  <2>5. CASE SameActive
    BY <2>3, <2>4, <2>5 DEF SameActive
  <2>6. ASSUME NEW req \in Request, NEW who \in SUBSET Runs, NEW i \in Nat, Enqueue(req, who, i)
        PROVE  ActiveStay
    <3>1. CASE i \in Reusable(req) /\ Reuse(i, who)
      BY <2>1, <2>5, <3>1, ReuseActive
    <3>2. CASE Reusable(req) = {} /\ Create(req, who)
      <4>1. Queued' = Queued \cup {nextId} /\ Running' = Running
        BY <2>1, <3>2, CreateActive
      <4> QED
        BY <2>3, <2>4, <4>1
    <3> QED
      BY <2>6, <3>1, <3>2 DEF Enqueue
  <2>7. CASE DOMAIN jobs' = DOMAIN jobs
    BY <2>7 DEF ActiveStay
  <2>8. CASE StartJob \/ FinishJob \/ JobFails
    BY <2>7, <2>8 DEF StartJob, FinishJob, JobFails
  <2>9. CASE Restart
    BY <2>9 DEF Restart, ActiveStay
  <2> QED
    BY <2>1, <2>5, <2>6, <2>7, <2>8, <2>9, PurgeActive DEF ServerStep, ReadPull, StorageError, server
<1> QED
  BY <1>1, TypeCorrect, PTL DEF Spec, ActiveJobsKept
\* The table has room for every job that enters it.
THEOREM TableIsBounded == Spec => []TableBounded
<1>1. Init => TableBounded
  <2> SUFFICES ASSUME Init PROVE TableBounded
    OBVIOUS
  <2>1. DOMAIN jobs = {}
    BY DEF Init
  <2> QED
    BY <2>1, FS_EmptySet DEF TableBounded
<1>2. TypeOK /\ TableBounded /\ [Next]_vars => TableBounded'
  <2> SUFFICES ASSUME TypeOK, TableBounded, [Next]_vars PROVE TableBounded'
    OBVIOUS
  <2>1. ServerStep /\ ServerTypes
    BY ServerSteps DEF TypeOK, ServerTypes
  <2>2. IsFiniteSet(DOMAIN jobs)
    <3>1. IsFiniteSet(1..(nextId - 1))
      <4>1. 1 \in Int /\ nextId - 1 \in Int
        BY <2>1 DEF ServerTypes
      <4> QED
        BY <4>1, FS_Interval
    <3> QED
      BY <2>1, <3>1, FS_Subset DEF ServerTypes
  <2>3. CASE DOMAIN jobs' \subseteq DOMAIN jobs
    <3>1. /\ IsFiniteSet(DOMAIN jobs') /\ Cardinality(DOMAIN jobs') <= Cardinality(DOMAIN jobs)
          /\ Cardinality(DOMAIN jobs) \in Nat /\ Cardinality(DOMAIN jobs') \in Nat
      BY <2>2, <2>3, FS_Subset, FS_CardinalityType
    <3> QED
      BY <3>1 DEF TableBounded
  <2>4. ASSUME NEW req \in Request, NEW who \in SUBSET Runs, Room(req), Create(req, who)
        PROVE  TableBounded'
    <3>1. Staying(req) \subseteq DOMAIN jobs /\ nextId \notin Staying(req)
      BY <2>1 DEF Staying, Kept, ServerTypes
    <3>2. IsFiniteSet(Staying(req)) /\ Cardinality(Staying(req)) \in Nat
      BY <2>2, <3>1, FS_Subset, FS_CardinalityType
    <3>3. DOMAIN jobs' = Staying(req) \cup {nextId}
      BY <2>4 DEF Create
    <3>4. Cardinality(DOMAIN jobs') = Cardinality(Staying(req)) + 1
      BY <3>1, <3>2, <3>3, FS_AddElement
    <3> QED
      BY <2>4, <3>2, <3>4 DEF Room, TableBounded
  <2>5. CASE Purge
    BY <2>3, <2>5 DEF Purge, Restrict, Kept
  <2>6. ASSUME NEW who, NEW i, Reuse(i, who) PROVE TableBounded'
    BY <2>3, <2>6 DEF Reuse, Restrict, Kept
  <2>7. CASE StartJob \/ FinishJob \/ JobFails
    <3>1. DOMAIN jobs' = DOMAIN jobs
      BY <2>7 DEF StartJob, FinishJob, JobFails
    <3> QED
      BY <2>3, <3>1
  <2>8. CASE Restart
    <3>1. DOMAIN jobs' = {}
      BY <2>8 DEF Restart
    <3> QED
      BY <2>3, <3>1
  <2> QED
    BY <2>1, <2>3, <2>4, <2>5, <2>6, <2>7, <2>8
    DEF ServerStep, Enqueue, ReadPull, StorageError, server
<1> QED
  BY <1>1, <1>2, TypeCorrect, PTL DEF Spec

\* The executor's queue is the list of queued jobs, in order.
QueueInv ==
    /\ Queued = Range(queue)
    /\ \A m, n \in DOMAIN queue : m < n => queue[m] < queue[n]

\* A new job goes to the end of the queue.
LEMMA AppendQueue ==
    ASSUME ServerTypes, QueueInv, Queued' = Queued \cup {nextId}, queue' = Append(queue, nextId)
    PROVE  QueueInv'
<1>1. ASSUME NEW n \in DOMAIN queue PROVE queue[n] \in Nat /\ queue[n] < nextId
  <2>1. queue[n] \in Range(queue)
    BY DEF Range
  <2>2. queue[n] \in 1..(nextId - 1)
    BY <2>1 DEF QueueInv, Queued, ServerTypes
  <2> QED
    BY <2>2 DEF ServerTypes
<1>2. /\ Len(queue') = Len(queue) + 1 /\ Len(queue) \in Nat
      /\ DOMAIN queue = 1..Len(queue) /\ DOMAIN queue' = 1..Len(queue')
      /\ queue'[Len(queue) + 1] = nextId
      /\ \A n \in 1..Len(queue) : queue'[n] = queue[n]
  BY DEF ServerTypes
<1>3. \A m, n \in DOMAIN queue' : m < n => queue'[m] < queue'[n]
  BY <1>1, <1>2 DEF QueueInv
<1>4. Range(queue') = Range(queue) \cup {nextId}
  BY <1>2 DEF Range
<1> QED
  BY <1>3, <1>4 DEF QueueInv

\* The head of the queue is in it once.
LEMMA TakeQueue ==
    ASSUME ServerTypes, QueueInv, queue # <<>>, Queued' = Queued \ {Head(queue)},
           queue' = Tail(queue)
    PROVE  QueueInv'
<1>1. /\ Len(queue) \in Nat \ {0} /\ DOMAIN queue = 1..Len(queue)
      /\ DOMAIN queue' = 1..(Len(queue) - 1)
      /\ Head(queue) = queue[1]
      /\ \A n \in DOMAIN queue' : queue'[n] = queue[n + 1]
      /\ \A n \in DOMAIN queue : queue[n] \in Nat
  BY DEF ServerTypes
<1>2. \A m, n \in DOMAIN queue' : m < n => queue'[m] < queue'[n]
  BY <1>1 DEF QueueInv
<1>3. ASSUME NEW i \in Range(queue') PROVE i \in Range(queue) \ {Head(queue)}
  <2>1. PICK n \in DOMAIN queue' : i = queue'[n]
    BY <1>3 DEF Range
  <2>2. n + 1 \in DOMAIN queue /\ i = queue[n + 1] /\ 1 \in DOMAIN queue /\ 1 < n + 1
    BY <1>1, <2>1
  <2>3. queue[1] < i /\ queue[1] \in Nat /\ i \in Nat
    BY <1>1, <2>2 DEF QueueInv
  <2> QED
    BY <1>1, <2>2, <2>3, SMTT(30) DEF Range
<1>4. ASSUME NEW i \in Range(queue) \ {Head(queue)} PROVE i \in Range(queue')
  <2>1. PICK n \in DOMAIN queue : i = queue[n]
    BY <1>4 DEF Range
  <2>2. n # 1 /\ n - 1 \in DOMAIN queue' /\ queue'[n - 1] = i
    BY <1>1, <1>4, <2>1
  <2> QED
    BY <2>2 DEF Range
<1>5. Range(queue') = Range(queue) \ {Head(queue)}
  BY <1>3, <1>4
<1> QED
  BY <1>2, <1>5 DEF QueueInv
\* The executor has the job that runs, and but for the broken ones no other runs.
ExecutorInv ==
    /\ QueueInv
    /\ Running = ({worker.job} \ {0}) \cup broken
    /\ worker.job \notin broken

\* A job whose state is set leaves the set of its old state.
LEMMA StateActive ==
    ASSUME ServerTypes, NEW i, NEW state \in {"running"} \cup Terminal,
           jobs' = [jobs EXCEPT ![i].state = state]
    PROVE  /\ Queued' = Queued \ {i}
           /\ Running' \ {i} = Running \ {i}
           /\ i \in Running' <=> i \in DOMAIN jobs /\ state = "running"
<1>1. /\ DOMAIN jobs' = DOMAIN jobs
      /\ \A k \in DOMAIN jobs : jobs'[k].state = IF k = i THEN state ELSE jobs[k].state
  BY DEF ServerTypes, Job
<1> QED
  BY <1>1 DEF Queued, Running, Terminal, Failed

\* _run_job ends the job the executor has.
LEMMA EndActive ==
    ASSUME ServerTypes, ExecutorInv, NEW state \in Terminal,
           jobs' = [jobs EXCEPT ![worker.job].state = state], worker' = NoWork, UNCHANGED <<queue, broken>>
    PROVE  ExecutorInv'
<1>1. /\ Queued' = Queued \ {worker.job}
      /\ Running' \ {worker.job} = Running \ {worker.job}
      /\ worker.job \notin Running'
  BY StateActive DEF Terminal, Failed
<1>2. worker.job \notin Queued
  <2>1. 0 \notin DOMAIN jobs
    BY DEF ServerTypes
  <2> QED
    BY <2>1 DEF ExecutorInv, Queued, Running
<1>3. QueueInv'
  BY <1>1, <1>2 DEF ExecutorInv, QueueInv
<1>4. Running' = broken /\ 0 \notin broken
  BY <1>1 DEF ExecutorInv, ServerTypes, Running
<1> QED
  BY <1>3, <1>4 DEF ExecutorInv, NoWork

\* The inductive invariant holds at all times.
THEOREM ExecutorCorrect == Spec => []ExecutorInv
<1>1. Init => ExecutorInv
  <2> SUFFICES ASSUME Init PROVE ExecutorInv
    OBVIOUS
  <2>1. DOMAIN jobs = {} /\ DOMAIN queue = {} /\ worker.job = 0 /\ broken = {}
    BY DEF Init, NoWork
  <2> QED
    BY <2>1 DEF ExecutorInv, QueueInv, Queued, Running, Range
<1>2. TypeOK /\ ExecutorInv /\ [Next]_vars => ExecutorInv'
  <2> SUFFICES ASSUME TypeOK, ExecutorInv, [Next]_vars PROVE ExecutorInv'
    OBVIOUS
  <2>1. ServerStep /\ ServerTypes
    BY ServerSteps DEF TypeOK, ServerTypes
  <2>2. CASE SameActive /\ UNCHANGED <<queue, broken>> /\ worker'.job = worker.job
    BY <2>2 DEF SameActive, ExecutorInv, QueueInv
  <2>3. CASE UNCHANGED server
    BY <2>2, <2>3 DEF server, SameActive, Queued, Running
  <2>4. CASE Purge /\ UNCHANGED <<queue, worker, nextId, broken>>
    BY <2>2, <2>4, PurgeActive
  <2>5. ASSUME NEW req \in Request, NEW who \in SUBSET Runs, NEW i \in Nat, Enqueue(req, who, i)
        PROVE  ExecutorInv'
    <3>1. CASE i \in Reusable(req) /\ Reuse(i, who)
      <4>1. UNCHANGED <<queue, worker, broken>>
        BY <2>5, <3>1 DEF Enqueue, Reuse
      <4> QED
        BY <2>1, <2>2, <3>1, <4>1, ReuseActive
    <3>2. CASE Reusable(req) = {} /\ Create(req, who)
      <4>1. Queued' = Queued \cup {nextId} /\ Running' = Running
        BY <2>1, <3>2, CreateActive
      <4>2. queue' = Append(queue, nextId) /\ UNCHANGED <<worker, broken>>
        BY <2>5, <3>2 DEF Enqueue, Create
      <4>3. QueueInv'
        BY <2>1, <4>1, <4>2, AppendQueue DEF ExecutorInv
      <4> QED
        BY <4>1, <4>2, <4>3 DEF ExecutorInv
    <3> QED
      BY <2>5, <3>1, <3>2 DEF Enqueue
  <2>6. CASE StartJob
    <3> DEFINE i == Head(queue)
    <3>1. i \in Range(queue) /\ queue # <<>>
      BY <2>1, <2>6 DEF StartJob, Range, ServerTypes
    <3>2. i \in Queued
      BY <3>1 DEF ExecutorInv, QueueInv
    <3>3. jobs' = [jobs EXCEPT ![i].state = "running"]
      BY <2>6 DEF StartJob
    <3> HIDE DEF i
    <3>4. /\ Queued' = Queued \ {i}
          /\ Running' \ {i} = Running \ {i}
          /\ i \in Running'
      BY <2>1, <3>2, <3>3, StateActive DEF Queued
    <3>5. queue' = Tail(queue) /\ worker'.job = i /\ worker.job = 0 /\ broken' = broken
      BY <2>6 DEF StartJob, NoWork, i
    <3>6. QueueInv'
      BY <2>1, <3>1, <3>4, <3>5, TakeQueue DEF ExecutorInv, i
    <3>7. 0 \notin Running /\ 0 # i /\ i \notin Running
      BY <2>1, <3>2 DEF Running, Queued, ServerTypes
    <3> QED
      BY <3>4, <3>5, <3>6, <3>7 DEF ExecutorInv
  <2>7. CASE ReadPull
    <3>1. worker'.job = worker.job
      BY <2>1, <2>7 DEF ReadPull, ReadOpen, ReadClosed, ServerTypes, Work
    <3> QED
      BY <2>2, <2>7, <3>1 DEF ReadPull, SameActive, Queued, Running
  <2>8. CASE FinishJob
    BY <2>1, <2>8, EndActive DEF FinishJob
  <2>9. CASE JobFails
    BY <2>1, <2>9, EndActive DEF JobFails, Terminal, Failed
  <2>10. CASE StorageError
    <3>1. /\ UNCHANGED <<jobs, queue>> /\ worker.job # 0 /\ worker'.job = 0
          /\ broken' = broken \cup {worker.job}
      BY <2>10 DEF StorageError, NoWork
    <3>2. Queued' = Queued /\ Running' = Running
      BY <3>1 DEF Queued, Running
    <3>3. 0 \notin Running
      BY <2>1 DEF Running, ServerTypes
    <3> QED
      BY <3>1, <3>2, <3>3 DEF ExecutorInv, QueueInv
  <2>11. CASE Restart
    <3>1. DOMAIN jobs' = {} /\ DOMAIN queue' = {} /\ worker'.job = 0 /\ broken' = {}
      BY <2>11 DEF Restart, NoWork
    <3> QED
      BY <3>1 DEF ExecutorInv, QueueInv, Queued, Running, Range
  <2> QED
    BY <2>1, <2>3, <2>4, <2>5, <2>6, <2>7, <2>8, <2>9, <2>10, <2>11 DEF ServerStep
<1> QED
  BY <1>1, <1>2, TypeCorrect, PTL DEF Spec

\* The executor's queue and thread and the states of the jobs say the same.
THEOREM ExecutorMatches == Spec => []ExecutorMatchesJobs
<1>1. ExecutorInv => ExecutorMatchesJobs
  BY DEF ExecutorInv, QueueInv, Queued, Running, ExecutorMatchesJobs
<1> QED
  BY <1>1, ExecutorCorrect, PTL
-------------------------------------------------------------------------------
(***************************************************************************)
(* What a passed run says, when the author never returns to a content and  *)
(* nobody opens a closed pull request again.                               *)
(***************************************************************************)

\* Every edit shows a content of a higher rank.
Forwards(rank) == ~MayReopen /\ \A e \in EditTo : rank[e[1]] < rank[e[2]]

\* The pull request will not be open with content c any more.
Past(rank, c) == ~pull.open \/ rank[c] < rank[pull.snap]

\* The service saved c last, or c is of the past.
Answered(rank, c) == seen = c \/ Past(rank, c)

\* What the service saved last is what the pull request shows, or showed earlier.
SeenInv(rank) == seen # None => seen = pull.snap \/ rank[seen] < rank[pull.snap]

\* The event of an answered content may be completed: on the thread, in the
\* table and for a run.
WorkerAnswers(rank) ==
    \A c \in Contents :
        /\ worker.job # 0 /\ worker.result = "completed" /\ jobs[worker.job].req = SyncRequest(c)
        => Answered(rank, c)
JobAnswers(rank) ==
    \A c \in Contents, i \in DOMAIN jobs :
        jobs[i].state = "completed" /\ jobs[i].req = SyncRequest(c) => Answered(rank, c)
RunAnswers(rank) ==
    \A c \in Contents, r \in Runs :
        runs[r].state = "passed" /\ runs[r].req = SyncRequest(c) => Answered(rank, c)

AnswerInv(rank) ==
    /\ SeenInv(rank)
    /\ worker.job = 0 => worker.result = "none"
    /\ WorkerAnswers(rank)
    /\ JobAnswers(rank)
    /\ RunAnswers(rank)

\* Every step but a save leaves what the service saved, and the pull request
\* only goes forward.
LEMMA SeenNext ==
    ASSUME NEW rank \in [Contents -> Nat], Forwards(rank), TypeOK, TypeOK', SeenInv(rank),
           [Next]_vars
    PROVE  /\ SeenInv(rank)'
           /\ \A c \in Contents : Answered(rank, c) => Answered(rank, c)'
<1>1. CASE UNCHANGED <<pull, seen>>
  BY <1>1 DEF SeenInv, Answered, Past
<1>2. CASE \E c \in Contents, r \in Runs : Edit(c, r)
  <2>1. PICK c \in Contents, r \in Runs : Edit(c, r)
    BY <1>2
  <2>2. /\ rank[pull.snap] < rank[c]
        /\ pull'.snap = c /\ pull'.open = pull.open
        /\ UNCHANGED seen
    BY <2>1 DEF Edit, Forwards, TypeOK
  <2>3. /\ \A x \in Contents : rank[x] \in Nat
        /\ pull.snap \in Contents /\ seen \in Contents \cup {None}
    BY DEF TypeOK
  <2> QED
    BY <2>2, <2>3 DEF SeenInv, Answered, Past
<1>3. CASE \E r \in Runs : Close(r)
  BY <1>3 DEF Close, TypeOK, SeenInv, Answered, Past
<1>4. CASE ReadPull
  <2>1. UNCHANGED pull /\ (seen' = seen \/ (pull.open /\ seen' = pull.snap))
    BY <1>4 DEF ReadPull, ReadClosed, ReadOpen
  <2>2. \A x \in Contents : rank[x] \in Nat
    OBVIOUS
  <2> QED
    BY <2>1, <2>2 DEF SeenInv, Answered, Past, TypeOK
<1>5. ~MayReopen
  BY DEF Forwards
<1> QED
  BY <1>1, <1>2, <1>3, <1>4, <1>5
  DEF Next, vars, Relay, GitHub, Executor, Environment, ReadBinding, Submit, SubmitRefused,
      PollAnswered, PollMissing, Reopen, Dispatch, SubmitLost, RunFails, StartJob, FinishJob,
      ManualSync, Tick, JobFails, StorageError, Age, Restart

\* Only the end of a job that was read as completed completes one.
LEMMA CompletedJobs ==
    ASSUME TypeOK, ExecutorInv, [Next]_vars, worker.job = 0 => worker.result = "none",
           NEW i \in DOMAIN jobs', jobs'[i].state = "completed"
    PROVE  /\ i \in DOMAIN jobs
           /\ jobs'[i].req = jobs[i].req
           /\ \/ jobs[i].state = "completed"
              \/ i = worker.job /\ worker.job # 0 /\ worker.result = "completed"
<1>1. ServerStep /\ ServerTypes
  BY ServerSteps DEF TypeOK, ServerTypes
<1>2. CASE UNCHANGED jobs
  BY <1>2
<1>3. CASE Purge
  BY <1>1, <1>3 DEF Purge, Restrict, Kept, ServerTypes
<1>4. ASSUME NEW req \in Request, NEW who \in SUBSET Runs, NEW k \in Nat, Enqueue(req, who, k)
      PROVE  i \in DOMAIN jobs /\ jobs'[i].req = jobs[i].req /\ jobs[i].state = "completed"
  <2>1. CASE k \in Reusable(req) /\ Reuse(k, who)
    <3> DEFINE old == Restrict(jobs, Kept)
    <3>1. old \in [Kept -> Job] /\ Kept \subseteq DOMAIN jobs /\ \A x \in Kept : old[x] = jobs[x]
      BY <1>1 DEF Restrict, Kept, ServerTypes
    <3>2. jobs' = [old EXCEPT ![k].owners = @ \cup who]
      BY <2>1 DEF Reuse
    <3> HIDE DEF old
    <3>3. /\ DOMAIN jobs' = Kept
          /\ \A x \in Kept : jobs'[x].req = jobs[x].req /\ jobs'[x].state = jobs[x].state
      BY <3>1, <3>2 DEF Job
    <3> QED
      BY <3>1, <3>3
  <2>2. CASE Create(req, who)
    <3>1. Staying(req) \subseteq DOMAIN jobs
      BY DEF Staying, Kept
    <3>2. /\ DOMAIN jobs' = Staying(req) \cup {nextId}
          /\ jobs'[i] = IF i = nextId THEN [req |-> req, state |-> "queued", owners |-> who]
                        ELSE jobs[i]
      BY <2>2 DEF Create
    <3> QED
      BY <3>1, <3>2
  <2> QED
    BY <1>4, <2>1, <2>2 DEF Enqueue
<1>5. ASSUME NEW k, NEW state, jobs' = [jobs EXCEPT ![k].state = state]
      PROVE  /\ i \in DOMAIN jobs /\ jobs'[i].req = jobs[i].req
             /\ jobs[i].state = "completed" \/ (i = k /\ state = "completed")
  BY <1>1, <1>5 DEF ServerTypes, Job
<1>6. CASE StartJob \/ JobFails
  BY <1>5, <1>6 DEF StartJob, JobFails
<1>7. CASE FinishJob
  <2>1. PICK result \in Terminal :
            /\ result = worker.result \/ result = "stale"
            /\ jobs' = [jobs EXCEPT ![worker.job].state = result]
    BY <1>7 DEF FinishJob
  <2> QED
    BY <1>5, <1>7, <2>1 DEF FinishJob
<1>8. CASE Restart
  BY <1>8 DEF Restart
<1> QED
  BY <1>1, <1>2, <1>3, <1>4, <1>6, <1>7, <1>8
  DEF ServerStep, server, ReadPull, StorageError

\* Only a poll that finds its job completed passes a run.
LEMMA PassedRuns ==
    ASSUME TypeOK, [Next]_vars, NEW x \in Runs, runs'[x].state = "passed"
    PROVE  \/ runs'[x] = runs[x]
           \/ /\ runs'[x].req = runs[x].req
              /\ runs[x].state = "polling"
              /\ runs[x].job \in DOMAIN jobs
              /\ jobs[runs[x].job].state = "completed"
<1>1. RunTypes
  BY DEF TypeOK, RunTypes
<1>2. CASE UNCHANGED runs
  BY <1>2
<1>3. /\ \A run : Ended(run, "failed").state = "failed" /\ Ended(run, "passed").req = run.req
      /\ FiredRun.state = "fired"
      /\ \A req : Submitting(req).state = "submitting"
  BY DEF Ended, FiredRun, Submitting, OffRun
<1>4. ASSUME NEW r \in Runs, Relay(r)
      PROVE  \/ runs'[x] = runs[x]
             \/ /\ runs'[x].req = runs[x].req
                /\ runs[x].state = "polling"
                /\ runs[x].job \in DOMAIN jobs
                /\ jobs[runs[x].job].state = "completed"
  <2>1. CASE Submit(r)
    BY <1>1, <2>1 DEF Submit, RunTypes, Run
  <2>2. CASE ReadBinding(r)
    BY <1>1, <1>3, <2>2 DEF ReadBinding, RunTypes
  <2>3. CASE SubmitRefused(r)
    BY <1>1, <1>3, <2>3 DEF SubmitRefused, TryAgain, RunTypes, Run
  <2>4. CASE PollAnswered(r)
    <3>1. runs[r].job \in DOMAIN jobs
      BY <2>4 DEF PollAnswered, Kept
    <3>2. CASE /\ jobs[runs[r].job].state = "completed"
               /\ runs' = [runs EXCEPT ![r] = Ended(@, "passed")]
      BY <1>1, <1>3, <2>4, <3>1, <3>2 DEF PollAnswered, RunTypes
    <3>3. CASE runs' = [runs EXCEPT ![r] = Ended(@, "failed")]
      BY <1>1, <1>3, <3>3 DEF RunTypes
    <3> QED
      BY <2>4, <3>2, <3>3 DEF PollAnswered
  <2>5. CASE PollMissing(r)
    BY <1>1, <1>3, <2>5 DEF PollMissing, RunTypes, Run
  <2> QED
    BY <1>4, <2>1, <2>2, <2>3, <2>4, <2>5 DEF Relay
<1>5. ASSUME NEW r \in Runs, GitHub(r) PROVE runs'[x] = runs[x]
  <2>1. CASE Close(r) \/ Reopen(r) \/ Dispatch(r) \/ \E c \in Contents : Edit(c, r)
    <3>1. PICK run : runs' = [runs EXCEPT ![r] = run] /\ run.state # "passed"
      BY <1>3, <2>1 DEF Close, Reopen, Dispatch, Edit, Fire
    <3> QED
      BY <1>1, <3>1 DEF RunTypes
  <2>2. CASE SubmitLost(r)
    BY <1>1, <1>3, <2>2 DEF SubmitLost, TryAgain, RunTypes, Run
  <2>3. CASE RunFails(r)
    BY <1>1, <1>3, <2>3 DEF RunFails, RunTypes
  <2> QED
    BY <1>5, <2>1, <2>2, <2>3 DEF GitHub
<1>6. CASE Executor \/ Environment \/ UNCHANGED vars
  BY <1>2, <1>6 DEF Executor, StartJob, ReadPull, FinishJob, Environment, ManualSync, Tick,
                    JobFails, StorageError, Age, Restart, vars
<1> QED
  BY <1>4, <1>5, <1>6 DEF Next

\* The thread has a result only of the job it has, and a completed one only of
\* a read.
LEMMA WorkerNext ==
    ASSUME NEW rank \in [Contents -> Nat], TypeOK, TypeOK', ExecutorInv, ExecutorInv',
           AnswerInv(rank), [Next]_vars,
           \A c \in Contents : Answered(rank, c) => Answered(rank, c)'
    PROVE  (worker.job = 0 => worker.result = "none")' /\ WorkerAnswers(rank)'
<1>1. ServerStep /\ ServerTypes /\ OldJobs
  BY ServerSteps, OldJobsNext DEF TypeOK, ServerTypes
<1>2. CASE worker' = worker
  <2> SUFFICES ASSUME NEW c \in Contents, worker.job # 0, worker.result = "completed",
                      jobs'[worker.job].req = SyncRequest(c)
               PROVE  Answered(rank, c)
    BY <1>2 DEF AnswerInv, WorkerAnswers
  <2>1. worker.job \in DOMAIN jobs /\ worker.job \in DOMAIN jobs' /\ worker.job < nextId
    BY <1>1, <1>2 DEF ExecutorInv, Running, ServerTypes
  <2>2. jobs[worker.job].req = SyncRequest(c)
    BY <1>1, <2>1 DEF OldJobs
  <2> QED
    BY <2>2 DEF AnswerInv, WorkerAnswers
<1>3. CASE worker'.result = "none"
  BY <1>3 DEF WorkerAnswers
<1>4. CASE ReadPull
  <2>1. /\ worker'.job = worker.job /\ worker.job # 0 /\ UNCHANGED <<pull, jobs>>
        /\ worker.result = "none"
    BY <1>1, <1>4 DEF ReadPull, ReadOpen, ReadClosed, ServerTypes, Work
  <2> SUFFICES ASSUME NEW c \in Contents, worker'.result = "completed",
                      jobs[worker.job].req = SyncRequest(c)
               PROVE  Answered(rank, c)'
    BY <2>1 DEF WorkerAnswers
  <2>2. CASE ~pull.open
    BY <2>1, <2>2 DEF Answered, Past
  <2>3. CASE pull.open
    <3>1. ReadOpen(SyncRequest(c))
      BY <1>4, <2>3 DEF ReadPull, ReadClosed
    <3>2. seen' = c
      <4>1. /\ SyncRequest(c).kind = "sync_event" /\ SyncRequest(c).of = c
            /\ SyncRequest(pull.snap).of = pull.snap
        BY DEF SyncRequest
      <4>2. worker \in Work
        BY DEF TypeOK
      <4> QED
        BY <2>1, <3>1, <4>1, <4>2 DEF ReadOpen, Work
    <3> QED
      BY <3>2 DEF Answered
  <2> QED
    BY <2>2, <2>3
<1> QED
  BY <1>1, <1>2, <1>3, <1>4
  DEF ServerStep, server, Enqueue, StartJob, FinishJob, JobFails, StorageError, Restart, NoWork

\* With edits that go forward only, and no pull request opened again, a run that
\* passed for what the pull request shows speaks of what the service saved last,
\* for any bound on the table, the tries, the people and the faults.
THEOREM PassedAreSeen ==
    ASSUME NEW rank \in [Contents -> Nat], Forwards(rank)
    PROVE  Spec => []PassedRunsAreSeen
<1>1. Init => AnswerInv(rank)
  BY DEF Init, AnswerInv, SeenInv, WorkerAnswers, JobAnswers, RunAnswers, NoWork, FiredRun, OffRun
<1>2. /\ TypeOK /\ TypeOK' /\ PollInv /\ ExecutorInv /\ ExecutorInv'
      /\ AnswerInv(rank) /\ [Next]_vars
      => AnswerInv(rank)'
  <2> SUFFICES ASSUME TypeOK, TypeOK', PollInv, ExecutorInv, ExecutorInv', AnswerInv(rank),
                      [Next]_vars
               PROVE  AnswerInv(rank)'
    OBVIOUS
  <2>1. SeenInv(rank)' /\ \A c \in Contents : Answered(rank, c) => Answered(rank, c)'
    BY SeenNext DEF AnswerInv
  <2>2. (worker.job = 0 => worker.result = "none")' /\ WorkerAnswers(rank)'
    BY <2>1, WorkerNext
  <2>3. JobAnswers(rank)'
    <3> SUFFICES ASSUME NEW c \in Contents, NEW i \in DOMAIN jobs',
                        jobs'[i].state = "completed", jobs'[i].req = SyncRequest(c)
                 PROVE  Answered(rank, c)'
      BY DEF JobAnswers
    <3>1. /\ i \in DOMAIN jobs
          /\ jobs[i].req = SyncRequest(c)
          /\ \/ jobs[i].state = "completed"
             \/ i = worker.job /\ worker.job # 0 /\ worker.result = "completed"
      BY CompletedJobs DEF AnswerInv
    <3> QED
      BY <2>1, <3>1 DEF AnswerInv, JobAnswers, WorkerAnswers
  <2>4. RunAnswers(rank)'
    <3> SUFFICES ASSUME NEW c \in Contents, NEW x \in Runs,
                        runs'[x].state = "passed", runs'[x].req = SyncRequest(c)
                 PROVE  Answered(rank, c)'
      BY DEF RunAnswers
    <3>1. CASE runs'[x] = runs[x]
      BY <2>1, <3>1 DEF AnswerInv, RunAnswers
    <3>2. CASE /\ runs[x].req = SyncRequest(c)
               /\ runs[x].state = "polling"
               /\ runs[x].job \in DOMAIN jobs
               /\ jobs[runs[x].job].state = "completed"
      BY <2>1, <3>2 DEF PollInv, AnswerInv, JobAnswers
    <3> QED
      BY <3>1, <3>2, PassedRuns
  <2> QED
    BY <2>1, <2>2, <2>3, <2>4 DEF AnswerInv
<1>3. TypeOK /\ AnswerInv(rank) => PassedRunsAreSeen
  <2> SUFFICES ASSUME TypeOK, AnswerInv(rank), NEW r \in Runs, runs[r].state = "passed",
                      pull.open, runs[r].req = SyncRequest(pull.snap)
               PROVE  seen = pull.snap
    BY DEF PassedRunsAreSeen
  <2>1. pull.snap \in Contents /\ rank[pull.snap] \in Nat
    BY DEF TypeOK
  <2>2. Answered(rank, pull.snap)
    BY <2>1 DEF AnswerInv, RunAnswers
  <2> QED
    BY <2>1, <2>2 DEF Answered, Past
<1> QED
  BY <1>1, <1>2, <1>3, TypeCorrect, PollCorrect, ExecutorCorrect, PTL DEF Spec
===============================================================================
