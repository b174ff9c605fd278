# Formal model of The Last Human

The Last Human is a GitHub App that holds a risky pull request until its author has
explained it: it reads the pull request, asks questions about it, has a model grade the
answers, has an Actions workflow verify the receipt of the accepted answers, and only then
posts a success status on the commit. This directory holds TLA+ models of that service,
the TLC configurations that check them and the proofs TLAPS checks. File paths without a
directory are under `src/lasthuman/server/` of the repository.

## 1. The system

| Component | State | Operations | Interacts with |
|---|---|---|---|
| `BotService` (`service.py`) | one `RLock`, `MemoryJob`s, an executor of one thread | `sync`, `sync_merged`, `submit`, `result`, `verify`, `publication_status`, `flush_publications`, `interview`, `dashboard` | the store (transactions), GitHub (reads before every decision), the model |
| `Store` (`store.py`) | SQLite: `snapshots`, `pr_snapshots`, `receipts`, `outbox`, `merges`, `presentation_check_runs`, `snapshot_operations` | one transaction per method | `BotService` only |
| Outbox delivery (`service.py`, `github.py`) | the rows of `outbox` | `flush_publications` every five seconds and after each job | GitHub statuses, comments, check runs, `workflow_dispatch` |
| Background jobs (`app.py`, `AppRuntime`) | `BackgroundJob`s by id and by deduplication key, an executor of one thread, a scheduler thread | `enqueue_*`, `_run_job`, `tick_once`, `shutdown` | `BotService`, the relay (HTTP) |
| Relay client (`relay.py`) | one process per workflow run; a state file between the steps of a verification | submit an event, poll its job, submit again after a restart; five verification steps | the web application, GitHub, OIDC |
| Sessions (`auth.py`) | sessions and one-time states in memory | sign-in, callback, expiry, live authorization | GitHub OAuth |
| Gateway (`gateway.py`) | tenant containers, creations in flight, a limiter of model calls | create, publish, retire, dispatch, tick | registry, one `AppRuntime` per repository |
| Registry (`registry.py`) | repositories and generations in SQLite, positive and negative caches | register, resolve, require_current, activate and roll back legacy rows | GitHub installations |
| Import and data lock (`migration.py`, `runtime_lock.py`) | journal, backup, lock file | import, recover, acquire | the file system |
| Snapshots (`snapshot.py`, `diff.py`, `structure.py`), risk (`risk.py`), interviews (`interview.py`) | none | read a pull request, score it, generate and grade questions | GitHub, git, the model |
| Views (`coverage.py`, `organization.py`, `presentation.py`, templates) | none | render | the store |

Events reach the service by two ways: the Actions relay sends the content of a pull request
it has just read (the *binding*) and the service compares it with what it reads itself; an
operator or an author asks for a sync by hand. Everything the service tells GitHub goes
through the outbox, so it is delivered at least once, after any delay, and in any order.
Verification goes round: a receipt queues a `workflow_dispatch`, the workflow run calls
`verify`, and `verify` queues the success.

### What is hard

- People change the pull request between any two calls the service makes; titles and labels
  change what a snapshot is without changing the head that carries the status.
- A status belongs to a commit; several snapshots share one commit.
- Grading runs without the lock, for minutes; what it graded may be gone when it ends.
- The process may stop between two transactions of one operation, or after GitHub has acted
  and before the outbox knows.
- Requests are repeated after five minutes while the answer may still be on its way, and
  their number is limited.
- Events of the relay are deduplicated, expire, get lost, and overtake one another.

`PROJECT.json` lists every such hazard at its line, with the properties that cover it.

### What makes the components correct

- Service and store: a success is shown only for what is verified or below the threshold; no
  verified receipt loses its questions; every receipt ends; at rest the head shows what the
  current snapshot deserves.
- Jobs and relay: no accepted event is lost without its run noticing; one active job per key;
  a run that succeeds means the service has looked at the pull request since.
- Gateway and registry: no operation of a retired generation takes effect; no two containers
  of one repository; creations and shutdown do not wait for each other for ever.
- Import: after a crash at any point either the old or the new database is in place, never
  half of one.
- Sessions: a state is used once; an expired or evicted session never authorizes.

## 2. Modules

| Module | Models |
|---|---|
| `ReviewGate` | the abstract promise: heads are opened only for what is explained or needs no explanation, explained snapshots stay so and are held no more |
| `BotService` | the service, its store, outbox, jobs, the relay's events and the pull request |
| `MCBotService` | constants for TLC: contents of a pull request and the edits between them |
| `BotServiceProofs` | theorems about `BotService` |
| `BackgroundJobs` | the jobs of the web application and the workflow runs that submit and poll them |
| `MCBackgroundJobs` | constants for TLC |
| `BackgroundJobsProofs` | theorems about `BackgroundJobs` |
| `RepositoryRegistry` | the rows, generations and remembered answers of the registry, as operators for its callers |
| `TenantManager` | the gateway's threads and the manager of the containers, on top of `RepositoryRegistry` |
| `MCTenantManager` | constants for TLC |
| `TenantManagerProofs` | theorems about `TenantManager`: stores, the shutdown, generations and what they publish |
| `Presentation` | the card and the check runs of a pull request, and the outbox rows that carry them |
| `MCPresentation` | constants for TLC |
| `PresentationProofs` | theorems about `Presentation` |
| `Verification` | the five commands of a verification run with their state file, on top of `BotService`, which it implements |
| `MCVerification` | constants for TLC |
| `VerificationProofs` | theorems about `Verification` |
| `AtomicImport` | the abstract promise of an import: store and registration together or not at all |
| `LegacyImport` | the import statement by statement, its recovery, the lock of the data directory, the gateway's start |
| `MCLegacyImport` | databases for TLC |
| `LegacyImportProofs` | theorems about `LegacyImport` |
| `AtomicSnapshot` | the abstract promise of the reader: a snapshot is a photograph |
| `SnapshotReader` | the calls of GitHub and git a snapshot is read by, and the shared cache |
| `MCSnapshotReader` | the files of each head for TLC |
| `SnapshotReaderProofs` | theorems about `SnapshotReader` |
| `SignIn` | sign-in, sessions and their limits |
| `MCSignIn` | symmetry for TLC |
| `SignInProofs` | theorems about `SignIn` |

`Verification` extends `BotService` and refines it with `runs` replaced by what its own runs are doing;
`BotService` refines `ReviewGate`, `LegacyImport` refines `AtomicImport`, `SnapshotReader` refines
`AtomicSnapshot`, and `TenantManager` is written on top of `RepositoryRegistry`. `Presentation` stands
beside `BotService`: it has of the service what decides a phase, and no status depends on it.

### `BotService`

The state is that of one pull request. `pull` is what GitHub shows; `latest` the last status
posted on each commit (the status GitHub enforces); `stored`, `current`, `receipt`, `merge`,
`outbox` and `attempts` are the tables of the store; `inbox`, `closedInbox` and `runs` are
what the relay has on its way; `jobs` are the answers being graded. A snapshot stands for its
content hash and a question set for its `question_version`, so equal contents are equal
snapshots, as `snapshot_id` makes them.

Every operation of `BotService` holds one lock. `op` says how far its holder has got, so
that each transaction, each publication and each read a publication or a verification rests on
is an action of its own, and a crash, an edit or a loss may fall between any two. `event` is what
is being delivered or verified, and `moved` remembers that the pull request changed after it was read:

| Code | Actions |
|---|---|
| `sync` | `SaveSnapshot`, then `Announce`, `Generate` / `GenerateFails` / `GenerateStale`, `Project` |
| `sync_merged`, `sync` of a closed pull request | `SaveMerge`, `ProjectClosed` |
| relay jobs (`AppRuntime._run_job`) | `SyncEvent`, `ClosedEvent`, `Verify` |
| `verify` | `VerifyReceipt` (the first read), `CheckContent` (the second), then `MarkVerified`; or `VerifyRefused` |
| `submit` and grading | `Submit`, `StartJob`, `EndJob`, `PassJob` (then `Project`), `ExpireJob` |
| `flush_publications`, `_deliver_event` | `FlushStart`, then per event `Look` (the store and the first read), `Agree` (the second), `Post`; or `Skip`, `DeliveryFails`, `RestoreFails`, `FlushAborts` |
| `publication_status` | `PublicationStatus` |
| restart | `Crash`, `CrashAfterPublish` |

A failure of `sync` after its first transaction that is no model failure (GitHub not
reachable) leaves what `GenerateStale` or a crash at that point leaves.

`RestoreFails` is the clause of `flush_publications` for a stored snapshot that cannot be restored
(`service.py:567`). It is the one that makes an event due again without a look at the limit of
dispatches, so that a dispatch may be due with its attempts at the limit; the next flush gives it up
and counts once more (`service.py:545`).

What is abstracted: a sync, the storing of questions and the acceptance of an answer read the pull
request and save in one step (`SaveSnapshot`, `Generate`, `PassJob`). What they save is of what they
read, in tables that only the holder of the lock writes, so that a change in between may as well
come after the save; it has its own event. A call of GitHub that is given up takes effect at once or
never here, and late only in `Presentation`. The order of a batch is arbitrary (the code orders by
due time, twenty at a time); the delay of a retry is `Elapse`, whenever it comes; which requests are
five minutes old is any choice. That `SaveSnapshot` reads a pull request in one step is what
`SnapshotReader` shows of the reader. The deployment is the one that publishes statuses (live mode,
public origin) with one tenant generation and a question count that does not change across restarts.
Card and check rows of the outbox are rows of their own that no status depends on; `Presentation`
has them.

### `BackgroundJobs`

A workflow run reads the pull request, posts an event bound to what it read and polls the job
it is given; `runs` holds how far each has got. `jobs` and `keys` are the two dictionaries of
`AppRuntime`, `queue` and `worker` its executor of one thread. The service is reduced to
`seen`, the content of the snapshot it saved last. Ids count up and stand for `created_at`;
`expired` is the id up to which jobs are older than half an hour, so that time is one action.
`broken` are the jobs that an error of SQLite has stopped: no clause of `_run_job` catches it, the
executor's future keeps it, and the job stays running until the process restarts.

| Code | Actions |
|---|---|
| `enqueue_*`, `_enqueue_job` | `Enqueue` (`Reuse` or `Create`) and `Refuse`, within `Submit`, `SubmitRefused`, `SubmitLost`, `ManualSync` |
| `_run_job` | `StartJob`, `ReadPull`, then `FinishJob`, `JobFails` or `StorageError` |
| `tick_once` | `Tick`; every other access purges as part of its own action |
| `_submit_actions_job`, `_request_json_response` | `Submit`, `SubmitRefused`, `SubmitLost`, with `TryAgain` |
| `_poll_actions_job` | `PollAnswered`, `PollMissing`, `RunFails` |
| restart, time | `Restart`, `Age` |

What is abstracted: two jobs never have one time of creation; owners are the runs themselves;
the branch of `_enqueue_job` for a key without its job is left out, as `KeysMatch` proves that
there is none; shutdown is a restart. Contents carry the head, the title and the labels that
make up a binding.

### `RepositoryRegistry` and `TenantManager`

The registry keeps one row per repository; its `generation` counts the registrations, and a
`RepositoryContext` (repository, installation, generation) is what every thread of the gateway
holds on to. `cache` and `denied` are the remembered answers; that they expire is `Forget`. A
registry call holds the lock of its repository while it asks GitHub, so the modules treat it as
one step: what another thread reads meanwhile it may as well have read before. A call that gets
no answer, or that the registry refuses for lack of capacity, changes nothing.

A container is one generation's runtime on the repository's store; `conts` are the containers
whose store is open, in numbered slots that are used again. `serving`, `retiring` and `creating`
are the three dictionaries of `TenantManager`. A thread (`th`) is a request or a tick of the
coordinator, with the context and the container it holds; `outer` is the container of a request
that reads a peer from within its own operation.

| Code | Actions |
|---|---|
| `resolve`, `register`, `tick_once` | `Visit`, `Event`, `Tick` |
| `container_for_context` | `Want`, then `Find`, `BeginCreation`, `Wait` (and `Told`) or `Refuse` |
| `_build_and_publish_container`, `_shutdown_retired` | `Replace`, `Drain`, `Drained` or `DrainFails`, `Check`, `Build` or `BuildFails`, `Confirm`, `Publish`, or `PublishTooLate` and `Discard` |
| `_operation`, `_require_open`, `dispatch`, `tick_once` | `Enter`, `Open`, `Guard`, `Post`, `Leave` |
| `organization_read` | `ReadPeers`, `ResolvePeer` |
| `shutdown` | `StopBegin`, `StopCollect`, `StopClose`, `StopDrained`, `StopRelease` |

What is abstracted: publishing a container and ending its creation are one step, since nobody
can tell one from the other but by waiting; of what an operation does, only the guard before a
call of GitHub and the call are told apart; a page reads one peer, and any; the two checks a
waiting thread makes are one. The owner allowlist, the capacity, the import's own activation of
a row, the health of tenants and the limiter of model calls are left out, and a build that fails
is taken to have closed what it had opened.

### `Presentation`

A behaviour is about the card or about the check runs (`channel`), which share no row and no read of
GitHub. `rows` are the presentation rows of the outbox, `active` the table of the check run that was
last shown, `cards` and `checks` what stands on GitHub, each with the snapshot and the phase it was
rendered from. `flying` are writes the client has given up and GitHub has not yet applied.

| Code | Actions |
|---|---|
| `sync` and its two projections | `Sync`, `Announce`, `Generate` / `GenerateFails`, `Project` |
| `sync_merged`, `sync` of a closed pull request | `SyncClosed`, `ProjectClosed` |
| `submit` after grading, `verify` | `SaveReceipt`, `Verify` |
| `_projection_publications`, `_superseded_check_publications`, `_queue_publication_connection` | `Projection`, `Cancels`, `Queue` within these |
| `flush_publications`, `_deliver_presentation_*` | `Flush`, then per row `Deliver` or `DeliverFails`, `Write` or `WriteFails`, `SaveCheck`, `MarkSent` or `MarkFailed` |
| GitHub applies a write late | `Land` |
| restart | `Crash`, which may fall between two rows of one projection |

What is abstracted: the reads of one delivery are one step and its write another; a commit stands for
head and base; merged and closed are not told apart; rows come due in any order, as each retry is put
off by a time of its own; the holder of the lock runs its batch to the end. A row whose stored snapshot
cannot be restored is made due again at its limit too (`MarkFailed`), and the next flush gives it up
(`Exhausted`).

A row is queued once per snapshot, phase and receipt, and a row that was sent is not sent again
(`store.py:1233`). When a pull request shows again what it showed before, its card may therefore stay
as it was; `returned` marks such behaviours, and what must hold at rest is stated of the others.

### `Verification`

A run of the workflow is five commands in processes of their own. `step` is the command a receipt's
run is in, `file` the state file that passes from one to the next, with the run id and attempt it was
written by, and `job` the verification job on the server, which is in memory and outlives the run.
`posted` numbers the statuses of a commit and `remote` is the number that the outbox stores with a
success, which is how the last command recognises it.

| Code | Actions |
|---|---|
| workflow start, its concurrency group | `StartRun`, with any command first where `AnyOrder` |
| `_verification_receipt_step`, `_snapshot_step`, `_compare_step` | `LoadReceipt`, `ReadSnapshot`, `Compare` |
| `_verification_verify_step`, `_poll_actions_job` | `SubmitVerification`, `Resubmit`, `Verified` |
| `_verification_publication_step` | `CheckPull`, `ReadView`, `ReadStatus`, round and round, then `Confirm` |
| `_load_verification_state`, `_write_verification_state` | `LoadState`, `WriteState` within these |
| any check or call that fails, deadlines, a killed command | `Fail` |
| the server's job | `RunVerification`, `CheckVerification`, `FinishVerification` or `StopVerification`, which are the steps of `verify`; `RefuseVerification`, `ExpireVerification` |
| the service | its own actions, with the status numbers: `PostWithId`, `DeliveryFailsWithId`, `CrashWithJobs`, `CrashAfterPublishWithJobs`, `People`, `Service` |

`AnyOrder` and the file an earlier run leaves on a machine that is used again are what the checks of
the state file are for. What is abstracted: a failure may come at any step, so that no liveness is
claimed; a receipt has one run at a time, as the workflow's concurrency group says.

### `LegacyImport`

`src`, `dest`, `staged` and `backup` are files, each of which stands for its stamp; `row` is the
registry's row, `hot` its own journal of SQLite after a transaction was cut off, `journal` the import's
journal and `lock` the lock of the data directory. Every statement after which a process may die is an
action.

| Code | Actions |
|---|---|
| `import_legacy_database` | `Begin` and `Retry`, `Lock`, `Recover`, `Check`, `Stage`, `WriteJournal`, `SetAside`, `Install`, `CheckSource`, `WriteRow`, `CommitRow`, `Mark`, `Finish`, `Clean`, `RemoveJournal` |
| `_rollback_import` | `Rollback`, `Restore`, `Clean`, `RemoveJournal` |
| `_plan_legacy_outbox`, `_apply_legacy_outbox`, `_rebased_payload` | `Plan`, `Converted`, `Rebased` |
| an exception, a killed process | `StepFails`, `Crash` |
| `DataDirectoryLock.acquire`, the gateway | `GatewayCheck`, `GatewayStart`, `GatewayRefused`, `GatewayStops`, `GatewayRegisters`, `GatewayServes` |
| what nobody should do | `SourceWrite`, `Tamper` |

The plan is made from the source and applied to the copy, and the copy is looked at again (`Stage`
requires `Converts` of it): a source that changes in between without a change of what was planned is
found only there.

A process that dies while `restore_legacy_activation` writes leaves SQLite's journal, as one that dies in
`WriteRow` does (`Crash`).

What is abstracted: a crash is the death of a process, not of the machine, so that writes are not lost;
versions of a source only grow, from `First`; the fields of the old database are taken as valid; a dry run changes
nothing and is left out. Recovery leaves files alone that the journal does not know (`Recognised`).

### `SnapshotReader`

A read is a look at the pull request, the list of pull requests with its head, its files, a forced
fetch into a cache that all reads of the repository share, the diff, and a second look. `ref` is
GitHub's `refs/pull/N/head`, which it moves some time after the head; `Shape` is what file list and
diff are compared by.

| Code | Actions |
|---|---|
| `read`, `_read_pull` | `FirstLook`, `SecondLook` |
| the pull requests of a commit | `CheckHead` |
| the limits and the file list | `ReadFiles` |
| `_prepare_cache`, `_fetch_refs` | `Fetch` |
| `rev-parse`, diff, policy and structure | `Build` |
| errors, timeouts, a killed process | `Fail` |
| people and GitHub | `Change`, `MoveRef` |

What is abstracted: a text stands for title, body, labels and author; every kind of file that is not
supported and every error of git or GitHub is `Fail`, and so is a read that finds the lock files of a
git that was killed; the parser of diffs, `read_file` and
`zone_owners` are left out. The state of a pull request is not in the fingerprint of the two looks: one
that is closed at the first and open at the second look skips the comparison of heads. Hence
`AloneOnItsHead` speaks of those that were open at the first.

### `SignIn`

`sessions` and `states` are the two tables under one lock; a request takes the lock in short sections
and talks to GitHub between them, and `cookie` changes only when its answer arrives.

| Code | Actions |
|---|---|
| `begin` | `EnsurePrelogin`, `RegisterState`, `GoToGitHub` |
| `callback` | `ConsumeState`, `CreateAuthenticated` or `Refused`, `Answer` |
| `authorize` | `Get`, `Check` |
| logout | `ValidateCsrf`, `Logout`, `Answer` |
| `_purge_locked`, restart | `Expire`, `Restart` |

What is abstracted: tokens never come back; the order in which sessions were touched stands for the
clock, which the code reads just before it takes the lock (`auth.py:142`, `206`, `235`), so that two
overlapping requests may be ordered the other way round there; expiry comes whenever it comes; GitHub names anyone or refuses.

## 3. Runs

| Run | Shows |
|---|---|
| `gate` | safety, action properties and the refinement of `ReviewGate`; one content below and one above the threshold on one head, two question sets, two edits (any of push, label, close, reopen, sync, rerun), one fault |
| `settled` | when contents do not come back: at rest the head shows what the current snapshot deserves; what is posted or verified is shown, or has been overtaken between the last read and the effect and its sync is waiting; three contents of one head, one question set |
| `liveness` | two answers on one thread, one content, two faults, restarts and requeues: both get a result, receipts end and status events drain |
| `regenerated` | a disagreement of the code with its documents, below |
| `jobs` | three runs and a person share a table of two jobs, with closing, reopening, expiry, a lost answer, an error of SQLite or a restart: no active job is dropped |
| `answers` | with a table of one job and resubmission: with two of lost answers, errors of SQLite and restarts: a run polls only what is its own; every job ends and every run is answered before its deadline, but for those an error of SQLite has stopped; and when contents do not come back a run that passed for what is shown means the service has saved it |
| `tenants` | two threads, one repository that is removed or renamed once, one event per name, containers that fail to build and to shut down, shutdown of the manager: one open store per repository, nothing open when the data lock is released, posts never go back a generation, every request and tick ends, and so does the shutdown |
| `import` | an importer that dies or fails twice at any statement and is run again, a gateway that starts, serves, registers and stops: an import happens whole or not at all, nothing of another generation or address is published, a gateway never runs beside a half-done import, a pending import ends |
| `present` | three contents on two commits, reopening and regeneration, writes that fail, are not answered or land late, crashes: at rest card and check runs tell what the service knows, nothing is made twice but by a late write, a success that was shown stays |
| `verification` | runs that begin with any command and find an old file, between edits, syncs, flushes and restarts: a green run ran all five commands and showed the recorded success, and all of it is a behaviour of `BotService` |
| `snapshots` | two pull requests pushed, rewritten, retargeted, edited, closed and changed back between the calls of two reads that share a cache: a snapshot is of one moment, a read nobody disturbs is not given up, a head is its pull request's own |
| `signin` | two tabs of two browsers sign in, come back, use and end sessions in tables of two, with expiry and restarts: a browser's session is its own sign-in's, a state makes one session, and the session that makes room is the least recently used |

Bounds. `MaxEdits` counts what people do and `MaxFaults` crashes, failed calls and losses.
Two contents of one head are what every hazard about a shared status needs, three what an
overtaken return would need; two question sets are what a regeneration needs; `MaxDispatch`
is 2 (3 in the code) so that first, last and exhausted tries all occur; one job is enough for
safety because jobs meet only in the receipt, two for the queue. Question sets and jobs are
interchangeable, and the safety runs use that symmetry. `liveness` has one content,
which nobody edits, so that two jobs and two faults fit: a dispatch fails once and fails again, or is
not restored, at its limit, and a status that somebody overtakes, which `settled` has, does not occur. Deadlock is not checked because a
pull request that nobody touches any more is the normal end.

For the jobs, what may be dropped does not depend on the content, so that `jobs` has one; `answers`
has two on one head, which only the whole binding tells apart. A table of one or two jobs (50 in the
code) is full as soon as two or three runs meet, which is what trimming and refusal need; one or two
tries of a POST (three in the code) and one resubmission (two in the code) reach both the try that is
left and the last one. `MaxManual` counts the syncs people ask for. Runs are interchangeable.

For the gateway, two threads are what a creation and a wait, a drain and an operation, or a page
and its peer need, and a page's own repository is among its peers; one change at GitHub retires a
generation and, with the event of the new name, begins another. Three slots are as many as two threads
can hold with one that is being built; a build waits for a slot only if there were more. One event per
name is what keeps the state graph small enough for the liveness properties; the theorems have no such
bound.

For the import, one importer is enough: the lock does not wait, so a second one finds it taken and
ends. Two repositories are what a pending journal of another one needs, two faults a crash within a
recovery, and two generations a row that was registered before. One
repository's source proves its installation and has rows of every kind, and gets a row of another
generation that the plan does not show; the other's proves nothing, and changes without a change of
what is planned.

For the presentation, two contents of one commit and a third of another, one of them below the
threshold, are what an overtaken check run and a neutral one need; three events allow a crash, a move
and a return. `MaxAttempts` is 2 so that first and last try occur.

For the verification, two contents of one head and one receipt with one question set, two events of
which one may be a fault: what a run compares is one binding, and one edit forth and one back or one
edit and one crash are what its second look is for. One resubmission (two in the code) is both the
first and the last.

For the snapshots, three heads (one beyond the limits), two bases (one of another branch) and two texts
tell every field from its earlier value; two changes allow one there and one back within a read, two
reads an interrupted one and its successor. For the sign-in, six tokens let both browsers sign in and
one session be evicted from a table of two; browsers are interchangeable, and so are requests.

Fairness (`Fairness` in `BotService`). The scheduler flushes every five seconds for as long as the
process runs and the executor serves its queue in order; both wait for a lock that others release
after finitely many steps and then take again, hence strong fairness for `FlushStart`, `SyncEvent`
and each job. Steps that only the holder of the lock can take (`Sync`, `Deliver`, `Mark`) get weak
fairness: it goes on, and its calls have timeouts. Requests become five minutes old. Nothing is
assumed of authors, maintainers, operators, losses, crashes, or of the verification workflow ever
calling back.

Fairness of `BackgroundJobs`: the executor's thread works while it has jobs, and a run goes on
polling or submitting until its deadline; both are loops that wait for nothing else, hence weak
fairness. Failures, expiry and deadlines are free to happen or not.

Fairness of `TenantManager`: threads run, and calls of GitHub have timeouts, hence weak fairness
for the steps of a thread that has begun and for the steps of a shutdown that has begun. No
thread has to come, and which of its steps a thread takes, a failure or an answer, is free.

Fairness of `LegacyImport`: an importer that runs goes on, as it waits for nothing, and whoever left an
import pending runs it again; faults are bounded, and the gateway is free. The other modules state no
liveness: a verification run may fail at any step, and at rest is what `Settles` and `SettledHeld` say.

### Disagreements found

`regenerated` is a run: `sync --regenerate` asks for receipts before the answer that is being graded has
one; the receipt is then saved for questions that are gone, which the docstring of `sync`
(`service.py:238`) and `docs/runbooks/github-app.md:265` exclude.

Four others were found while modelling and have no run of their own. The definitions that show them
stay in the modules; each is reproduced by checking the one property named.

1. A status event is sent once per snapshot (`store.py:1233`). When the risk label is removed and added
   again, the pending status of the risky snapshot is not posted again and the head keeps the neutral
   success of the quiet one. `docs/runbooks/github-app.md:297` says the pending status is queued for
   every triggered snapshot. Closing and reopening can produce the same. For the same reason the success
   of a verified snapshot is not posted again when it was skipped or overwritten while another title was
   shown. (`regenerated.cfg` with the invariant `SettledNotOpen`.)
2. No clause of `_run_job` (`app.py:422`) catches `sqlite3.Error`, which `tick_once` does (`app.py:186`).
   The job stays running, is never purged, and blocks its key; for a manual sync this is the resync route
   that `docs/runbooks/github-app.md:397` recommends. `StorageError` is an action of both runs about
   jobs, and `JobsEnd` and `RunsEnd` leave out exactly the jobs it stops and the runs that wait for them.
   (`answers.cfg` and `JobsEnd` without its last disjunct.)
3. Between `require_current` and the manager's lock (`gateway.py:436`) the registration may change and
   another thread may publish the new container. The late thread then finds a container of another
   context, takes it out of service (`gateway.py:483`), drains it, and only then learns that it is itself
   out of date. The next request builds the container again; those in between are answered with an error
   although their context is current. `docs/runbooks/first-event-registration.md:179` has it the other
   way round: changed contexts retire old runtimes. (`tenants.cfg` with `Spec`, `MoreEvents` and the
   property `OnlySupersededRetired`.)
4. A check run is created on GitHub, and the process dies before `save_presentation_check_run`
   (`store.py:1432`). The pull request moves on, and the restarted scheduler flushes before the next sync:
   the row is skipped as out of date and marked sent, no table remembers the check run, and no cancel is
   queued for it, so that it stays in progress on the old commit.
   `test_reconciles_interrupted_initial_check_before_new_snapshot`
   (`tests/test_app_presentation_service.py:225`) tests the order in which the sync comes first.
   (`present.cfg` with `Channels = {"check"}`, `MaxEvents = 2` and the invariant `InterruptedChecksEnd`;
   `ChecksSettle`, which holds, leaves out exactly the check runs lost this way.)

A completed job answers equal events for half an hour without reading anything (`app.py:341`):
a label removed and added again can end in a green run while the service still has the content in
between. `answers` and `settled` therefore follow pull requests whose contents do not come back.
`answers` leaves out reopening too: the sync of a pull request that is closed when its job runs completes
without a snapshot, and when the pull request is opened again within half an hour its event is
answered with that job.

## 4. Proofs

`BotServiceProofs` proves for every set of contents, commits, questions and jobs and for every
bound, from `ConstantsAssumption` and `NoneAssumption` alone but for the last:

- `TypeCorrect`: the types.
- `VerifiedQuestionsStay`: `VerifiedQuestionsKept` is not inductive: between the transaction
  that empties the questions and the one that stores new ones, the sync relies on having
  looked for receipts before. `QuestionsInv` adds that: while the lock's holder announces or
  generates, its snapshot is triggered and has no verified receipt.
- `SuccessIsJustified`, `NeverDowngraded`: from the types, `QuestionsInv`, `HandInv`, and three lemmas
  that say what a step may do to the tables (`TableSteps`), to the statuses (`StatusSteps`) and to
  receipts (`VerifiedForEver`). `HandInv` says that what the holder of the lock has found in the store
  before a post or a mark is still so: the store is written by nobody else.
- `PostsAreFresh` (`PostsMatchPull`), `VerifiedOnlyWhenShown` (`VerifiedWhenShown`): what it has found on
  GitHub need not be so any more. `FreshInv` says that it is, or that the pull request has moved since
  and, where no event is lost, the event of what it shows now is waiting. Both theorems are about
  `moved`, which is set by people only and only between a read and its effect.
- `HandoverIsQueued`, `DispatchIsBounded`: from what a step may do to the outbox
  (`OutboxSteps`). The limit of attempts is inductive with `BudgetInv`: what a flush has still
  to deliver is due, and only a flush has a batch. A dispatch is due with its attempts at the limit only
  after `RestoreFails`, and nothing but the last count is left to it then.
- `JobsFollow`: from what a step may do to the jobs (`JobSteps`). `MeasureStays` (`MeasureKept`): action by
  action.
- `ServiceImplementsGate`: `Spec => ImplementsGate`, step by step, from the invariants above
  and the fact that only triggered snapshots have a pending status.
- `SettledIsHeld` and `SettledIsOpen` (`SettledHeld`, `SettledOpen`), where no event is lost, no pull
  request reopened, and contents have a rank every edit raises (`Forwards`); without one of the three the
  properties do not hold. `SettleInv` is inductive: the service's snapshot is the one shown or has a
  lower rank (`CurrentInv`); a status is queued only for a snapshot the service has taken on, a success
  only for a verified receipt (`QueuedInv`); the pending status of what is shown is queued, or its event
  is still to come (`FaceInv`); and a status that was sent is the newest of its head, unless a higher rank
  made it too late to matter (`HeldInv`, `OpenInv`).

`BackgroundJobsProofs` proves, from `JobsAssumption` alone but for the last:

- `TypeCorrect` and `KeysMatch`: what purging, replacing, trimming and reusing leave of the two
  dictionaries; `KeysMatch` is inductive with the types.
- `PollersOwn`: inductive with `PollInv`, which adds that the job a run polls has an id that was
  given out, so that no later job can take its place after a restart.
- `TableIsBounded`: trimming and the check of the capacity look at the table without the job that
  is replaced; the new one then fits.
- `ActiveKept`: from lemmas that say which queued and running jobs every use of the table leaves.
- `ExecutorMatches`: inductive as `ExecutorInv`, which says it with `QueueInv` for the queue, whose ids
  ascend, and with `broken`, the jobs that run in the table and on no thread.
- `PassedAreSeen`: `PassedRunsAreSeen`, for contents that have a rank every edit raises, and without
  reopening (`Forwards`). When the author goes back, a run that passed for a content is not about its
  second appearance, and the property is false. `AnswerInv` says of each place an answer passes through,
  the thread, the table and the runs, that the content of a completed sync event was saved last or is of
  the past (`Answered`); what is of the past stays so, and what was saved last is only replaced by what
  the pull request shows later (`SeenNext`).

`TenantManagerProofs` proves, for any number of repositories, installations, threads and slots,
from `RegistryAssumption` and `ManagerAssumption` alone: `TypeCorrect`, `OneStoreOnly`,
`StoresKept` and `Released`. None of the three properties is inductive; `IInv` is, and says where
every open container is:

- `ThreadInv`: what a thread in an operation holds, and what it has left behind to read a peer, is
  open and has the thread's context. A container a thread was only given may be gone by the time
  it enters.
- `CreatorInv` and `StageInv`: `creating` names exactly the thread that creates, and each stage of
  a creation fixes what `serving` and `retiring` have for the repository; before it is published
  nobody else holds the new container.
- `DictionaryInv` and `OpenInv`: a repository has a container that serves or one that retires,
  not both, and every open container is one of these, or its creator's, or left for the shutdown.
- `StopInv`: once the shutdown has collected, nobody creates and what is left is open.

`OneStore` follows from these until the shutdown has collected (`OneStoreFollows`) and is kept after
it since stores only close. The steps are grouped by what they disturb: a thread that is not
creating changes only what it holds itself (`ThreadStep`), a creation only what belongs to its
repository (`CreationStep`), and a container keeps its context while anybody works in it (`Kept`).

It goes on from `IInv` to two properties of generations:

- No step takes a generation back, changes the installation of a row without its generation, or
  puts into the cache what the row has not (`RowsAscend`, from a lemma for each call of the
  registry).
- `PublicationsAscend` (`PostsInOrder`), with `OrderInv`: what a repository has published is not
  newer than any of its open containers, any creator about to build, or the row. A creator comes
  to `build` only with a context that was current when nothing of the repository was open
  (`CheckInOrder`); when a container posts, it is the only open one of its repository and nobody is
  about to build one (`PostInOrder`), so that nothing older is left to post after it.
- `NoGenerationTwice` (`GenerationsAreUnique`), with `UniqueInv`: every context in a thread, a
  container or the cache is the row's or has an earlier generation. A thread gets its contexts from
  other threads, from open containers, from the cache and from rows (`ThreadsSeen`).

`PresentationProofs` proves, from `PresentationAssumption` (which has it that `None` is neither a snapshot
nor a phase nor what a check run shows), for any snapshots, commits, attempts and bounds:

- `TypeCorrect`, with `RemoteInv`: ids are counted, and a write is aimed at something that exists; and
  with `RetryInv`: a row that cannot be restored was below its limit when its delivery began.
- `NothingTwice` (`NoDuplicates`), by `CountInv`: a card, or a check run of a snapshot, is there once, or
  not at all and about to be made, as long as no write is applied late.
- `SuccessStays` (`SuccessPreserved`), by `AnsweredInv`, `CancelInv` and `SuccessInv`: what was read of
  receipts and found on GitHub before a write still holds when the write is made.
- `RestSettles` (`Settles`), by `SettleInv`, whose parts say who has still something to do:
  what is being delivered is a pending row, and of the current snapshot or a cancel (`PendingInv`);
  while no snapshot has come back, an earlier one never will (`VisitedInv`, `ClosingInv`, `PhaseInv`) and
  its cancels are queued before the next one is announced (`CancelsQueued`); what is not pending any more
  has been written (`SavedInv`, `CancelledInv`, `RunningInv`); and while no write was applied late and
  none is under way unanswered, the card and the check run of a row that was sent show its projection
  (`ShowInv`). The lemma the steps of a delivery share, `DeliveredIsWanted`, says that what the outbox
  delivers is what the service would project now.

`SnapshotReaderProofs` proves, from `ReaderAssumption`, for any pull requests, heads, bases and texts,
with one invariant (`ReaderInv`): what was made of the cache is of the commit of the first look
(`ContentInv`); while nothing moves, what was read is what would be read now (`StillInv`); no moment
without another pull request of the head is missed (`MomentInv`, `PastInv`):

- `TypeCorrect`; `OnlyMovedChanged` (`OnlyMovedIsChanged`); `AloneOnHead` (`AloneOnItsHead`).
- `ReaderIsCamera`: every step is a step of `AtomicSnapshot` or none; a snapshot that is returned was
  what the pull request showed at some moment of the read.

`VerificationProofs` proves, from the assumptions of `BotService` and `VerificationAssumption`:

- `VerificationTypeCorrect`. The lemmas of `BotServiceProofs` are stated for `AnyStep`, a step of
  `BotService` or a verification that comes when its run is over, so that they hold for `Verification` as
  they stand (`ServiceSteps`).
- `GreenRan` (`GreenRanEveryCommand`): `FileInv` says, of every file of the latest run and attempt, which
  commands wrote it and those before it; another run's file is refused by its number.
- `GreenShows` (`GreenShowsSuccess`), by `ShownInv`: what the last command has seen stays so while nobody
  touches the pull request, because no other status then passes the checks of `_deliver_event`
  (`NothingElsePosted`) and a success that was sent is never made due again (`SentStays`).
- `VerificationImplements` (`ImplementsBotService`): the five commands, their file and the server's job
  stutter or are a run that starts, verifies or ends (`RunRefines`, `JobRefines`, `RunningJobRefines`);
  `UnderwayInv` says that a job which has begun to verify is still the one the service knows; the service's
  own steps are themselves (`ServiceRefines`, `PublicationRefines`).

`LegacyImportProofs` proves, from `ImportAssumption`, for any importers, repositories, databases and
bounds, with the invariant `IInv`:

- `LockInv`: who is at work, and only he, holds the lock. `PendingInv`: one import is pending at most, and
  none while the gateway runs. `JournalInv`: what a journal says is what an import may do. `StageInv`: what
  each step of an import has made sure of, of the row, the files and the journal. `FileInv`: whatever
  stands in a place of a store was converted or made by the gateway.
- `TypeCorrect`, `GatewayRunsAlone` (`GatewayRunsClean`), `NothingIsRevived` (`NothingRevived`).
- `ImportIsAtomic` (`ImplementsAtomicImport`): until `Mark` has made the journal say that the import is
  committed, a pending one counts as its old row and its old store, whatever lies in their places; `Mark`
  is the step at which it happens (`MarkImports`), and every other one stutters or is the gateway's.

`SignInProofs` proves, from `SignInAssumption`, for any browsers, people, requests and sizes of the tables:

- `TypeCorrect`; `SessionsAreOwn` (`OwnSignIn`), by `HomeInv`: there is one browser for every session
  token such that whatever carries the token, the table, a state, a request or a cookie, agrees; a
  token that is made may be given any, as `MadeInv` says that it is nowhere yet (`FreshHome`).
- `StatesAreSpentOnce` (`OneSessionPerState`), by `StateInv`: a state is in the table, or with one
  request that exchanges it, or spent.
- `OldestMakesRoom` (`OnlyOldestMakesRoom`), by `OrderInv`: whoever comes before another in the table was
  used before it. The history `used` is a relation between sessions, so that this needs no induction.

Some theorems state what no run checks: the types of `BotService`, `BackgroundJobs`,
`TenantManager`, `LegacyImport` and `Verification`, `HandoverQueued`, `JobsFollowReceipts` and `MeasureKept` of `BotService`,
`KeysMatchJobs`, `TableBounded` and `ExecutorMatchesJobs` of `BackgroundJobs`, `OperationsKeepStores` and
`GenerationsAreUnique` of `TenantManager`. They hold for every instance, and no run repeats them.

Model-checked only:

- the liveness properties, which are outside the prover's reach under fairness: `DispatchSettles`,
  `OutboxDrains`, `JobsFinish`, `RunsEnd`, `JobsEnd`, `RequestsEnd`, `StopEnds`, `PendingEnds`.

Every invariant and every action property that a passing run checks is proved, and so are the four
refinements. `OnlySupersededRetired` does not hold (section 3). The other properties that no run and no
theorem names are definitions for those who change the modules.

## 5. Plan

Done, in this order: `BotService` with `ReviewGate`; `BackgroundJobs`; `RepositoryRegistry` and
`TenantManager`; `Presentation`; `Verification`; `LegacyImport` with the lock of the data directory;
`SnapshotReader`; `SignIn`; and the proofs of section 4.

What would add most next:

1. Proofs: the conditions under which `OnlySupersededRetired` and `InterruptedChecksEnd` would hold.
2. Compose `BackgroundJobs` with `BotService`, whose `inbox` it would implement.
3. In `TenantManager`, a build that fails and cannot be shut down either (`gateway.py:541`), the health of
   tenants and the limiter of model calls.
4. Pure algorithms against reference definitions: risk score, coverage of merges, excerpts.

## 6. Not modelled

- Validation of tokens and payloads (`events.py`), settings (`config.py`), the command line, templates
  and wording: they keep no protocol state. The modules take an event as valid and signed.
- The risk score, the contents of questions, prompts and grades: pure functions and answers of a model.
  They enter as the parameter `Triggered` and as free choices; whether a formula is a good measure is no
  property of the code.
- Coverage, dashboards and organization views: they read what other modules write. The one part that
  meets a protocol, a page that reads a peer's store, is in `TenantManager`.
- In modelled parts, each named in its component's note in `PROJECT.json`: the merge comment of older
  versions, the index of submission owners, the health routes, the limiter of model calls, the parser of
  diffs, the validation of an old database field by field, a dry run of the import.
- A change of `TLH_QUESTION_COUNT` between two starts, which regenerates the questions of verified
  snapshots (`docs/runbooks/github-app.md:120`), is an operator's choice outside the model.
