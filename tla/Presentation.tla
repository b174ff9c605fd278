------------------------------ MODULE Presentation ------------------------------
(***************************************************************************)
(* What the bot shows of its gate on a pull request: one card among the     *)
(* comments and a check run of every snapshot, carried there by rows of the *)
(* outbox whose calls may fail, or come to pass without an answer.          *)
(*                                                                         *)
(* BotService keeps snapshots, receipts and statuses; of these the module   *)
(* has what decides the phase to show.  A body stands for the snapshot and  *)
(* the phase it is rendered from.  Rows are due in any order: a retry is    *)
(* put off by a time of its own.  The reads of one delivery are one step,   *)
(* its write another.                                                      *)
(***************************************************************************)
EXTENDS Naturals, FiniteSets

CONSTANTS
    Snapshots,      \* contents the pull request can show
    Commits,        \* head and base
    CommitOf,       \* [Snapshots -> Commits]
    Triggered,      \* snapshots whose risk score asks for an interview
    None,
    Channels,       \* of "card" and "check", those a behaviour may be about
    MaxAttempts,    \* _MAX_PRESENTATION_ATTEMPTS
    MayReturn,      \* whether the pull request may show what it showed before
    MaxEvents       \* bound on what people do, on crashes and on calls that fail

VARIABLES
    channel,    \* the one this behaviour is about: they share no row and no read
    pull,       \* GitHub: what the pull request shows, and its state
    closings,   \* GitHub: closed_at
    cards,      \* GitHub: comments with the marker of the card
    checks,     \* GitHub: check runs of the App
    flying,     \* writes given up by the client that GitHub may still apply
    late,       \* how many of those it has applied
    lost,       \* of each snapshot, whether its check run was last written without an
                \* answer, and its row then skipped as out of date
    stored,     \* the question set of each snapshot, and its preparation error
    current,    \* pr_snapshots table
    receipt,    \* the receipt for the current questions of each snapshot
    rows,       \* outbox table: the presentation rows
    active,     \* presentation_check_runs table
    due,        \* the rows left of a flush
    op,         \* what the holder of the lock is about to do
    visited,    \* contents the pull request has shown
    returned,   \* it has shown one of them, or of its states, again
    events      \* how many of those there were

github == <<channel, pull, closings, visited, returned>>
remote == <<cards, checks, flying, late, lost>>
vars == <<github, remote, stored, current, receipt, rows, active, due, op, events>>

Open == {"preparing", "awaiting_author", "verifying"}
Phase == Open \cup {"verified", "neutral", "closed", "superseded", "error"}

\* An event id: receipts and, for a cancel, the snapshot that supersedes are in it.
Row == [kind : {"card", "check", "cancel"}, snap : Snapshots, phase : Phase,
        for : Snapshots \cup {None}]
\* The columns: the closing in the payload, 0 without, and whether a check run
\* was left open.  Of a row that is sent only the last is read again.
Columns == [status : {"pending", "sent"}, failed : BOOLEAN, attempts : 0..MaxAttempts,
            closed : Nat, open : BOOLEAN]
Shown == [id : Nat \ {0}, snap : Snapshots, phase : Phase]

Idle == [stage |-> "idle"]
Op == {Idle}
      \cup [stage : {"announce", "generate", "project"}, snap : Snapshots]
      \cup [stage : {"closing"}, closed : Nat]
      \cup [stage : {"write", "save", "mark", "failed", "unrestored"}, row : Row, phase : Phase, id : Nat]

ASSUME PresentationAssumption ==
    /\ CommitOf \in [Snapshots -> Commits]
    /\ Triggered \subseteq Snapshots
    /\ None \notin Snapshots \cup Phase \cup [snap : Snapshots, phase : Phase]
    /\ MaxAttempts \in Nat \ {0}
    /\ Channels \subseteq {"card", "check"}
    /\ MayReturn \in BOOLEAN
    /\ MaxEvents \in Nat

TypeOK ==
    /\ channel \in Channels
    /\ pull \in [snap : Snapshots, state : {"open", "closed"}]
    /\ closings \in Nat
    /\ cards \subseteq Shown /\ checks \subseteq Shown
    /\ flying \subseteq [kind : {"card", "check"}, id : Nat, snap : Snapshots, phase : Phase]
    /\ late \in Nat /\ lost \in [Snapshots -> {"no", "unanswered", "skipped"}]
    /\ stored \in [Snapshots -> {"none", "preparing", "error", "ready"}]
    /\ current \in Snapshots \cup {None}
    /\ receipt \in [Snapshots -> {"none", "unverified", "verified"}]
    /\ DOMAIN rows \subseteq Row /\ \A e \in DOMAIN rows : rows[e] \in Columns
    /\ active \in [snap : Snapshots, phase : Phase] \cup {None}
    /\ due \subseteq DOMAIN rows /\ op \in Op
    /\ visited \subseteq Snapshots
    /\ returned \in BOOLEAN
    /\ events \in Nat

Init ==
    /\ channel \in Channels
    /\ pull \in [snap : Snapshots, state : {"open"}]
    /\ closings = 0
    /\ cards = {} /\ checks = {} /\ flying = {} /\ late = 0 /\ lost = [s \in Snapshots |-> "no"]
    /\ stored = [s \in Snapshots |-> "none"]
    /\ current = None
    /\ receipt = [s \in Snapshots |-> "none"]
    /\ rows = <<>>
    /\ active = None
    /\ due = {} /\ op = Idle
    /\ visited = {pull.snap}
    /\ returned = FALSE
    /\ events = 0

Event == events < MaxEvents /\ events' = events + 1

-------------------------------------------------------------------------------
\* The pull request.

Edit(s) ==
    /\ Event
    /\ pull.state = "open" /\ s # pull.snap
    /\ s \in visited => MayReturn
    /\ pull' = [pull EXCEPT !.snap = s]
    /\ visited' = visited \cup {s}
    /\ returned' = (returned \/ s \in visited)
    /\ UNCHANGED <<channel, closings, remote, stored, current, receipt, rows, active, due, op>>

Close ==
    /\ Event
    /\ pull.state = "open"
    /\ pull' = [pull EXCEPT !.state = "closed"]
    /\ closings' = closings + 1
    /\ UNCHANGED <<channel, visited, returned, remote, stored, current, receipt, rows, active, due, op>>

Reopen ==
    /\ Event
    /\ MayReturn
    /\ pull.state = "closed"
    /\ pull' = [pull EXCEPT !.state = "open"]
    /\ returned' = TRUE
    /\ UNCHANGED <<channel, closings, visited, remote, stored, current, receipt, rows, active, due, op>>

-------------------------------------------------------------------------------
\* What is to be shown.

PullCurrent(s) == pull.state = "open" /\ CommitOf[pull.snap] = CommitOf[s]
BindingCurrent(s) == pull.state = "open" /\ pull.snap = s
ClosedMatches(s) == pull.state = "closed" /\ CommitOf[pull.snap] = CommitOf[s]

\* _presentation_projection
Projected(s) ==
    IF s \notin Triggered THEN "neutral"
    ELSE IF stored[s] # "ready" THEN IF stored[s] = "error" THEN "error" ELSE "preparing"
    ELSE CASE receipt[s] = "none" -> "awaiting_author"
           [] receipt[s] = "unverified" -> "verifying"
           [] receipt[s] = "verified" -> "verified"

\* _closed_presentation_projection
ClosedProjected(s) ==
    IF receipt[s] = "verified" /\ CommitOf[pull.snap] = CommitOf[s] THEN "verified" ELSE "closed"

Subject(s) == IF receipt[s] = "none" THEN None ELSE s

\* _CHECK_MAP
Completed(phase) == phase \notin Open

\* Mutant: a check run whose row is not sent is thought not to exist.
SentAndOpen(c) == c.status = "sent" /\ c.open

\* _presentation_check_needs_reconciliation
NeedsReconciliation(c) == c.status = "pending" \/ c.open

\* _superseded_check_publications
Cancels(s, phase) ==
    LET old == {t \in Snapshots \ {s} :
                  \/ active # None /\ active.snap = t /\ ~Completed(active.phase)
                  \/ \E e \in DOMAIN rows : /\ e.kind = "check" /\ e.snap = t
                                            /\ NeedsReconciliation(rows[e])}
    IN {[kind |-> "cancel", snap |-> t, for |-> s,
         phase |-> IF phase = "closed" THEN "closed" ELSE "superseded"] : t \in old}

\* _projection_publications, without the statuses
Projection(s, phase) ==
    (IF channel = "check" THEN Cancels(s, phase) ELSE {})
      \cup {[kind |-> channel, snap |-> s, phase |-> phase,
             for |-> IF phase \in {"neutral", "preparing", "error"} THEN None ELSE Subject(s)]}

\* _queue_publication_connection, of rows that are asked for again if they failed
Fresh(closed) == [status |-> "pending", failed |-> FALSE, attempts |-> 0, closed |-> closed,
                  open |-> FALSE]
Requeued(c, closed) ==
    IF c.status = "sent" /\ ~c.failed THEN c
    ELSE [Fresh(closed) EXCEPT !.attempts = c.attempts]
Queue(es, closed) ==
    rows' = [e \in DOMAIN rows \cup es |->
               IF e \notin es THEN rows[e]
               ELSE IF e \in DOMAIN rows THEN Requeued(rows[e], closed) ELSE Fresh(closed)]

\* Rows are queued one by one, the cancels first.
Prefix(part, whole) ==
    part \subseteq whole /\ \A e \in part, f \in whole \ part : f.kind = "cancel" => e.kind = "cancel"

-------------------------------------------------------------------------------
\* Operations of the service, each under its lock.

Ready == op = Idle /\ due = {}

\* sync of an open pull request: the snapshot is saved with its questions, or
\* with none until they are prepared.
Sync(regenerate) ==
    LET s == pull.snap IN
    /\ Ready
    /\ pull.state = "open"
    /\ IF regenerate THEN /\ MayReturn /\ Event
                          /\ stored[s] = "ready" /\ s \in Triggered /\ receipt[s] = "none"
       ELSE UNCHANGED events
    /\ current' = s
    /\ stored' = [stored EXCEPT ![s] = IF s \notin Triggered THEN "ready"
                                       ELSE IF regenerate \/ @ = "none" THEN "preparing" ELSE @]
    /\ op' = [stage |-> IF stored'[s] = "ready" THEN "project" ELSE "announce", snap |-> s]
    /\ returned' = (returned \/ regenerate)
    /\ UNCHANGED <<channel, pull, closings, visited, remote, receipt, rows, active, due>>

Announce ==
    /\ op.stage = "announce"
    /\ Queue(Projection(op.snap, Projected(op.snap)), 0)
    /\ op' = [op EXCEPT !.stage = "generate"]
    /\ UNCHANGED <<github, remote, stored, current, receipt, active, due, events>>

\* The questions are there, or not; the pull request may have moved on.
Generate ==
    /\ op.stage = "generate"
    /\ \/ /\ PullCurrent(op.snap)
          /\ stored' = [stored EXCEPT ![op.snap] = "ready"]
          /\ op' = [op EXCEPT !.stage = "project"]
       \/ ~PullCurrent(op.snap) /\ op' = Idle /\ UNCHANGED stored
    /\ UNCHANGED <<github, remote, current, receipt, rows, active, due, events>>

GenerateFails ==
    /\ op.stage = "generate"
    /\ Event
    /\ stored' = [stored EXCEPT ![op.snap] = "error"]
    /\ op' = [op EXCEPT !.stage = "project"]
    /\ UNCHANGED <<github, remote, current, receipt, rows, active, due>>

Project ==
    /\ op.stage = "project"
    /\ Queue(Projection(op.snap, Projected(op.snap)), 0)
    /\ op' = Idle
    /\ UNCHANGED <<github, remote, stored, current, receipt, active, due, events>>

\* sync of a closed pull request
SyncClosed ==
    /\ Ready
    /\ pull.state = "closed" /\ current # None
    /\ op' = [stage |-> "closing", closed |-> closings]
    /\ UNCHANGED <<github, remote, stored, current, receipt, rows, active, due, events>>

ProjectClosed ==
    /\ op.stage = "closing"
    /\ Queue(Projection(current, ClosedProjected(current)), op.closed)
    /\ op' = Idle
    /\ UNCHANGED <<github, remote, stored, current, receipt, active, due, events>>

\* The answers of the author are accepted.
SaveReceipt ==
    /\ Ready
    /\ current \in Triggered /\ stored[current] = "ready" /\ receipt[current] = "none"
    /\ PullCurrent(current)
    /\ Event
    /\ receipt' = [receipt EXCEPT ![current] = "unverified"]
    /\ op' = [stage |-> "project", snap |-> current]
    /\ UNCHANGED <<github, remote, stored, current, rows, active, due>>

\* verify: the rows are queued in the transaction of the receipt.
Verify ==
    /\ Ready
    /\ current # None /\ stored[current] = "ready" /\ receipt[current] = "unverified"
    /\ BindingCurrent(current)
    /\ receipt' = [receipt EXCEPT ![current] = "verified"]
    /\ Queue({[kind |-> channel, snap |-> current, phase |-> "verified", for |-> current]}, 0)
    /\ UNCHANGED <<github, remote, stored, current, active, due, op, events>>

-------------------------------------------------------------------------------
\* The flush: each row that is due.

Mark(e, c) == rows' = [rows EXCEPT ![e] = c]
Sent(e, open) == Mark(e, [Fresh(0) EXCEPT !.status = "sent", !.open = open])

\* The phase to deliver a card or a check with, None when the row is stale.
Delivered(e) ==
    LET s == e.snap
        closing == rows[e].closed
    IN
    IF current # s \/ (e.for # None /\ receipt[s] = "none") THEN None
    ELSE IF e.phase = "closed" \/ closing # 0
    THEN IF ~ClosedMatches(s) \/ closing # closings THEN None
         ELSE IF e.phase = "closed" THEN ClosedProjected(s)
         ELSE IF Projected(s) = "verified" THEN "verified" ELSE None
    ELSE IF PullCurrent(s) THEN IF BindingCurrent(s) THEN Projected(s) ELSE None
    ELSE IF ClosedMatches(s) /\ Projected(s) = "verified" THEN "verified" ELSE None

\* load_due_publications: rows put off by a failure may be due or not.
Flush ==
    /\ Ready
    /\ \E put_off \in SUBSET {e \in DOMAIN rows : rows[e].failed} :
         due' = {e \in DOMAIN rows : rows[e].status = "pending"} \ put_off
    /\ due' # {}
    /\ UNCHANGED <<github, remote, stored, current, receipt, rows, active, op, events>>

Unanswered(e) == [lost EXCEPT ![e.snap] = IF e.kind = "check" THEN "unanswered" ELSE @]
Found(e) == IF e.kind = "card" THEN cards ELSE {c \in checks : c.snap = e.snap}

\* Mutant: each delivery makes a new one.
KnownNever(e) == 0

Known(e) == IF Found(e) = {} THEN 0 ELSE (CHOOSE c \in Found(e) : TRUE).id

\* Mutant: a check run that has ended is cancelled all the same.
CancelledAnyway(e) == IF current = e.snap \/ Found(e) = {} THEN None ELSE e.phase

\* The phase a cancel leaves, None when there is nothing to cancel.
Cancelled(e) ==
    IF \/ current = e.snap
       \/ Cardinality(Found(e)) <= 1 /\ \A c \in Found(e) : Completed(c.phase)
    THEN None ELSE e.phase

\* Mutant: a row is given up one try too late.
ExhaustedLater(e) == rows[e].attempts > MaxAttempts

\* A row whose snapshot could not be restored is due again at the limit too.
Exhausted(e) == rows[e].attempts >= MaxAttempts

\* The reads of a delivery: of the store, of the pull request and of what is
\* there already.
Deliver(e) ==
    LET Superseded(f) == f.snap # current /\ \E g \in DOMAIN rows : g.snap = current
        phase == IF e.kind = "cancel" THEN Cancelled(e) ELSE Delivered(e)
        ambiguous == Cardinality(Found(e)) > 1
        none == phase = None \/ (e.kind = "card" /\ phase \in {"neutral", "closed"} /\ cards = {})
        there == \E c \in Found(e) : c.snap = e.snap /\ c.phase = phase
    IN
    /\ op = Idle
    /\ ~Exhausted(e)
    /\ due' = due \ {e}
    /\ \/ /\ none
          /\ Sent(e, FALSE) /\ UNCHANGED op
          /\ lost' = [lost EXCEPT ![e.snap] = IF e.kind = "check" /\ @ = "unanswered" /\ ~Superseded(e)
                                             THEN "skipped" ELSE @]
       \/ /\ ~none /\ ambiguous
          /\ op' = [stage |-> "failed", row |-> e, phase |-> phase, id |-> 0]
          /\ UNCHANGED <<lost, rows>>
       \/ /\ ~none /\ ~ambiguous
          /\ op' = [stage |-> IF there THEN IF e.kind = "check" THEN "save" ELSE "mark" ELSE "write",
                    row |-> e, phase |-> phase, id |-> Known(e)]
          /\ UNCHANGED <<lost, rows>>
    /\ UNCHANGED <<github, cards, checks, flying, late, stored, current, receipt, active, events>>

\* A row with its last try behind it is given up; of another a read of GitHub
\* fails, or the snapshot in the store cannot be restored.
DeliverFails(e) ==
    /\ op = Idle
    /\ due' = due \ {e}
    /\ \E stage \in {"failed", "unrestored"} :
           /\ op' = [stage |-> stage, row |-> e, phase |-> e.phase, id |-> 0]
           /\ IF Exhausted(e) THEN stage = "failed" /\ UNCHANGED events ELSE Event
    /\ UNCHANGED <<github, remote, stored, current, receipt, rows, active>>

\* A write, to what was found or to a new one.
Target(e) == IF e.kind = "card" THEN "card" ELSE "check"
Written(things, id, s, phase) ==
    {c \in things : c.id # id} \cup
      {[id |-> IF id = 0 THEN Cardinality(things) + 1 ELSE id, snap |-> s, phase |-> phase]}
Apply(kind, id, s, phase) ==
    IF kind = "card" THEN cards' = Written(cards, id, s, phase) /\ UNCHANGED checks
    ELSE checks' = Written(checks, id, s, phase) /\ UNCHANGED cards

\* An unanswered write is looked for: it is there, or counts as failed.
Write ==
    /\ op.stage = "write"
    /\ Apply(Target(op.row), op.id, op.row.snap, op.phase)
    /\ op' = [op EXCEPT !.stage = IF op.row.kind = "check" THEN "save" ELSE "mark"]
    /\ UNCHANGED <<github, flying, late, lost, stored, current, receipt, rows, active, due, events>>

\* GitHub refuses it, answers an applied write with an error, or has not applied
\* it when it is looked for, and may yet.
WriteFails ==
    /\ op.stage = "write"
    /\ Event
    /\ \/ UNCHANGED remote
       \/ /\ Apply(Target(op.row), op.id, op.row.snap, op.phase)
          /\ lost' = Unanswered(op.row)
          /\ UNCHANGED <<flying, late>>
       \/ /\ flying' = flying \cup {[kind |-> Target(op.row), id |-> op.id,
                                     snap |-> op.row.snap, phase |-> op.phase]}
          /\ UNCHANGED <<cards, checks, late, lost>>
    /\ op' = [op EXCEPT !.stage = "failed"]
    /\ UNCHANGED <<github, stored, current, receipt, rows, active, due>>

Land(w) ==
    /\ flying' = flying \ {w}
    /\ late' = late + 1
    /\ Apply(w.kind, w.id, w.snap, w.phase)
    /\ UNCHANGED <<github, lost, stored, current, receipt, rows, active, due, op, events>>

\* save_presentation_check_run
SaveCheck ==
    /\ op.stage = "save"
    /\ active' = [snap |-> op.row.snap, phase |-> op.phase]
    /\ lost' = [lost EXCEPT ![op.row.snap] = "no"]
    /\ op' = [op EXCEPT !.stage = "mark"]
    /\ UNCHANGED <<github, cards, checks, flying, late, stored, current, receipt, rows, due, events>>

MarkSent ==
    /\ op.stage = "mark"
    /\ Sent(op.row, op.row.kind = "check" /\ ~Completed(op.phase))
    /\ op' = Idle
    /\ UNCHANGED <<github, remote, stored, current, receipt, active, due, events>>

\* mark_publication_retry, or mark_publication_terminal at the limit, which a
\* snapshot that cannot be restored does not look at
MarkFailed ==
    LET c == rows[op.row] IN
    /\ op.stage \in {"failed", "unrestored"}
    /\ Mark(op.row, IF op.stage = "unrestored" \/ c.attempts + 1 < MaxAttempts
                    THEN [c EXCEPT !.attempts = @ + 1, !.failed = TRUE]
                    ELSE [Fresh(0) EXCEPT !.status = "sent", !.failed = TRUE])
    /\ op' = Idle
    /\ UNCHANGED <<github, remote, stored, current, receipt, active, due, events>>

\* The process dies, between two rows of a projection too.
Crash ==
    /\ Event
    /\ op' = Idle /\ due' = {}
    /\ op # Idle \/ due # {}
    /\ lost' = IF op.stage = "save" THEN Unanswered(op.row) ELSE lost
    /\ \/ /\ op.stage \in {"idle", "announce", "generate", "write", "save", "mark", "failed",
                          "unrestored"}
          /\ UNCHANGED rows
       \/ /\ op.stage \in {"announce", "project"}
          /\ \E part \in SUBSET Projection(op.snap, Projected(op.snap)) :
               Prefix(part, Projection(op.snap, Projected(op.snap))) /\ Queue(part, 0)
       \/ /\ op.stage = "closing"
          /\ \E part \in SUBSET Projection(current, ClosedProjected(current)) :
               Prefix(part, Projection(current, ClosedProjected(current))) /\ Queue(part, op.closed)
    /\ UNCHANGED <<github, cards, checks, flying, late, stored, current, receipt, active>>

Next ==
    \/ \E s \in Snapshots : Edit(s)
    \/ Close \/ Reopen
    \/ \E regenerate \in BOOLEAN : Sync(regenerate)
    \/ Announce \/ Generate \/ GenerateFails \/ Project
    \/ SyncClosed \/ ProjectClosed \/ SaveReceipt \/ Verify
    \/ Flush
    \/ \E e \in due : Deliver(e) \/ DeliverFails(e)
    \/ Write \/ WriteFails \/ SaveCheck \/ MarkSent \/ MarkFailed
    \/ \E w \in flying : Land(w)
    \/ Crash

Spec == Init /\ [][Next]_vars

-------------------------------------------------------------------------------
\* The phase of the current snapshot, which is of what the pull request shows.
Wanted == IF pull.state = "open" THEN Projected(current) ELSE ClosedProjected(current)

\* All is queued that has to be shown of it, and all of it is delivered.
AtRest ==
    /\ op = Idle /\ flying = {} /\ late = 0
    /\ current = pull.snap
    /\ Projection(current, Wanted) \subseteq DOMAIN rows
    /\ \A e \in DOMAIN rows : rows[e].status = "sent" /\ ~rows[e].failed

\* At rest the card shows the phase of the current snapshot, unless there never
\* was a card and none is needed (_deliver_presentation_card); a content shown
\* twice is left aside, since its rows are not sent again (queue_publication).
CardSettles ==
    AtRest /\ channel = "card" /\ ~returned =>
        IF cards = {} THEN Wanted \in {"neutral", "closed"}
        ELSE {<<c.snap, c.phase>> : c \in cards} = {<<current, Wanted>>}

Ends(c) == c.snap # current => Completed(c.phase)

\* At rest the check run of the current snapshot shows its phase, and those of
\* earlier snapshots have ended, even when their creation was not answered, if a
\* newer snapshot was queued before their row was skipped
\* (_superseded_check_publications).
ChecksSettle ==
    AtRest /\ channel = "check" /\ ~returned =>
        /\ {c.phase : c \in {d \in checks : d.snap = current}} = {Wanted}
        /\ \A c \in checks : lost[c.snap] # "skipped" => Ends(c)

\* Once GitHub is reached again, what stands under the pull request tells what the
\* service knows of it, on both channels (_projection_publications).
Settles == CardSettles /\ ChecksSettle

\* A check run whose creation was interrupted ends once a newer snapshot is shown
\* (test_reconciles_interrupted_initial_check_before_new_snapshot).
InterruptedChecksEnd ==
    AtRest /\ channel = "check" /\ ~returned => \A c \in checks : Ends(c)

\* A card or a check run is made twice only by a write that GitHub applied after
\* it was looked for (_reconcile_pr_card_after_uncertain_write).
NoDuplicates ==
    /\ Cardinality(cards) <= 1 + late
    /\ \A s \in Snapshots : Cardinality({c \in checks : c.snap = s}) <= 1 + late

\* A success that a check run has shown is not taken back by a cancel or a
\* closing (_deliver_presentation_check_cancel), late writes apart.
SuccessPreserved ==
    [][\A c \in checks : c.phase = "verified" /\ late' = 0 => c \in checks']_vars
===============================================================================
