--------------------------- MODULE PresentationProofs ---------------------------
(***************************************************************************)
(* What TLAPS proves of Presentation: its types, that nothing is made twice *)
(* but by late writes, that a success which was shown stays, and that what  *)
(* stands on GitHub at rest is what the service knows.                     *)
(***************************************************************************)
EXTENDS Presentation, FiniteSetTheorems, TLAPS

\* What stands on GitHub can be counted, and has ids of its own.
Counted(things) ==
    /\ things \subseteq Shown
    /\ IsFiniteSet(things)
    /\ \A c \in things : c.id <= Cardinality(things)
    /\ \A c, d \in things : c.id = d.id => c = d

\* A write makes a new thing or replaces the one it was meant for.
Exists(things, id) == id # 0 => \E c \in things : c.id = id
Things(kind, s) == IF kind = "card" THEN cards ELSE {c \in checks : c.snap = s}
Aimed(kind, id, s) == Exists(Things(kind, s), id)

RemoteInv ==
    /\ Counted(cards) /\ Counted(checks)
    /\ \A w \in flying : Aimed(w.kind, w.id, w.snap)
    /\ op.stage = "write" => Aimed(Target(op.row), op.id, op.row.snap)

TypeInv ==
    /\ TypeOK
    /\ RemoteInv
    /\ op.stage = "closing" => current # None

-------------------------------------------------------------------------------
\* What is to be shown.

LEMMA ProjectedIsPhase ==
    ASSUME TypeOK, NEW s \in Snapshots
    PROVE  Projected(s) \in Phase /\ ClosedProjected(s) \in Phase
<1>1. receipt[s] \in {"none", "unverified", "verified"}
  BY DEF TypeOK
<1> QED BY <1>1 DEF Projected, ClosedProjected, Phase, Open

LEMMA ProjectionIsRows ==
    ASSUME TypeOK, NEW s \in Snapshots, NEW phase \in Phase
    PROVE  Projection(s, phase) \subseteq Row
<1>1. Cancels(s, phase) \subseteq Row
  BY DEF Cancels, Row, Phase
<1>2. [kind |-> channel, snap |-> s, phase |-> phase,
       for |-> IF phase \in {"neutral", "preparing", "error"} THEN None ELSE Subject(s)] \in Row
  BY PresentationAssumption DEF TypeOK, Row, Subject
<1> QED BY <1>1, <1>2 DEF Projection

LEMMA QueueKeepsRows ==
    ASSUME TypeOK, NEW es, es \subseteq Row, NEW closed \in Nat, Queue(es, closed)
    PROVE  /\ DOMAIN rows \subseteq DOMAIN rows' /\ DOMAIN rows' \subseteq Row
           /\ \A e \in DOMAIN rows' : rows'[e] \in Columns
<1>1. DOMAIN rows' = DOMAIN rows \cup es
  BY DEF Queue
<1>2. Fresh(closed) \in Columns
  BY PresentationAssumption DEF Fresh, Columns
<1>3. ASSUME NEW c \in Columns PROVE Requeued(c, closed) \in Columns
  BY PresentationAssumption DEF Requeued, Fresh, Columns
<1>4. ASSUME NEW e \in DOMAIN rows' PROVE rows'[e] \in Columns
  <2>1. rows'[e] = IF e \notin es THEN rows[e]
                   ELSE IF e \in DOMAIN rows THEN Requeued(rows[e], closed) ELSE Fresh(closed)
    BY <1>1 DEF Queue
  <2> QED BY <1>1, <1>2, <1>3, <2>1 DEF TypeOK
<1> QED BY <1>1, <1>4 DEF TypeOK

LEMMA MarkKeepsRows ==
    ASSUME TypeOK, NEW e, NEW c \in Columns, Mark(e, c)
    PROVE  /\ DOMAIN rows' = DOMAIN rows
           /\ \A f \in DOMAIN rows' : rows'[f] \in Columns
BY DEF Mark, TypeOK

LEMMA SentIsColumns ==
    /\ [Fresh(0) EXCEPT !.status = "sent", !.failed = TRUE] \in Columns
    /\ \A b \in BOOLEAN : [Fresh(0) EXCEPT !.status = "sent", !.open = b] \in Columns
<1>1. Fresh(0) \in Columns
  BY PresentationAssumption DEF Fresh, Columns
<1>2. ASSUME NEW c \in Columns, NEW b \in BOOLEAN
      PROVE  /\ [c EXCEPT !.status = "sent", !.failed = TRUE] \in Columns
             /\ [c EXCEPT !.status = "sent", !.open = b] \in Columns
  BY DEF Columns
<1> QED BY <1>1, <1>2

LEMMA FoundIsShown ==
    ASSUME TypeInv, NEW e \in Row
    PROVE  /\ Found(e) \subseteq (IF e.kind = "card" THEN cards ELSE checks) /\ Found(e) \subseteq Shown
           /\ IsFiniteSet(Found(e)) /\ Cardinality(Found(e)) \in Nat
           /\ Known(e) \in Nat
           /\ Known(e) = 0 <=> Found(e) = {}
           /\ Exists(Found(e), Known(e))
<1>1. Found(e) \subseteq (IF e.kind = "card" THEN cards ELSE checks) /\ Found(e) \subseteq Shown
  BY DEF Found, TypeInv, TypeOK
<1>2. IsFiniteSet(Found(e)) /\ Cardinality(Found(e)) \in Nat
  BY <1>1, FS_Subset, FS_CardinalityType DEF TypeInv, RemoteInv, Counted
<1>3. CASE Found(e) = {}
  BY <1>1, <1>2, <1>3 DEF Known, Exists
<1>4. CASE Found(e) # {}
  <2> DEFINE d == CHOOSE c \in Found(e) : TRUE
  <2>1. d \in Found(e)
    BY <1>4
  <2>2. Known(e) = d.id
    BY <1>4 DEF Known
  <2> HIDE DEF d
  <2>3. d.id \in Nat \ {0}
    BY <1>1, <2>1 DEF Shown
  <2> QED BY <1>1, <1>2, <1>4, <2>1, <2>2, <2>3 DEF Exists
<1> QED BY <1>3, <1>4

\* A write of a thing that exists leaves as many as there were, and a new one is
\* one more.
LEMMA WrittenIsCounted ==
    ASSUME NEW things, Counted(things), NEW id \in Nat, NEW s \in Snapshots, NEW phase \in Phase,
           Exists(things, id)
    PROVE  /\ Counted(Written(things, id, s, phase))
           /\ Cardinality(Written(things, id, s, phase))
                = IF id = 0 THEN Cardinality(things) + 1 ELSE Cardinality(things)
<1> DEFINE n == Cardinality(things)
           new == [id |-> IF id = 0 THEN n + 1 ELSE id, snap |-> s, phase |-> phase]
           rest == {c \in things : c.id # id}
<1>0. Written(things, id, s, phase) = rest \cup {new}
  BY DEF Written
<1>1. n \in Nat /\ \A c \in things : c.id \in Nat \ {0} /\ c.id <= n
  BY FS_CardinalityType DEF Counted, Shown
<1>2. new \in Shown /\ new.id = (IF id = 0 THEN n + 1 ELSE id) /\ new \notin rest
  BY <1>1 DEF Shown
<1>3. IsFiniteSet(rest) /\ Cardinality(rest) = IF id = 0 THEN n ELSE n - 1
  <2>1. CASE id = 0
    <3>1. rest = things
      BY <1>1, <2>1
    <3> QED BY <2>1, <3>1 DEF Counted
  <2>2. CASE id # 0
    <3>1. PICK c \in things : c.id = id
      BY <2>2 DEF Exists
    <3>2. rest = things \ {c}
      BY <3>1 DEF Counted
    <3>3. IsFiniteSet(things \ {c}) /\ Cardinality(things \ {c}) = n - 1
      BY FS_RemoveElement DEF Counted
    <3> QED BY <2>2, <3>2, <3>3
  <2> QED BY <2>1, <2>2
<1>4. IsFiniteSet(rest \cup {new}) /\ Cardinality(rest \cup {new}) = Cardinality(rest) + 1
  <2> HIDE DEF rest, new
  <2> QED BY <1>2, <1>3, FS_AddElement
<1>5. Cardinality(rest \cup {new}) = IF id = 0 THEN n + 1 ELSE n
  BY <1>1, <1>3, <1>4
<1>6. \A c \in rest \cup {new} : c.id <= Cardinality(rest \cup {new})
  <2>1. new.id <= IF id = 0 THEN n + 1 ELSE n
    BY <1>1, <1>2 DEF Exists
  <2> QED BY <1>1, <1>5, <2>1
<1>7. ASSUME NEW c \in rest \cup {new}, NEW d \in rest \cup {new}, c.id = d.id PROVE c = d
  BY <1>1, <1>2, <1>7 DEF Counted
<1>8. rest \cup {new} \subseteq Shown
  BY <1>2 DEF Counted
<1> QED BY <1>0, <1>4, <1>5, <1>6, <1>7, <1>8 DEF Counted

\* What is there is replaced by one of the same id, and of the same snapshot if it
\* is a check run, so that no other write loses its aim.
LEMMA ApplyKeepsAims ==
    ASSUME TypeInv, NEW kind, NEW id \in Nat, NEW s \in Snapshots, NEW phase \in Phase,
           Aimed(kind, id, s), Apply(kind, id, s, phase)
    PROVE  /\ Counted(cards)' /\ Counted(checks)'
           /\ \A k, i, t : Aimed(k, i, t) => Aimed(k, i, t)'
<1>1. Counted(cards) /\ Counted(checks)
  BY DEF TypeInv, RemoteInv
<1>2. CASE kind = "card"
  <2>1. Exists(cards, id) /\ cards' = Written(cards, id, s, phase) /\ checks' = checks
    BY <1>2 DEF Apply, Aimed, Things
  <2>2. Counted(cards)' /\ Counted(checks)'
    BY <1>1, <2>1, WrittenIsCounted
  <2>3. ASSUME NEW i, Exists(cards, i) PROVE Exists(cards', i)
    <3> SUFFICES ASSUME i # 0 PROVE \E c \in cards' : c.id = i
      BY DEF Exists
    <3>1. PICK c \in cards : c.id = i
      BY <2>3 DEF Exists
    <3>2. CASE i # id
      BY <2>1, <3>1, <3>2 DEF Written
    <3>3. CASE i = id
      <4>1. [id |-> id, snap |-> s, phase |-> phase] \in cards'
        BY <2>1, <3>3 DEF Written
      <4> QED BY <3>3, <4>1
    <3> QED BY <3>2, <3>3
  <2> QED BY <2>1, <2>2, <2>3 DEF Aimed, Things
<1>3. CASE kind # "card"
  <2>1. Exists({c \in checks : c.snap = s}, id) /\ checks' = Written(checks, id, s, phase) /\ cards' = cards
    BY <1>3 DEF Apply, Aimed, Things
  <2>2. Counted(cards)' /\ Counted(checks)'
    BY <1>1, <2>1, WrittenIsCounted DEF Exists
  <2>3. ASSUME NEW i, NEW t, Exists({c \in checks : c.snap = t}, i)
        PROVE  Exists({c \in checks' : c.snap = t}, i)
    <3> SUFFICES ASSUME i # 0 PROVE \E c \in checks' : c.snap = t /\ c.id = i
      BY DEF Exists
    <3>1. PICK c \in checks : c.snap = t /\ c.id = i
      BY <2>3 DEF Exists
    <3>2. CASE i # id
      BY <2>1, <3>1, <3>2 DEF Written
    <3>3. CASE i = id
      <4>1. s = t
        BY <1>1, <2>1, <3>1, <3>3 DEF Exists, Counted
      <4>2. [id |-> id, snap |-> s, phase |-> phase] \in checks'
        BY <2>1, <3>3 DEF Written
      <4> QED BY <3>3, <4>1, <4>2
    <3> QED BY <3>2, <3>3
  <2> QED BY <2>1, <2>2, <2>3 DEF Aimed, Things
<1> QED BY <1>2, <1>3

LEMMA ApplyKeepsTypes ==
    ASSUME TypeInv, NEW kind, NEW id \in Nat, NEW s \in Snapshots, NEW phase \in Phase,
           Aimed(kind, id, s), Apply(kind, id, s, phase)
    PROVE  cards' \subseteq Shown /\ checks' \subseteq Shown
BY ApplyKeepsAims DEF Counted

LEMMA RemoteStays ==
    ASSUME RemoteInv, UNCHANGED <<cards, checks, flying>>, op'.stage = "write" => op' = op
    PROVE  RemoteInv'
BY DEF RemoteInv, Aimed, Things

\* What the holder of the lock is about to do.
LEMMA OpTyped ==
    ASSUME TypeOK
    PROVE  /\ op.stage \in {"announce", "generate", "project"} =>
                  op \in [stage : {"announce", "generate", "project"}, snap : Snapshots]
           /\ op.stage = "closing" => op \in [stage : {"closing"}, closed : Nat]
           /\ op.stage \in {"write", "save", "mark", "failed", "unrestored"} =>
                  op \in [stage : {"write", "save", "mark", "failed", "unrestored"}, row : Row, phase : Phase, id : Nat]
           /\ op.stage = "idle" <=> op = Idle
BY DEF TypeOK, Op, Idle

LEMMA DeliveredIsPhase ==
    ASSUME TypeOK, NEW e \in Row
    PROVE  Delivered(e) \in Phase \cup {None} /\ Cancelled(e) \in Phase \cup {None}
<1>1. e.snap \in Snapshots /\ e.phase \in Phase
  BY DEF Row
<1>2. Projected(e.snap) \in Phase /\ ClosedProjected(e.snap) \in Phase /\ "verified" \in Phase
  BY <1>1, ProjectedIsPhase DEF Phase
<1> QED BY <1>1, <1>2 DEF Delivered, Cancelled

\* A step of people or of the service that leaves GitHub's side alone.
TypedStep ==
    /\ channel' \in Channels
    /\ pull' \in [snap : Snapshots, state : {"open", "closed"}]
    /\ closings' \in Nat
    /\ stored' \in [Snapshots -> {"none", "preparing", "error", "ready"}]
    /\ current' \in Snapshots \cup {None}
    /\ receipt' \in [Snapshots -> {"none", "unverified", "verified"}]
    /\ active' \in [snap : Snapshots, phase : Phase] \cup {None}
    /\ visited' \subseteq Snapshots /\ returned' \in BOOLEAN /\ events' \in Nat

LEMMA PullTyped ==
    ASSUME TypeInv, \/ \E s \in Snapshots : Edit(s)
                    \/ Close \/ Reopen
    PROVE  TypeInv'
<1>1. TypedStep
  <2>1. ASSUME NEW s \in Snapshots, Edit(s) PROVE TypedStep
    <3>1. pull' \in [snap : Snapshots, state : {"open", "closed"}] /\ visited' \subseteq Snapshots
      BY <2>1 DEF Edit, TypeInv, TypeOK
    <3>2. returned' \in BOOLEAN /\ events' \in Nat
      BY <2>1 DEF Edit, Event, TypeInv, TypeOK
    <3> QED BY <2>1, <3>1, <3>2 DEF Edit, TypedStep, TypeInv, TypeOK
  <2>2. CASE Close
    <3>1. pull' \in [snap : Snapshots, state : {"open", "closed"}] /\ closings' \in Nat
      BY <2>2 DEF Close, TypeInv, TypeOK
    <3>2. events' \in Nat
      BY <2>2 DEF Close, Event, TypeInv, TypeOK
    <3> QED BY <2>2, <3>1, <3>2 DEF Close, TypedStep, TypeInv, TypeOK
  <2>3. CASE Reopen
    <3>1. pull' \in [snap : Snapshots, state : {"open", "closed"}]
      BY <2>3 DEF Reopen, TypeInv, TypeOK
    <3>2. events' \in Nat
      BY <2>3 DEF Reopen, Event, TypeInv, TypeOK
    <3> QED BY <2>3, <3>1, <3>2 DEF Reopen, TypedStep, TypeInv, TypeOK
  <2> QED BY <2>1, <2>2, <2>3
<1>2. UNCHANGED <<remote, rows, due, op, current>>
  BY DEF Edit, Close, Reopen, remote
<1>3. TypeOK'
  BY <1>1, <1>2 DEF TypedStep, TypeInv, TypeOK, remote
<1> QED BY <1>2, <1>3, RemoteStays DEF TypeInv, remote

LEMMA ServiceTyped ==
    ASSUME TypeInv, \/ \E regenerate \in BOOLEAN : Sync(regenerate)
                    \/ Generate \/ GenerateFails \/ SyncClosed \/ SaveReceipt
    PROVE  TypeInv'
<1>1. ASSUME NEW regenerate \in BOOLEAN, Sync(regenerate) PROVE TypeInv'
  <2>1. UNCHANGED <<remote, rows, due>> /\ op'.stage \in {"project", "announce"}
    BY <1>1 DEF Sync, remote
  <2>2. TypedStep
    <3>1. events' \in Nat /\ returned' \in BOOLEAN
      BY <1>1 DEF Sync, TypeInv, TypeOK, Event
    <3>2. pull.snap \in Snapshots /\ current' = pull.snap
      BY <1>1 DEF Sync, TypeInv, TypeOK
    <3>3. stored' \in [Snapshots -> {"none", "preparing", "error", "ready"}]
      BY <1>1, <3>2 DEF Sync, TypeInv, TypeOK
    <3> QED BY <1>1, <3>1, <3>2, <3>3 DEF Sync, TypedStep, TypeInv, TypeOK
  <2>3. op' \in Op
    BY <1>1 DEF Sync, TypeInv, TypeOK, Op
  <2>4. TypeOK'
    BY <2>1, <2>2, <2>3 DEF TypedStep, TypeInv, TypeOK, remote
  <2> QED BY <2>1, <2>4, RemoteStays DEF TypeInv, remote
<1>2. CASE Generate \/ GenerateFails
  <2>1. op \in [stage : {"announce", "generate", "project"}, snap : Snapshots]
    BY <1>2, OpTyped DEF Generate, GenerateFails, TypeInv
  <2>2. UNCHANGED <<remote, rows, due, current>> /\ op' \in Op /\ op'.stage \in {"project", "idle"}
    BY <1>2, <2>1 DEF Generate, GenerateFails, Op, Idle, remote
  <2>3. TypedStep
    BY <1>2, <2>1 DEF Generate, GenerateFails, Event, TypedStep, TypeInv, TypeOK, github
  <2>4. TypeOK'
    BY <2>2, <2>3 DEF TypedStep, TypeInv, TypeOK, remote
  <2> QED BY <2>2, <2>4, RemoteStays DEF TypeInv, remote
<1>3. CASE SyncClosed
  <2>1. UNCHANGED <<github, remote, stored, current, receipt, rows, active, due, events>>
    BY <1>3 DEF SyncClosed
  <2>2. op' \in Op /\ op'.stage = "closing" /\ current # None
    BY <1>3 DEF SyncClosed, Op, TypeInv, TypeOK
  <2>3. TypeOK'
    BY <2>1, <2>2 DEF TypeInv, TypeOK, github, remote
  <2> QED BY <2>1, <2>2, <2>3, RemoteStays DEF TypeInv, remote
<1>4. CASE SaveReceipt
  <2>1. UNCHANGED <<github, remote, stored, current, rows, active, due>>
    BY <1>4 DEF SaveReceipt
  <2>2. current \in Snapshots
    BY <1>4, PresentationAssumption DEF SaveReceipt
  <2>3. op' \in Op /\ op'.stage = "project"
    BY <1>4, <2>2 DEF SaveReceipt, Op
  <2>4. TypedStep
    <3>1. events' \in Nat
      BY <1>4 DEF SaveReceipt, Event, TypeInv, TypeOK
    <3>2. receipt' \in [Snapshots -> {"none", "unverified", "verified"}]
      BY <1>4 DEF SaveReceipt, TypeInv, TypeOK
    <3> QED BY <2>1, <3>1, <3>2 DEF TypedStep, TypeInv, TypeOK, github
  <2>5. TypeOK'
    BY <2>1, <2>3, <2>4 DEF TypedStep, TypeInv, TypeOK, remote
  <2> QED BY <2>1, <2>3, <2>5, RemoteStays DEF TypeInv, remote
<1> QED BY <1>1, <1>2, <1>3, <1>4

\* What each use of the outbox leaves of it.
RowsTyped ==
    /\ DOMAIN rows \subseteq DOMAIN rows' /\ DOMAIN rows' \subseteq Row
    /\ \A e \in DOMAIN rows' : rows'[e] \in Columns

LEMMA QueueTyped ==
    ASSUME TypeInv, \/ Announce \/ Project \/ ProjectClosed \/ Verify
    PROVE  TypeInv'
<1>1. RowsTyped /\ op' \in Op /\ op'.stage \in {"idle", "generate"}
  <2>1. CASE Announce \/ Project
    <3>1. op \in [stage : {"announce", "generate", "project"}, snap : Snapshots]
      BY <2>1, OpTyped DEF Announce, Project, TypeInv
    <3>2. Projection(op.snap, Projected(op.snap)) \subseteq Row
      BY <3>1, ProjectedIsPhase, ProjectionIsRows DEF TypeInv
    <3>3. RowsTyped
      <4>1. Queue(Projection(op.snap, Projected(op.snap)), 0)
        BY <2>1 DEF Announce, Project
      <4> QED BY <3>2, <4>1, QueueKeepsRows DEF TypeInv, RowsTyped
    <3> QED BY <2>1, <3>1, <3>3 DEF Announce, Project, Op, Idle
  <2>2. CASE ProjectClosed
    <3>1. current \in Snapshots /\ op.closed \in Nat
      BY <2>2, OpTyped DEF ProjectClosed, TypeInv, TypeOK
    <3>2. Projection(current, ClosedProjected(current)) \subseteq Row
      BY <3>1, ProjectedIsPhase, ProjectionIsRows DEF TypeInv
    <3>3. RowsTyped
      <4>1. Queue(Projection(current, ClosedProjected(current)), op.closed)
        BY <2>2 DEF ProjectClosed
      <4> QED BY <3>1, <3>2, <4>1, QueueKeepsRows DEF TypeInv, RowsTyped
    <3> QED BY <2>2, <3>3 DEF ProjectClosed, Op, Idle
  <2>3. CASE Verify
    <3> DEFINE e == [kind |-> channel, snap |-> current, phase |-> "verified", for |-> current]
    <3>1. e \in Row
      BY <2>3, PresentationAssumption DEF Verify, Row, Phase, TypeInv, TypeOK
    <3>2. Queue({e}, 0)
      BY <2>3 DEF Verify
    <3> HIDE DEF e
    <3>3. RowsTyped
      BY <3>1, <3>2, QueueKeepsRows DEF TypeInv, RowsTyped
    <3> QED BY <2>3, <3>3 DEF Verify, Ready, Op, Idle
  <2> QED BY <2>1, <2>2, <2>3
<1>2. UNCHANGED <<github, remote, stored, current, active, due, events>>
  BY DEF Announce, Project, ProjectClosed, Verify
<1>3. receipt' \in [Snapshots -> {"none", "unverified", "verified"}]
  BY DEF Announce, Project, ProjectClosed, Verify, TypeInv, TypeOK
<1>4. TypeOK'
  BY <1>1, <1>2, <1>3 DEF RowsTyped, TypeInv, TypeOK, github, remote
<1> QED BY <1>1, <1>2, <1>4, RemoteStays DEF TypeInv, remote

LEMMA FlushTyped ==
    ASSUME TypeInv, Flush
    PROVE  TypeInv'
<1>1. UNCHANGED <<github, remote, stored, current, receipt, rows, active, op, events>>
  BY DEF Flush
<1>2. due' \subseteq DOMAIN rows
  BY DEF Flush
<1>3. TypeOK'
  BY <1>1, <1>2 DEF TypeInv, TypeOK, github, remote
<1> QED BY <1>1, <1>3, RemoteStays DEF TypeInv, remote

\* What is meant for a thing that was found is meant for it still.
LEMMA DeliverTyped ==
    ASSUME TypeInv, NEW e \in due, Deliver(e) \/ DeliverFails(e)
    PROVE  TypeInv'
<1>0. e \in DOMAIN rows /\ e \in Row /\ e.snap \in Snapshots /\ e.phase \in Phase
  BY DEF TypeInv, TypeOK, Row
<1>1. CASE DeliverFails(e)
  <2>1. UNCHANGED <<github, remote, stored, current, receipt, rows, active>> /\ due' = due \ {e}
    BY <1>1 DEF DeliverFails
  <2>2. op' \in Op /\ op'.stage \in {"failed", "unrestored"} /\ events' \in Nat
    <3>1. PICK st \in {"failed", "unrestored"} :
            op' = [stage |-> st, row |-> e, phase |-> e.phase, id |-> 0]
      BY <1>1 DEF DeliverFails
    <3>2. events' \in Nat
      BY <1>1 DEF DeliverFails, Event, TypeInv, TypeOK
    <3> QED BY <1>0, <3>1, <3>2 DEF Op
  <2>3. TypeOK'
    BY <2>1, <2>2 DEF TypeInv, TypeOK, github, remote
  <2> QED BY <2>1, <2>2, <2>3, RemoteStays DEF TypeInv, remote
<1>2. CASE Deliver(e)
  <2> DEFINE phase == IF e.kind = "cancel" THEN Cancelled(e) ELSE Delivered(e)
  <2>1. UNCHANGED <<github, cards, checks, flying, late, stored, current, receipt, active, events>>
        /\ due' = due \ {e} /\ op = Idle
    BY <1>2 DEF Deliver
  <2>2. phase \in Phase \cup {None} /\ Known(e) \in Nat /\ Exists(Found(e), Known(e))
    BY <1>0, DeliveredIsPhase, FoundIsShown DEF TypeInv
  <2>3. \/ /\ Sent(e, FALSE) /\ UNCHANGED op
           /\ lost' = lost \/ lost' = [lost EXCEPT ![e.snap] = "skipped"]
        \/ /\ phase # None /\ UNCHANGED <<lost, rows>>
           /\ \E st \in {"failed", "save", "mark"}, id \in {0, Known(e)} :
                op' = [stage |-> st, row |-> e, phase |-> phase, id |-> id]
        \/ /\ phase # None /\ UNCHANGED <<lost, rows>>
           /\ op' = [stage |-> "write", row |-> e, phase |-> phase, id |-> Known(e)]
    BY <1>2 DEF Deliver, TypeInv, TypeOK
  <2> HIDE DEF phase
  <2>4. /\ DOMAIN rows' = DOMAIN rows
        /\ \A f \in DOMAIN rows' : rows'[f] \in Columns
    BY <2>3, MarkKeepsRows, SentIsColumns DEF Sent, TypeInv, TypeOK
  <2>5. lost' \in [Snapshots -> {"no", "unanswered", "skipped"}]
    BY <1>0, <2>3 DEF TypeInv, TypeOK
  <2>6. op' \in Op /\ op'.stage # "closing"
    <3>1. ASSUME phase # None, NEW st \in {"failed", "save", "mark", "write"}, NEW id \in {0, Known(e)},
                 op' = [stage |-> st, row |-> e, phase |-> phase, id |-> id]
          PROVE  op' \in Op /\ op'.stage # "closing"
      BY <1>0, <2>2, <3>1 DEF Op
    <3>2. Idle \in Op /\ Idle.stage # "closing"
      BY DEF Op, Idle
    <3> QED BY <2>1, <2>3, <3>1, <3>2
  <2>7. TypeOK'
    BY <2>1, <2>4, <2>5, <2>6 DEF TypeInv, TypeOK, github
  <2>8. op'.stage = "write" => Aimed(Target(op'.row), op'.id, op'.row.snap)
    <3> SUFFICES ASSUME op'.stage = "write" PROVE Aimed(Target(op'.row), op'.id, op'.row.snap)
      OBVIOUS
    <3>1. op'.row = e /\ op'.id = Known(e)
      <4>1. op' # op
        BY <2>1 DEF Idle
      <4>2. ASSUME NEW st \in {"failed", "save", "mark"}, NEW id \in {0, Known(e)},
                   op' = [stage |-> st, row |-> e, phase |-> phase, id |-> id]
            PROVE  FALSE
        BY <4>2
      <4>3. op' = [stage |-> "write", row |-> e, phase |-> phase, id |-> Known(e)]
        BY <2>3, <4>1, <4>2
      <4> QED BY <4>3
    <3>2. Found(e) = Things(Target(e), e.snap)
      BY DEF Found, Things, Target
    <3> QED BY <2>2, <3>1, <3>2 DEF Aimed
  <2>9. RemoteInv'
    BY <2>1, <2>8 DEF RemoteInv, Aimed, Things, TypeInv
  <2> QED BY <2>6, <2>7, <2>9 DEF TypeInv
<1> QED BY <1>1, <1>2

\* The write of an operation, or a late one.
LEMMA WriteTyped ==
    ASSUME TypeInv, Write \/ WriteFails \/ \E w \in flying : Land(w)
    PROVE  TypeInv'
<1>1. CASE Write \/ WriteFails
  <2>1. /\ op \in [stage : {"write", "save", "mark", "failed", "unrestored"}, row : Row, phase : Phase, id : Nat]
        /\ op.row \in Row /\ op.row.snap \in Snapshots /\ op.phase \in Phase /\ op.id \in Nat
    BY <1>1, OpTyped DEF Write, WriteFails, TypeInv, Row
  <2>2. Aimed(Target(op.row), op.id, op.row.snap) /\ Target(op.row) \in {"card", "check"}
    BY <1>1 DEF Write, WriteFails, TypeInv, RemoteInv, Target
  <2>3. UNCHANGED <<github, stored, current, receipt, rows, active, due, late>> /\ events' \in Nat
    BY <1>1 DEF Write, WriteFails, Event, TypeInv, TypeOK, remote
  <2>4. op' \in Op /\ op'.stage \in {"save", "mark", "failed"}
    BY <1>1, <2>1 DEF Write, WriteFails, Op
  <2>5. \/ Apply(Target(op.row), op.id, op.row.snap, op.phase)
        \/ UNCHANGED <<cards, checks>>
    BY <1>1 DEF Write, WriteFails, remote
  <2>6. flying' \subseteq flying \cup {[kind |-> Target(op.row), id |-> op.id,
                                       snap |-> op.row.snap, phase |-> op.phase]}
    BY <1>1 DEF Write, WriteFails, remote
  <2>7. lost' \in [Snapshots -> {"no", "unanswered", "skipped"}]
    BY <1>1, <2>1 DEF Write, WriteFails, Unanswered, TypeInv, TypeOK, remote
  <2>8. /\ Counted(cards)' /\ Counted(checks)'
        /\ \A k, i, t : Aimed(k, i, t) => Aimed(k, i, t)'
    <3>1. CASE UNCHANGED <<cards, checks>>
      BY <3>1 DEF TypeInv, RemoteInv, Aimed, Things
    <3>2. CASE Apply(Target(op.row), op.id, op.row.snap, op.phase)
      BY <2>1, <2>2, <3>2, ApplyKeepsAims
    <3> QED BY <2>5, <3>1, <3>2
  <2>9. cards' \subseteq Shown /\ checks' \subseteq Shown
    BY <2>8 DEF Counted
  <2>10. flying' \subseteq [kind : {"card", "check"}, id : Nat, snap : Snapshots, phase : Phase]
    BY <2>1, <2>2, <2>6 DEF TypeInv, TypeOK
  <2>11. TypeOK'
    BY <2>3, <2>4, <2>7, <2>9, <2>10 DEF TypeInv, TypeOK, github
  <2>12. \A w \in flying' : Aimed(w.kind, w.id, w.snap)'
    BY <2>2, <2>6, <2>8 DEF TypeInv, RemoteInv
  <2> QED BY <2>4, <2>8, <2>11, <2>12 DEF TypeInv, RemoteInv
<1>2. ASSUME NEW w \in flying, Land(w) PROVE TypeInv'
  <2>1. w.kind \in {"card", "check"} /\ w.id \in Nat /\ w.snap \in Snapshots /\ w.phase \in Phase
    BY DEF TypeInv, TypeOK
  <2>2. /\ Apply(w.kind, w.id, w.snap, w.phase) /\ flying' = flying \ {w} /\ late' = late + 1
        /\ UNCHANGED <<github, lost, stored, current, receipt, rows, active, due, op, events>>
    BY <1>2 DEF Land
  <2>3. /\ Counted(cards)' /\ Counted(checks)'
        /\ \A k, i, t : Aimed(k, i, t) => Aimed(k, i, t)'
    BY <2>1, <2>2, ApplyKeepsAims DEF TypeInv, RemoteInv
  <2>4. TypeOK'
    BY <2>2, <2>3 DEF Counted, TypeInv, TypeOK, github
  <2>5. RemoteInv'
    BY <2>2, <2>3 DEF TypeInv, RemoteInv
  <2> QED BY <2>2, <2>4, <2>5 DEF TypeInv
<1> QED BY <1>1, <1>2

\* What cannot be restored has a try left, for the flush looked at the limit.
RetryInv == op.stage = "unrestored" => rows[op.row].attempts < MaxAttempts

LEMMA MarkTyped ==
    ASSUME TypeInv, RetryInv, SaveCheck \/ MarkSent \/ MarkFailed
    PROVE  TypeInv'
<1>1. /\ op \in [stage : {"write", "save", "mark", "failed", "unrestored"}, row : Row, phase : Phase, id : Nat]
      /\ op.row \in Row /\ op.row.snap \in Snapshots /\ op.phase \in Phase
  BY OpTyped DEF SaveCheck, MarkSent, MarkFailed, TypeInv, Row
<1>2. UNCHANGED <<github, cards, checks, flying, late, stored, current, receipt, due, events>>
  BY DEF SaveCheck, MarkSent, MarkFailed, remote
<1>3. op' \in Op /\ op'.stage \in {"mark", "idle"}
  BY <1>1 DEF SaveCheck, MarkSent, MarkFailed, Op, Idle
<1>4. /\ lost' \in [Snapshots -> {"no", "unanswered", "skipped"}]
      /\ active' \in [snap : Snapshots, phase : Phase] \cup {None}
  BY <1>1 DEF SaveCheck, MarkSent, MarkFailed, TypeInv, TypeOK, remote
<1>5. /\ DOMAIN rows' = DOMAIN rows
      /\ \A f \in DOMAIN rows' : rows'[f] \in Columns
  <2>1. CASE SaveCheck
    BY <2>1 DEF SaveCheck, TypeInv, TypeOK
  <2>2. CASE MarkSent
    BY <2>2, MarkKeepsRows, SentIsColumns DEF MarkSent, Sent, TypeInv
  <2>3. CASE MarkFailed
    <3> DEFINE c == rows[op.row]
               d == IF op.stage = "unrestored" \/ c.attempts + 1 < MaxAttempts
                    THEN [c EXCEPT !.attempts = @ + 1, !.failed = TRUE]
                    ELSE [Fresh(0) EXCEPT !.status = "sent", !.failed = TRUE]
    <3>1. Mark(op.row, d)
      BY <2>3 DEF MarkFailed
    <3>2. op.row \in DOMAIN rows => d \in Columns
      <4> SUFFICES ASSUME op.row \in DOMAIN rows PROVE d \in Columns
        OBVIOUS
      <4>1. c \in Columns /\ (op.stage = "unrestored" => c.attempts < MaxAttempts)
        BY DEF TypeInv, TypeOK, RetryInv
      <4> HIDE DEF c
      <4>2. ASSUME NEW n \in 0..MaxAttempts PROVE [c EXCEPT !.attempts = n, !.failed = TRUE] \in Columns
        BY <4>1 DEF Columns
      <4>3. op.stage = "unrestored" \/ c.attempts + 1 < MaxAttempts
            => c.attempts + 1 \in 0..MaxAttempts
        BY <4>1, PresentationAssumption DEF Columns
      <4> QED BY <4>2, <4>3, SentIsColumns
    <3> HIDE DEF d
    <3> QED BY <3>1, <3>2 DEF Mark, TypeInv, TypeOK
  <2> QED BY <2>1, <2>2, <2>3
<1>6. TypeOK'
  BY <1>2, <1>3, <1>4, <1>5 DEF TypeInv, TypeOK, github
<1> QED BY <1>2, <1>3, <1>6, RemoteStays DEF TypeInv

LEMMA CrashTyped ==
    ASSUME TypeInv, Crash
    PROVE  TypeInv'
<1>1. UNCHANGED <<github, cards, checks, flying, late, stored, current, receipt, active>>
      /\ op' = Idle /\ due' = {} /\ events' \in Nat
  BY DEF Crash, Event, TypeInv, TypeOK
<1>2. lost' \in [Snapshots -> {"no", "unanswered", "skipped"}]
  <2>1. op.stage = "save" => op.row.snap \in Snapshots
    BY OpTyped DEF TypeInv, Row
  <2> QED BY <2>1 DEF Crash, Unanswered, TypeInv, TypeOK
<1>3. RowsTyped
  <2>1. CASE UNCHANGED rows
    BY <2>1 DEF RowsTyped, TypeInv, TypeOK
  <2>2. ASSUME op.stage \in {"announce", "project"},
               NEW part \in SUBSET Projection(op.snap, Projected(op.snap)), Queue(part, 0)
        PROVE  RowsTyped
    <3>1. op.snap \in Snapshots
      BY <2>2, OpTyped DEF TypeInv
    <3>2. part \subseteq Row
      BY <3>1, ProjectedIsPhase, ProjectionIsRows DEF TypeInv
    <3> QED BY <2>2, <3>2, QueueKeepsRows DEF TypeInv, RowsTyped
  <2>3. ASSUME op.stage = "closing",
               NEW part \in SUBSET Projection(current, ClosedProjected(current)), Queue(part, op.closed)
        PROVE  RowsTyped
    <3>1. current \in Snapshots /\ op.closed \in Nat
      BY <2>3, OpTyped DEF TypeInv, TypeOK
    <3>2. part \subseteq Row
      BY <3>1, ProjectedIsPhase, ProjectionIsRows DEF TypeInv
    <3> QED BY <2>3, <3>1, <3>2, QueueKeepsRows DEF TypeInv, RowsTyped
  <2> QED BY <2>1, <2>2, <2>3 DEF Crash
<1>4. Idle \in Op /\ Idle.stage = "idle"
  BY DEF Op, Idle
<1>5. TypeOK'
  BY <1>1, <1>2, <1>3, <1>4 DEF RowsTyped, TypeInv, TypeOK, github
<1> QED BY <1>1, <1>4, <1>5, RemoteStays DEF TypeInv

LEMMA RetryNext == TypeInv /\ RetryInv /\ [Next]_vars => RetryInv'
<1> SUFFICES ASSUME TypeInv, RetryInv, [Next]_vars PROVE RetryInv'
  OBVIOUS
<1>1. CASE UNCHANGED <<op, rows>>
  BY <1>1 DEF RetryInv
<1>2. CASE op'.stage # "unrestored"
  BY <1>2 DEF RetryInv
<1>3. CASE \/ UNCHANGED vars
           \/ \E s \in Snapshots : Edit(s)
           \/ Close \/ Reopen \/ Flush
           \/ \E w \in flying : Land(w)
  BY <1>1, <1>3 DEF vars, Edit, Close, Reopen, Flush, Land
<1>4. CASE \/ \E regenerate \in BOOLEAN : Sync(regenerate)
           \/ SyncClosed \/ SaveReceipt
  BY <1>2, <1>4 DEF Sync, SyncClosed, SaveReceipt
<1>5. CASE Announce \/ Generate \/ GenerateFails \/ Project
  <2>1. op \in [stage : {"announce", "generate", "project"}, snap : Snapshots]
    BY <1>5, OpTyped DEF Announce, Generate, GenerateFails, Project, TypeInv
  <2> QED BY <1>2, <1>5, <2>1 DEF Announce, Generate, GenerateFails, Project, Idle
<1>6. CASE ProjectClosed \/ Verify \/ Crash
  BY <1>2, <1>6 DEF ProjectClosed, Verify, Ready, Crash, Idle
<1>7. ASSUME NEW e \in due, Deliver(e) PROVE RetryInv'
  <2>1. \/ UNCHANGED op /\ op = Idle
        \/ \E st \in {"failed", "save", "mark", "write"} : \E phase, id :
              op' = [stage |-> st, row |-> e, phase |-> phase, id |-> id]
    BY <1>7 DEF Deliver
  <2> QED BY <1>2, <2>1 DEF Idle
<1>8. ASSUME NEW e \in due, DeliverFails(e) PROVE RetryInv'
  <2>1. PICK st \in {"failed", "unrestored"} :
          /\ op' = [stage |-> st, row |-> e, phase |-> e.phase, id |-> 0]
          /\ rows' = rows
          /\ Exhausted(e) => st = "failed"
    BY <1>8 DEF DeliverFails
  <2>2. rows[e].attempts \in Nat
    BY DEF TypeInv, TypeOK, Columns
  <2> QED BY <2>1, <2>2, PresentationAssumption DEF RetryInv, Exhausted
<1>9. CASE Write \/ WriteFails \/ SaveCheck \/ MarkSent \/ MarkFailed
  <2>1. \/ op' = Idle
        \/ /\ op \in [stage : {"write", "save", "mark", "failed", "unrestored"}, row : Row, phase : Phase, id : Nat]
           /\ \E st \in {"save", "mark", "failed"} : op' = [op EXCEPT !.stage = st]
    BY <1>9, OpTyped DEF Write, WriteFails, SaveCheck, MarkSent, MarkFailed, TypeInv
  <2> QED BY <1>2, <2>1 DEF Idle
<1> QED BY <1>3, <1>4, <1>5, <1>6, <1>7, <1>8, <1>9 DEF Next

LEMMA TypeNext == TypeInv /\ RetryInv /\ [Next]_vars => TypeInv'
<1> SUFFICES ASSUME TypeInv, RetryInv, [Next]_vars PROVE TypeInv'
  OBVIOUS
<1>1. CASE UNCHANGED vars
  <2>1. TypeOK'
    BY <1>1 DEF vars, github, remote, TypeInv, TypeOK
  <2> QED BY <1>1, <2>1, RemoteStays DEF vars, remote, TypeInv
<1>2. CASE Next
  BY <1>2, PullTyped, ServiceTyped, QueueTyped, FlushTyped, DeliverTyped, WriteTyped, MarkTyped, CrashTyped
  DEF Next
<1> QED BY <1>1, <1>2

LEMMA TypeCorrectly == Spec => []TypeInv
<1>1. Init => TypeInv /\ RetryInv
  <2> SUFFICES ASSUME Init PROVE TypeInv /\ RetryInv
    OBVIOUS
  <2>1. TypeOK
    <3>1. DOMAIN rows = {} /\ op \in Op
      BY DEF Init, Op
    <3>2. pull \in [snap : Snapshots, state : {"open", "closed"}] /\ pull.snap \in Snapshots
      BY DEF Init
    <3> QED BY <3>1, <3>2 DEF Init, TypeOK
  <2>2. Counted({})
    BY FS_EmptySet DEF Counted
  <2> QED BY <2>1, <2>2 DEF Init, TypeInv, RemoteInv, RetryInv, Idle
<1> QED BY <1>1, TypeNext, RetryNext, PTL DEF Spec

\* Every variable of the card, the check runs and their rows keeps its type.
THEOREM TypeCorrect == Spec => []TypeOK
<1>1. TypeInv => TypeOK
  BY DEF TypeInv
<1> QED BY <1>1, TypeCorrectly, PTL

-------------------------------------------------------------------------------
\* How much there is of a kind.

LEMMA ThingsFinite ==
    ASSUME TypeInv, NEW k, NEW t
    PROVE  /\ IsFiniteSet(Things(k, t)) /\ Cardinality(Things(k, t)) \in Nat
           /\ \A c, d \in Things(k, t) : c.id = d.id => c = d
<1>1. Counted(cards) /\ Counted(checks)
  BY DEF TypeInv, RemoteInv
<1>2. Things(k, t) \subseteq cards \/ Things(k, t) \subseteq checks
  BY DEF Things
<1> QED BY <1>1, <1>2, FS_Subset, FS_CardinalityType DEF Counted

LEMMA ThingsFiniteNext ==
    ASSUME TypeInv', NEW k, NEW t
    PROVE  Cardinality(Things(k, t))' \in Nat
<1>1. Counted(cards)' /\ Counted(checks)'
  BY DEF TypeInv, RemoteInv
<1>2. Things(k, t)' \subseteq cards' \/ Things(k, t)' \subseteq checks'
  BY DEF Things
<1> QED BY <1>1, <1>2, FS_Subset, FS_CardinalityType DEF Counted

\* A write adds one at most, and to what it was meant for; what is replaced is not
\* counted twice.
LEMMA ApplyCounts ==
    ASSUME TypeInv, NEW kind \in {"card", "check"}, NEW id \in Nat, NEW s \in Snapshots, NEW phase \in Phase,
           Aimed(kind, id, s), Apply(kind, id, s, phase), NEW k \in {"card", "check"}, NEW t
    PROVE  Cardinality(Things(k, t))' <= Cardinality(Things(k, t))
                + IF id = 0 /\ k = kind /\ (k = "card" \/ t = s) THEN 1 ELSE 0
<1> DEFINE T == Things(k, t)
<1>0. IsFiniteSet(T) /\ Cardinality(T) \in Nat /\ \A c, d \in T : c.id = d.id => c = d
  BY ThingsFinite
<1>1. CASE k # kind
  <2>1. Things(k, t)' = T
    BY <1>1 DEF Apply, Things
  <2> QED BY <1>0, <1>1, <2>1
<1>2. CASE k = "card" /\ kind = "card"
  <2>1. Exists(cards, id) /\ cards' = Written(cards, id, s, phase) /\ Counted(cards)
    BY <1>2 DEF Apply, Aimed, Things, TypeInv, RemoteInv
  <2>2. Cardinality(cards') = IF id = 0 THEN Cardinality(cards) + 1 ELSE Cardinality(cards)
    BY <2>1, WrittenIsCounted
  <2>3. T = cards /\ Things(k, t)' = cards'
    BY <1>2 DEF Things
  <2> QED BY <1>0, <1>2, <2>2, <2>3
<1>3. CASE k = "check" /\ kind = "check"
  <2> DEFINE new == [id |-> IF id = 0 THEN Cardinality(checks) + 1 ELSE id, snap |-> s, phase |-> phase]
             U == {c \in checks' : c.snap = t}
  <2>1. checks' = {c \in checks : c.id # id} \cup {new} /\ T = {c \in checks : c.snap = t}
        /\ Things(k, t)' = U
    BY <1>3 DEF Apply, Written, Things
  <2>2. Exists({c \in checks : c.snap = s}, id)
    BY <1>3 DEF Aimed, Things
  <2>3. CASE t # s
    <3>1. U \subseteq T
      BY <2>1, <2>3
    <3>2. Cardinality(U) <= Cardinality(T)
      BY <1>0, <3>1, FS_Subset
    <3> QED BY <1>0, <2>1, <2>3, <3>2, FS_Subset, FS_CardinalityType
  <2>4. CASE t = s /\ id = 0
    <3>1. U \subseteq T \cup {new}
      BY <2>1
    <3> HIDE DEF new, U, T
    <3>2. IsFiniteSet(T \cup {new}) /\ Cardinality(T \cup {new}) <= Cardinality(T) + 1
      <4>1. /\ IsFiniteSet(T \cup {new})
            /\ Cardinality(T \cup {new}) = IF new \in T THEN Cardinality(T) ELSE Cardinality(T) + 1
        BY <1>0, FS_AddElement
      <4> QED BY <1>0, <4>1
    <3>3. IsFiniteSet(U) /\ Cardinality(U) <= Cardinality(T \cup {new})
      BY <3>1, <3>2, FS_Subset
    <3>4. Cardinality(U) \in Nat /\ Cardinality(T \cup {new}) \in Nat
      BY <3>2, <3>3, FS_CardinalityType
    <3> QED BY <1>0, <1>3, <2>1, <2>4, <3>2, <3>3, <3>4 DEF T
  <2>5. CASE t = s /\ id # 0
    <3>1. PICK c \in T : c.id = id
      BY <2>1, <2>2, <2>5 DEF Exists
    <3>2. U = (T \ {c}) \cup {new}
      <4>1. \A d \in T : d # c <=> d.id # id
        BY <1>0, <3>1
      <4>2. new.snap = t
        BY <2>5
      <4> HIDE DEF new
      <4> QED BY <2>1, <4>1, <4>2
    <3> HIDE DEF new, U, T
    <3>3. IsFiniteSet(T \ {c}) /\ Cardinality(T \ {c}) = Cardinality(T) - 1
      BY <1>0, <3>1, FS_RemoveElement
    <3>4. IsFiniteSet(U) /\ Cardinality(U) <= Cardinality(T \ {c}) + 1
      <4>1. Cardinality(T \ {c}) \in Nat
        BY <3>3, FS_CardinalityType
      <4>2. /\ IsFiniteSet(U)
            /\ Cardinality(U) = IF new \in T \ {c} THEN Cardinality(T \ {c}) ELSE Cardinality(T \ {c}) + 1
        BY <3>2, <3>3, FS_AddElement
      <4> QED BY <4>1, <4>2
    <3>5. Cardinality(U) \in Nat
      BY <3>4, FS_CardinalityType
    <3> QED BY <1>0, <2>1, <2>5, <3>3, <3>4, <3>5 DEF T
  <2> QED BY <2>3, <2>4, <2>5
<1> QED BY <1>1, <1>2, <1>3

\* There is one of a kind, and one more for every late write; nothing is about to be
\* made while there is more than these.
CountInv ==
    /\ \A k \in {"card", "check"}, t \in Snapshots : Cardinality(Things(k, t)) <= 1 + late
    /\ op.stage = "write" /\ op.id = 0 => Cardinality(Things(Target(op.row), op.row.snap)) <= late

LEMMA CountStays ==
    ASSUME CountInv, UNCHANGED <<cards, checks, late>>, op'.stage = "write" => op' = op
    PROVE  CountInv'
BY DEF CountInv, Things

\* What steps other than these do to cards and check runs: nothing.
LEMMA RemoteSteps ==
    ASSUME TypeInv, [Next]_vars
    PROVE  \/ UNCHANGED <<cards, checks, late>> /\ (op'.stage = "write" => op' = op)
           \/ \E e \in due : Deliver(e)
           \/ Write \/ WriteFails
           \/ \E w \in flying : Land(w)
<1>1. CASE UNCHANGED vars
  BY <1>1 DEF vars, remote
<1>2. CASE \/ \E s \in Snapshots : Edit(s)
           \/ Close \/ Reopen
  BY <1>2 DEF Edit, Close, Reopen, remote
<1>3. CASE \E regenerate \in BOOLEAN : Sync(regenerate)
  <2>1. PICK regenerate \in BOOLEAN : Sync(regenerate)
    BY <1>3
  <2>2. op'.stage # "write" /\ UNCHANGED <<cards, checks, late>>
    BY <2>1 DEF Sync, remote
  <2> QED BY <2>2
<1>4. CASE Announce \/ Generate \/ GenerateFails \/ Project
  <2>1. op \in [stage : {"announce", "generate", "project"}, snap : Snapshots]
    BY <1>4, OpTyped DEF Announce, Generate, GenerateFails, Project, TypeInv
  <2>2. op'.stage \in {"generate", "project", "idle"}
    BY <1>4, <2>1 DEF Announce, Generate, GenerateFails, Project, Idle
  <2> QED BY <1>4, <2>2 DEF Announce, Generate, GenerateFails, Project, remote
<1>5. CASE SyncClosed \/ ProjectClosed \/ SaveReceipt \/ Verify \/ Flush
  BY <1>5 DEF SyncClosed, ProjectClosed, SaveReceipt, Verify, Flush, Ready, Idle, remote
<1>6. CASE \E e \in due : DeliverFails(e)
  BY <1>6 DEF DeliverFails, remote
<1>7. CASE SaveCheck \/ MarkSent \/ MarkFailed \/ Crash
  <2>1. op.stage \in {"save"} => op \in [stage : {"write", "save", "mark", "failed", "unrestored"}, row : Row, phase : Phase, id : Nat]
    BY OpTyped DEF TypeInv
  <2>2. op'.stage \in {"mark", "idle"}
    BY <1>7, <2>1 DEF SaveCheck, MarkSent, MarkFailed, Crash, Idle
  <2> QED BY <1>7, <2>2 DEF SaveCheck, MarkSent, MarkFailed, Crash, remote
<1> QED BY <1>1, <1>2, <1>3, <1>4, <1>5, <1>6, <1>7 DEF Next

LEMMA OpWrites ==
    ASSUME TypeInv, Write \/ WriteFails
    PROVE  /\ op.row \in Row /\ op.row.snap \in Snapshots /\ op.phase \in Phase /\ op.id \in Nat
           /\ Target(op.row) \in {"card", "check"} /\ Aimed(Target(op.row), op.id, op.row.snap)
           /\ op'.stage # "write" /\ late' = late
           /\ \/ Apply(Target(op.row), op.id, op.row.snap, op.phase)
              \/ UNCHANGED <<cards, checks>>
<1>1. /\ op \in [stage : {"write", "save", "mark", "failed", "unrestored"}, row : Row, phase : Phase, id : Nat]
      /\ op.stage = "write"
  BY OpTyped DEF Write, WriteFails, TypeInv
<1>2. op.row \in Row /\ op.row.snap \in Snapshots /\ op.phase \in Phase /\ op.id \in Nat
  BY <1>1 DEF Row
<1>3. Target(op.row) \in {"card", "check"} /\ Aimed(Target(op.row), op.id, op.row.snap)
  BY <1>1 DEF TypeInv, RemoteInv, Target
<1>4. op'.stage # "write" /\ late' = late
  BY <1>1 DEF Write, WriteFails, remote
<1>5. \/ Apply(Target(op.row), op.id, op.row.snap, op.phase)
      \/ UNCHANGED <<cards, checks>>
  BY DEF Write, WriteFails, remote
<1> QED BY <1>2, <1>3, <1>4, <1>5

LEMMA DeliverStarts ==
    ASSUME TypeInv, NEW e \in due, Deliver(e)
    PROVE  /\ e \in Row /\ e \in DOMAIN rows /\ e.snap \in Snapshots
           /\ UNCHANGED <<cards, checks, flying, late, stored, current, receipt, pull>>
           /\ op'.stage = "write" =>
                 /\ Cardinality(Found(e)) <= 1
                 /\ op' = [stage |-> "write", row |-> e, id |-> Known(e),
                           phase |-> IF e.kind = "cancel" THEN Cancelled(e) ELSE Delivered(e)]
                 /\ op'.phase # None
<1>1. e \in Row /\ e \in DOMAIN rows /\ e.snap \in Snapshots
  BY DEF TypeInv, TypeOK, Row
<1>2. UNCHANGED <<cards, checks, flying, late, stored, current, receipt, pull>> /\ op = Idle
  BY DEF Deliver, github
<1> DEFINE phase == IF e.kind = "cancel" THEN Cancelled(e) ELSE Delivered(e)
<1>3. ASSUME op'.stage = "write"
      PROVE  /\ Cardinality(Found(e)) <= 1 /\ phase # None
             /\ op' = [stage |-> "write", row |-> e, id |-> Known(e), phase |-> phase]
  <2>1. op' # op
    BY <1>2, <1>3 DEF Idle
  <2>2. ~ op' = [stage |-> "failed", row |-> e, phase |-> phase, id |-> 0]
    BY <1>3
  <2>3. Cardinality(Found(e)) \in Nat
    BY <1>1, FoundIsShown
  <2>4. /\ ~(Cardinality(Found(e)) > 1) /\ phase # None
        /\ \E st \in {"save", "mark", "write"} : op' = [stage |-> st, row |-> e, phase |-> phase, id |-> Known(e)]
    BY <2>1, <2>2 DEF Deliver
  <2> HIDE DEF phase
  <2> QED BY <1>3, <2>3, <2>4
<1> QED BY <1>1, <1>2, <1>3

LEMMA CountNext == TypeInv /\ TypeInv' /\ CountInv /\ [Next]_vars => CountInv'
<1> SUFFICES ASSUME TypeInv, TypeInv', CountInv, [Next]_vars PROVE CountInv'
  OBVIOUS
<1>0. late \in Nat
  BY DEF TypeInv, TypeOK
<1>1. ASSUME NEW e \in due, Deliver(e) PROVE CountInv'
  <2>1. /\ e \in Row /\ UNCHANGED <<cards, checks, late>>
        /\ op'.stage = "write" => op'.row = e /\ op'.id = Known(e)
    BY <1>1, DeliverStarts
  <2>2. Known(e) = 0 => Cardinality(Things(Target(e), e.snap)) = 0
    <3>1. Found(e) = Things(Target(e), e.snap)
      BY DEF Found, Things, Target
    <3> QED BY <2>1, <3>1, FoundIsShown, FS_EmptySet
  <2>3. \A k, t : Things(k, t)' = Things(k, t)
    BY <2>1 DEF Things
  <2> QED BY <1>0, <2>1, <2>2, <2>3 DEF CountInv
<1>2. CASE Write \/ WriteFails
  <2>1. /\ op.row.snap \in Snapshots /\ op.phase \in Phase /\ op.id \in Nat
        /\ Target(op.row) \in {"card", "check"} /\ Aimed(Target(op.row), op.id, op.row.snap)
        /\ op.stage = "write" /\ op'.stage # "write" /\ late' = late
    BY <1>2, OpWrites DEF Write, WriteFails
  <2>2. CASE UNCHANGED <<cards, checks>>
    BY <2>1, <2>2, CountStays
  <2>3. CASE Apply(Target(op.row), op.id, op.row.snap, op.phase)
    <3>1. ASSUME NEW k \in {"card", "check"}, NEW t \in Snapshots
          PROVE  Cardinality(Things(k, t))' <= 1 + late
      <4>1. Cardinality(Things(k, t))' <= Cardinality(Things(k, t))
                + IF op.id = 0 /\ k = Target(op.row) /\ (k = "card" \/ t = op.row.snap) THEN 1 ELSE 0
        BY <2>1, <2>3, ApplyCounts
      <4>2. op.id = 0 /\ k = Target(op.row) /\ (k = "card" \/ t = op.row.snap)
            => Cardinality(Things(k, t)) <= late
        BY <2>1 DEF CountInv, Things
      <4>3. Cardinality(Things(k, t)) \in Nat /\ Cardinality(Things(k, t))' \in Nat
        BY ThingsFinite, ThingsFiniteNext
      <4> QED BY <1>0, <4>1, <4>2, <4>3 DEF CountInv
    <3> QED BY <2>1, <3>1 DEF CountInv
  <2> QED BY <1>2, <2>2, <2>3, OpWrites
<1>3. ASSUME NEW w \in flying, Land(w) PROVE CountInv'
  <2>1. /\ w.kind \in {"card", "check"} /\ w.id \in Nat /\ w.snap \in Snapshots /\ w.phase \in Phase
        /\ Aimed(w.kind, w.id, w.snap)
        /\ Apply(w.kind, w.id, w.snap, w.phase) /\ late' = late + 1 /\ op' = op
    BY <1>3 DEF Land, TypeInv, TypeOK, RemoteInv
  <2>2. ASSUME NEW k \in {"card", "check"}, NEW t \in Snapshots
        PROVE  /\ Cardinality(Things(k, t))' <= Cardinality(Things(k, t)) + 1
               /\ Cardinality(Things(k, t)) \in Nat /\ Cardinality(Things(k, t))' \in Nat
    <3>1. Cardinality(Things(k, t))' <= Cardinality(Things(k, t))
              + IF w.id = 0 /\ k = w.kind /\ (k = "card" \/ t = w.snap) THEN 1 ELSE 0
      BY <2>1, ApplyCounts
    <3>2. Cardinality(Things(k, t)) \in Nat /\ Cardinality(Things(k, t))' \in Nat
      BY ThingsFinite, ThingsFiniteNext
    <3> QED BY <3>1, <3>2
  <2>3. op.stage = "write" => op.row.snap \in Snapshots /\ Target(op.row) \in {"card", "check"}
    BY OpTyped DEF TypeInv, Row, Target
  <2> QED BY <1>0, <2>1, <2>2, <2>3 DEF CountInv
<1> QED BY <1>1, <1>2, <1>3, RemoteSteps, CountStays

\* A card, or a check run of a snapshot, is made twice only by writes that GitHub
\* applies after they were looked for.
THEOREM NothingTwice == Spec => []NoDuplicates
<1>1. Init => CountInv
  BY FS_EmptySet DEF Init, CountInv, Things, Idle
<1>2. TypeInv /\ CountInv => NoDuplicates
  BY PresentationAssumption DEF CountInv, NoDuplicates, Things, TypeInv, TypeOK
<1> QED BY <1>1, <1>2, CountNext, TypeCorrectly, PTL DEF Spec

-------------------------------------------------------------------------------
\* A success that was shown.

\* Who has answered has had questions, and they are not made again.
AnsweredInv ==
    /\ \A s \in Snapshots : receipt[s] # "none" => stored[s] = "ready" /\ s \in Triggered
    /\ op.stage \in {"announce", "generate"} => receipt[op.snap] = "none"

\* A cancel never asks for a success.
CancelInv == \A e \in DOMAIN rows : e.kind = "cancel" => e.phase \in {"closed", "superseded"}

\* Without late writes, a check run shows a success of verified snapshots only.  The
\* next write makes it show one if its snapshot is verified, or ends one that is open.
SuccessInv ==
    /\ late = 0 => \A c \in checks : c.phase = "verified" => receipt[c.snap] = "verified"
    /\ op.stage = "write" /\ op.row.kind = "check" =>
           (op.phase = "verified" <=> receipt[op.row.snap] = "verified")
    /\ op.stage = "write" /\ op.row.kind = "cancel" =>
           /\ op.phase # "verified"
           /\ late = 0 => \A c \in checks : c.id = op.id => ~Completed(c.phase)

LEMMA AnsweredNext == TypeInv /\ AnsweredInv /\ [Next]_vars => AnsweredInv'
<1> SUFFICES ASSUME TypeInv, AnsweredInv, [Next]_vars PROVE AnsweredInv'
  OBVIOUS
<1>0. /\ receipt \in [Snapshots -> {"none", "unverified", "verified"}]
      /\ stored \in [Snapshots -> {"none", "preparing", "error", "ready"}]
  BY DEF TypeInv, TypeOK
<1>1. CASE UNCHANGED <<stored, receipt>> /\ (op'.stage \in {"announce", "generate"} => op' = op)
  BY <1>1 DEF AnsweredInv
<1>2. ASSUME NEW regenerate \in BOOLEAN, Sync(regenerate) PROVE AnsweredInv'
  <2> DEFINE s == pull.snap
  <2>1. s \in Snapshots /\ receipt' = receipt
    BY <1>2 DEF Sync, TypeInv, TypeOK
  <2>2. op' = [stage |-> IF stored'[s] = "ready" THEN "project" ELSE "announce", snap |-> s]
    BY <1>2 DEF Sync
  <2>3. /\ \A t \in Snapshots \ {s} : stored'[t] = stored[t]
        /\ stored'[s] # "ready" => receipt[s] = "none"
    BY <1>0, <1>2, <2>1 DEF Sync, AnsweredInv
  <2> HIDE DEF s
  <2>4. op'.stage \in {"announce", "generate"} => op'.snap = s /\ stored'[s] # "ready"
    BY <2>2
  <2> QED BY <2>1, <2>3, <2>4 DEF AnsweredInv
<1>3. CASE Announce \/ Generate \/ GenerateFails \/ Project
  <2>1. op \in [stage : {"announce", "generate", "project"}, snap : Snapshots]
    BY <1>3, OpTyped DEF Announce, Generate, GenerateFails, Project, TypeInv
  <2>2. receipt' = receipt
    BY <1>3 DEF Announce, Generate, GenerateFails, Project
  <2>3. op'.stage = "generate" => op'.snap = op.snap /\ op.stage = "announce"
    BY <1>3, <2>1 DEF Announce, Generate, GenerateFails, Project, Idle
  <2>4. op'.stage # "announce"
    BY <1>3, <2>1 DEF Announce, Generate, GenerateFails, Project, Idle
  <2>5. \A t \in Snapshots : receipt[t] # "none" => stored'[t] = "ready"
    BY <1>0, <1>3, <2>1 DEF Announce, Generate, GenerateFails, Project, AnsweredInv
  <2> QED BY <2>2, <2>3, <2>4, <2>5 DEF AnsweredInv
<1>4. CASE SaveReceipt \/ Verify
  <2>1. /\ stored' = stored /\ op'.stage \notin {"announce", "generate"}
        /\ current \in Snapshots /\ stored[current] = "ready"
        /\ \A t \in Snapshots : receipt'[t] # "none" => receipt[t] # "none" \/ t = current
    BY <1>0, <1>4, PresentationAssumption DEF SaveReceipt, Verify, Ready, Idle, TypeInv, TypeOK
  <2>2. current \in Triggered
    BY <1>4, <2>1 DEF SaveReceipt, Verify, AnsweredInv
  <2> QED BY <2>1, <2>2 DEF AnsweredInv
<1>5. CASE SyncClosed \/ ProjectClosed \/ Flush
  BY <1>1, <1>5 DEF SyncClosed, ProjectClosed, Flush, Idle
<1>6. CASE (\E s \in Snapshots : Edit(s)) \/ Close \/ Reopen
  BY <1>1, <1>6 DEF Edit, Close, Reopen
<1>7. ASSUME NEW e \in due, Deliver(e) \/ DeliverFails(e) PROVE AnsweredInv'
  <2>1. UNCHANGED <<stored, receipt>>
    BY <1>7 DEF Deliver, DeliverFails
  <2>2. op'.stage \in {"announce", "generate"} => op' = op
    <3>1. CASE DeliverFails(e)
      BY <3>1 DEF DeliverFails
    <3>2. CASE Deliver(e)
      <4> DEFINE phase == IF e.kind = "cancel" THEN Cancelled(e) ELSE Delivered(e)
      <4>1. \/ op' = op
            \/ \E st \in {"failed", "save", "mark", "write"}, id \in {0, Known(e)} :
                  op' = [stage |-> st, row |-> e, phase |-> phase, id |-> id]
        BY <3>2 DEF Deliver
      <4> HIDE DEF phase
      <4> QED BY <4>1
    <3> QED BY <1>7, <3>1, <3>2
  <2> QED BY <1>1, <2>1, <2>2
<1>8. CASE Write \/ WriteFails \/ SaveCheck \/ MarkSent \/ MarkFailed \/ Crash
  <2>1. op.stage \in {"write", "save"} =>
           op \in [stage : {"write", "save", "mark", "failed", "unrestored"}, row : Row, phase : Phase, id : Nat]
    BY OpTyped DEF TypeInv
  <2>2. op'.stage \in {"save", "mark", "failed", "idle"}
    BY <1>8, <2>1 DEF Write, WriteFails, SaveCheck, MarkSent, MarkFailed, Crash, Idle
  <2>3. UNCHANGED <<stored, receipt>>
    BY <1>8 DEF Write, WriteFails, SaveCheck, MarkSent, MarkFailed, Crash
  <2> QED BY <1>1, <2>2, <2>3
<1>9. CASE UNCHANGED vars \/ \E w \in flying : Land(w)
  BY <1>1, <1>9 DEF vars, Land
<1> QED BY <1>2, <1>3, <1>4, <1>5, <1>6, <1>7, <1>8, <1>9 DEF Next

\* What rows there may be after a step.
LEMMA RowSteps ==
    ASSUME TypeInv, [Next]_vars
    PROVE  \A e \in DOMAIN rows' \ DOMAIN rows :
              \/ e.kind # "cancel"
              \/ \E s, phase : e \in Cancels(s, phase)
<1>1. CASE DOMAIN rows' = DOMAIN rows
  BY <1>1
<1>2. ASSUME NEW s \in Snapshots, NEW phase, NEW part, part \subseteq Projection(s, phase),
             NEW closed, Queue(part, closed), NEW e \in DOMAIN rows' \ DOMAIN rows
      PROVE  e.kind # "cancel" \/ e \in Cancels(s, phase)
  <2>1. e \in Projection(s, phase)
    BY <1>2 DEF Queue
  <2>2. channel # "cancel"
    BY PresentationAssumption DEF TypeInv, TypeOK
  <2> QED BY <2>1, <2>2 DEF Projection
<1>3. CASE Announce \/ Project \/ ProjectClosed \/ Crash
  <2>1. op.stage \in {"announce", "project"} => op.snap \in Snapshots
    BY OpTyped DEF TypeInv
  <2>2. op.stage = "closing" => current \in Snapshots
    BY DEF TypeInv, TypeOK
  <2>3. \/ UNCHANGED rows
        \/ \E s \in Snapshots, phase \in Phase, closed \in {0, op.closed} :
             \E part \in SUBSET Projection(s, phase) : Queue(part, closed)
    <3>1. op.stage \in {"announce", "project"} => Projected(op.snap) \in Phase
      BY <2>1, ProjectedIsPhase DEF TypeInv
    <3>2. op.stage = "closing" => ClosedProjected(current) \in Phase
      BY <2>2, ProjectedIsPhase DEF TypeInv
    <3> QED BY <1>3, <2>1, <2>2, <3>1, <3>2 DEF Announce, Project, ProjectClosed, Crash
  <2> QED BY <1>2, <2>3
<1>4. CASE Verify
  <2>1. ASSUME NEW e \in DOMAIN rows' \ DOMAIN rows PROVE e.kind = channel
    BY <1>4 DEF Verify, Queue
  <2> QED BY <2>1, PresentationAssumption DEF TypeInv, TypeOK
<1>5. CASE \E e \in due : Deliver(e) \/ DeliverFails(e)
  BY <1>1, <1>5 DEF Deliver, DeliverFails, Sent, Mark
<1>6. CASE MarkSent \/ MarkFailed
  BY <1>1, <1>6 DEF MarkSent, MarkFailed, Sent, Mark
<1>7. CASE (\E s \in Snapshots : Edit(s)) \/ Close \/ Reopen \/ UNCHANGED vars
  BY <1>7 DEF Edit, Close, Reopen, vars
<1>8. CASE \/ \E regenerate \in BOOLEAN : Sync(regenerate)
           \/ Generate \/ GenerateFails \/ SyncClosed \/ SaveReceipt \/ Flush
  BY <1>8 DEF Sync, Generate, GenerateFails, SyncClosed, SaveReceipt, Flush
<1>9. CASE Write \/ WriteFails \/ SaveCheck \/ \E w \in flying : Land(w)
  BY <1>9 DEF Write, WriteFails, SaveCheck, Land
<1> QED BY <1>3, <1>4, <1>5, <1>6, <1>7, <1>8, <1>9 DEF Next

LEMMA CancelNext == TypeInv /\ CancelInv /\ [Next]_vars => CancelInv'
<1> SUFFICES ASSUME TypeInv, CancelInv, [Next]_vars,
                    NEW e \in DOMAIN rows', e.kind = "cancel", e \notin DOMAIN rows
             PROVE  e.phase \in {"closed", "superseded"}
  BY DEF CancelInv
<1>1. PICK s, phase : e \in Cancels(s, phase)
  BY RowSteps
<1> QED BY <1>1 DEF Cancels

\* What is delivered for a verified snapshot is its success.
LEMMA VerifiedDelivered ==
    ASSUME TypeInv, AnsweredInv, NEW e \in Row, Delivered(e) # None
    PROVE  Delivered(e) = "verified" <=> receipt[e.snap] = "verified"
<1>1. e.snap \in Snapshots /\ receipt[e.snap] \in {"none", "unverified", "verified"}
  BY DEF Row, TypeInv, TypeOK
<1>2. Projected(e.snap) = "verified" <=> receipt[e.snap] = "verified"
  BY <1>1 DEF Projected, AnsweredInv
<1>3. ClosedMatches(e.snap) => (ClosedProjected(e.snap) = "verified" <=> receipt[e.snap] = "verified")
  BY DEF ClosedProjected, ClosedMatches
<1> QED BY <1>2, <1>3 DEF Delivered

\* What is cancelled is open.
LEMMA OpenCancelled ==
    ASSUME TypeInv, NEW e \in Row, e.kind = "cancel", Cancelled(e) # None, Cardinality(Found(e)) <= 1,
           NEW c \in checks, c.id = Known(e)
    PROVE  ~Completed(c.phase)
<1>1. IsFiniteSet(Found(e)) /\ Found(e) = {d \in checks : d.snap = e.snap} /\ Cardinality(Found(e)) \in Nat
  BY FoundIsShown DEF Found
<1>2. PICK d \in Found(e) : ~Completed(d.phase)
  BY <1>1 DEF Cancelled
<1>3. Found(e) = {d}
  <2>1. Cardinality(Found(e)) # 0
    BY <1>1, <1>2, FS_EmptySet
  <2>2. Cardinality(Found(e)) = 1
    BY <1>1, <2>1
  <2>3. PICK x : Found(e) = {x}
    BY <1>1, <2>2, FS_Singleton
  <2> QED BY <1>2, <2>3
<1>4. Known(e) = d.id
  BY <1>3 DEF Known
<1>5. c = d
  BY <1>1, <1>2, <1>4 DEF TypeInv, RemoteInv, Counted
<1> QED BY <1>2, <1>5

\* A verified receipt stays so, and none changes while something is delivered.
LEMMA ReceiptSteps ==
    ASSUME TypeInv, [Next]_vars
    PROVE  /\ \A s \in Snapshots : receipt[s] = "verified" => receipt'[s] = "verified"
           /\ op = Idle \/ receipt' = receipt
<1>1. CASE SaveReceipt \/ Verify
  BY <1>1 DEF SaveReceipt, Verify, Ready, TypeInv, TypeOK
<1>2. CASE UNCHANGED receipt
  BY <1>2
<1>3. CASE (\E s \in Snapshots : Edit(s)) \/ Close \/ Reopen \/ UNCHANGED vars
  BY <1>2, <1>3 DEF Edit, Close, Reopen, vars
<1>4. CASE \/ \E regenerate \in BOOLEAN : Sync(regenerate)
           \/ Announce \/ Generate \/ GenerateFails \/ Project \/ SyncClosed \/ ProjectClosed \/ Flush
  BY <1>2, <1>4 DEF Sync, Announce, Generate, GenerateFails, Project, SyncClosed, ProjectClosed, Flush
<1>5. CASE \/ \E e \in due : Deliver(e) \/ DeliverFails(e)
           \/ Write \/ WriteFails \/ SaveCheck \/ MarkSent \/ MarkFailed \/ Crash
           \/ \E w \in flying : Land(w)
  BY <1>2, <1>5 DEF Deliver, DeliverFails, Write, WriteFails, SaveCheck, MarkSent, MarkFailed, Crash, Land
<1> QED BY <1>1, <1>3, <1>4, <1>5 DEF Next

\* A write of check runs takes no success away, and makes one of verified snapshots
\* only.
LEMMA WriteKeepsSuccess ==
    ASSUME TypeInv, SuccessInv, late = 0, Write \/ WriteFails
    PROVE  /\ \A c \in checks : c.phase = "verified" => c \in checks'
           /\ \A c \in checks' : \/ c \in checks
                                 \/ c.phase = op.phase /\ c.snap = op.row.snap /\ op.row.kind # "card"
<1> DEFINE new == [id |-> IF op.id = 0 THEN Cardinality(checks) + 1 ELSE op.id,
                   snap |-> op.row.snap, phase |-> op.phase]
<1>1. /\ op.row \in Row /\ op.row.snap \in Snapshots /\ op.phase \in Phase /\ op.id \in Nat
      /\ Aimed(Target(op.row), op.id, op.row.snap) /\ op.stage = "write"
      /\ \/ Apply(Target(op.row), op.id, op.row.snap, op.phase)
         \/ UNCHANGED <<cards, checks>>
  BY OpWrites DEF Write, WriteFails
<1>2. CASE checks' = checks
  BY <1>2
<1>3. CASE op.row.kind # "card" /\ checks' = Written(checks, op.id, op.row.snap, op.phase)
  <2>1. checks' = {c \in checks : c.id # op.id} \cup {new}
    BY <1>3 DEF Written
  <2>2. Exists({c \in checks : c.snap = op.row.snap}, op.id)
    BY <1>1, <1>3 DEF Aimed, Things, Target
  <2>3. Counted(checks) /\ op.row.kind \in {"check", "cancel"}
    BY <1>1, <1>3 DEF TypeInv, RemoteInv, Row
  <2>4. ASSUME NEW c \in checks, c.phase = "verified", c.id = op.id PROVE c = new
    <3>1. c \in Shown /\ c.id # 0
      BY <2>3 DEF Counted, Shown
    <3>2. c.snap = op.row.snap
      BY <2>2, <2>3, <2>4, <3>1 DEF Exists, Counted
    <3>3. op.row.kind # "cancel"
      BY <1>1, <2>4 DEF SuccessInv, Completed, Open
    <3>4. op.phase = "verified"
      BY <1>1, <2>3, <2>4, <3>2, <3>3 DEF SuccessInv
    <3>5. c = [id |-> c.id, snap |-> c.snap, phase |-> c.phase]
      BY <3>1 DEF Shown
    <3> QED BY <2>4, <3>1, <3>2, <3>4, <3>5
  <2>5. new.phase = op.phase /\ new.snap = op.row.snap
    OBVIOUS
  <2> HIDE DEF new
  <2> QED BY <1>3, <2>1, <2>4, <2>5
<1>4. op.row.kind = "card" => checks' = checks
  BY <1>1 DEF Apply, Target
<1>5. op.row.kind # "card" => checks' \in {checks, Written(checks, op.id, op.row.snap, op.phase)}
  BY <1>1 DEF Apply, Target
<1> QED BY <1>2, <1>3, <1>4, <1>5

LEMMA SuccessNext == TypeInv /\ AnsweredInv /\ CancelInv /\ SuccessInv /\ [Next]_vars => SuccessInv'
<1> SUFFICES ASSUME TypeInv, AnsweredInv, CancelInv, SuccessInv, [Next]_vars PROVE SuccessInv'
  OBVIOUS
<1>0. late \in Nat /\ \A c \in checks : c.snap \in Snapshots
  BY DEF TypeInv, TypeOK, Shown
<1>1. CASE UNCHANGED <<cards, checks, late>> /\ (op'.stage = "write" => op' = op)
  <2>1. op'.stage = "write" => receipt' = receipt
    BY <1>1, ReceiptSteps DEF Idle
  <2>2. late' = 0 => \A c \in checks' : c.phase = "verified" => receipt'[c.snap] = "verified"
    BY <1>0, <1>1, ReceiptSteps DEF SuccessInv
  <2> QED BY <1>1, <2>1, <2>2 DEF SuccessInv
<1>2. ASSUME NEW e \in due, Deliver(e) PROVE SuccessInv'
  <2>1. /\ e \in Row /\ e \in DOMAIN rows
        /\ UNCHANGED <<checks, late, receipt>>
        /\ op'.stage = "write" =>
              /\ Cardinality(Found(e)) <= 1 /\ op'.row = e /\ op'.id = Known(e) /\ op'.phase # None
              /\ op'.phase = IF e.kind = "cancel" THEN Cancelled(e) ELSE Delivered(e)
    BY <1>2, DeliverStarts
  <2>2. op'.stage = "write" /\ e.kind = "check" => (op'.phase = "verified" <=> receipt[e.snap] = "verified")
    BY <2>1, VerifiedDelivered
  <2>3. ASSUME op'.stage = "write", e.kind = "cancel"
        PROVE  op'.phase # "verified" /\ \A c \in checks : c.id = op'.id => ~Completed(c.phase)
    <3>1. Cancelled(e) # None /\ Cardinality(Found(e)) <= 1 /\ op'.id = Known(e) /\ op'.phase = Cancelled(e)
      BY <2>1, <2>3
    <3>2. Cancelled(e) = e.phase /\ e.phase # "verified"
      BY <2>1, <2>3, <3>1 DEF Cancelled, CancelInv
    <3> QED BY <2>1, <2>3, <3>1, <3>2, OpenCancelled
  <2> QED BY <2>1, <2>2, <2>3 DEF SuccessInv
<1>3. CASE Write \/ WriteFails
  <2>1. late' = late /\ op'.stage # "write" /\ op.row \in Row /\ op.stage = "write"
    BY <1>3, OpWrites DEF Write, WriteFails
  <2>2. receipt' = receipt
    BY <1>3 DEF Write, WriteFails
  <2>3. late = 0 => \A c \in checks' : c.phase = "verified" => receipt[c.snap] = "verified"
    <3> SUFFICES ASSUME late = 0, NEW c \in checks', c.phase = "verified"
                 PROVE  receipt[c.snap] = "verified"
      OBVIOUS
    <3>1. \/ c \in checks
          \/ c.phase = op.phase /\ c.snap = op.row.snap /\ op.row.kind # "card"
      BY <1>3, WriteKeepsSuccess
    <3>2. op.row.kind \in {"card", "check", "cancel"}
      BY <2>1 DEF Row
    <3> QED BY <2>1, <3>1, <3>2 DEF SuccessInv
  <2> QED BY <2>1, <2>2, <2>3 DEF SuccessInv
<1>4. ASSUME NEW w \in flying, Land(w) PROVE SuccessInv'
  <2>1. late' # 0 /\ op' = op /\ receipt' = receipt
    BY <1>0, <1>4 DEF Land
  <2> QED BY <2>1 DEF SuccessInv
<1> QED BY <1>1, <1>2, <1>3, <1>4, RemoteSteps

\* A success that a check run has shown is not taken back, neither by a cancel nor by
\* the closing, whatever is retried or cut off, unless GitHub applies a write late.
THEOREM SuccessStays == Spec => SuccessPreserved
<1>1. Init => AnsweredInv /\ CancelInv /\ SuccessInv
  BY DEF Init, AnsweredInv, CancelInv, SuccessInv, Idle
<1>2. /\ TypeInv /\ SuccessInv /\ [Next]_vars
      => [\A c \in checks : c.phase = "verified" /\ late' = 0 => c \in checks']_vars
  <2> SUFFICES ASSUME TypeInv, SuccessInv, [Next]_vars, late' = 0,
                      NEW c \in checks, c.phase = "verified"
               PROVE  c \in checks'
    OBVIOUS
  <2>1. CASE Write \/ WriteFails
    BY <2>1, OpWrites, WriteKeepsSuccess
  <2>2. ASSUME NEW w \in flying, Land(w) PROVE FALSE
    BY <2>2 DEF Land, TypeInv, TypeOK
  <2>3. ASSUME NEW e \in due, Deliver(e) PROVE checks' = checks
    BY <2>3 DEF Deliver
  <2> QED BY <2>1, <2>2, <2>3, RemoteSteps
<1> QED
  BY <1>1, <1>2, TypeCorrectly, AnsweredNext, CancelNext, SuccessNext, PTL DEF Spec, SuccessPreserved

-------------------------------------------------------------------------------
(***************************************************************************)
(* What is at rest shows what the service knows.                           *)
(***************************************************************************)

\* What is delivered is a pending row: of the current snapshot, or to cancel what is
\* left of another.
PendingInv ==
    /\ \A e \in due : rows[e].status = "pending"
    /\ op.stage \in {"write", "save", "mark", "failed", "unrestored"} =>
          op.row \in DOMAIN rows /\ rows[op.row].status = "pending" /\ op.row \notin due
    /\ \A e \in DOMAIN rows :
          /\ e.kind = channel \/ (e.kind = "cancel" /\ channel = "check")
          /\ rows[e].open => rows[e].status = "sent" /\ ~rows[e].failed
    /\ op.stage \in {"write", "save", "mark"} => (op.row.kind # "cancel" <=> op.row.snap = current)
    /\ op.stage = "save" => op.row.kind = "check"

\* What a queue does to a row: nothing, or it is pending.
Requeues(e, es, closed) ==
    \/ e \in DOMAIN rows /\ rows'[e] = rows[e]
    \/ /\ e \in es
       /\ rows'[e].status = "pending" /\ ~rows'[e].failed /\ ~rows'[e].open /\ rows'[e].closed = closed
       /\ e \in DOMAIN rows => rows[e].status = "pending" \/ rows[e].failed

LEMMA QueueRows ==
    ASSUME TypeInv, NEW es, NEW closed, Queue(es, closed)
    PROVE  /\ DOMAIN rows' = DOMAIN rows \cup es
           /\ \A e \in DOMAIN rows' : Requeues(e, es, closed)
<1>1. DOMAIN rows' = DOMAIN rows \cup es
  BY DEF Queue
<1>2. ASSUME NEW e \in DOMAIN rows' PROVE Requeues(e, es, closed)
  <2>1. rows'[e] = IF e \notin es THEN rows[e]
                   ELSE IF e \in DOMAIN rows THEN Requeued(rows[e], closed) ELSE Fresh(closed)
    BY <1>1 DEF Queue
  <2>2. e \in DOMAIN rows => rows[e] \in Columns
    BY DEF TypeInv, TypeOK
  <2>3. ASSUME NEW n PROVE LET c == [Fresh(closed) EXCEPT !.attempts = n]
                           IN  c.status = "pending" /\ ~c.failed /\ ~c.open /\ c.closed = closed
    BY DEF Fresh
  <2>4. /\ Fresh(closed).status = "pending" /\ ~Fresh(closed).failed
        /\ ~Fresh(closed).open /\ Fresh(closed).closed = closed
    BY DEF Fresh
  <2>5. CASE e \notin es
    BY <1>1, <2>1, <2>5 DEF Requeues
  <2>6. CASE e \in es /\ e \in DOMAIN rows
    <3>1. rows'[e] = Requeued(rows[e], closed)
      BY <2>1, <2>6
    <3>2. CASE rows[e].status = "sent" /\ ~rows[e].failed
      BY <2>6, <3>1, <3>2 DEF Requeued, Requeues
    <3>3. CASE ~(rows[e].status = "sent" /\ ~rows[e].failed)
      <4>1. rows'[e] = [Fresh(closed) EXCEPT !.attempts = rows[e].attempts]
        BY <3>1, <3>3 DEF Requeued
      <4>2. rows[e].status = "pending" \/ rows[e].failed
        BY <2>2, <2>6, <3>3 DEF Columns
      <4> QED BY <2>3, <2>6, <4>1, <4>2 DEF Requeues
    <3> QED BY <3>2, <3>3
  <2>7. CASE e \in es /\ e \notin DOMAIN rows
    <3>1. rows'[e] = Fresh(closed)
      BY <2>1, <2>7
    <3> QED BY <2>4, <2>7, <3>1 DEF Requeues
  <2> QED BY <2>5, <2>6, <2>7
<1> QED BY <1>1, <1>2

\* What of a snapshot is left to be cancelled.
Left(t) ==
    \/ active # None /\ active.snap = t /\ ~Completed(active.phase)
    \/ \E e \in DOMAIN rows : e.kind = "check" /\ e.snap = t /\ NeedsReconciliation(rows[e])

LEMMA ProjectionRows ==
    ASSUME TypeInv, NEW s \in Snapshots, NEW phase
    PROVE  /\ \A e \in Projection(s, phase) :
                 \/ e.kind = "cancel" /\ channel = "check" /\ e.snap \in Snapshots \ {s} /\ Left(e.snap)
                 \/ /\ e.kind = channel /\ e.snap = s /\ e.phase = phase
                    /\ e.for # None => receipt[s] # "none"
           /\ \E e \in Projection(s, phase) : e.kind = channel /\ e.snap = s
           /\ channel = "check" => \A t \in Snapshots \ {s} :
                 Left(t) => \E e \in Projection(s, phase) : e.kind = "cancel" /\ e.snap = t
<1> DEFINE own == [kind |-> channel, snap |-> s, phase |-> phase,
                   for |-> IF phase \in {"neutral", "preparing", "error"} THEN None ELSE Subject(s)]
           cancel(t) == [kind |-> "cancel", snap |-> t, for |-> s,
                         phase |-> IF phase = "closed" THEN "closed" ELSE "superseded"]
           old == {t \in Snapshots \ {s} : Left(t)}
<1>1. Cancels(s, phase) = {cancel(t) : t \in old}
  BY Zenon DEF Cancels, Left
<1>2. Projection(s, phase) = (IF channel = "check" THEN Cancels(s, phase) ELSE {}) \cup {own}
  BY Zenon DEF Projection
<1>3. own.kind = channel /\ own.snap = s /\ own.phase = phase /\ (own.for # None => receipt[s] # "none")
  BY DEF Subject
<1>4. \A t : cancel(t).kind = "cancel" /\ cancel(t).snap = t
  OBVIOUS
<1> HIDE DEF own, cancel
<1> QED BY <1>1, <1>2, <1>3, <1>4

\* Of what is to be shown, what has come into the outbox.
Projects(s, phase, closed) ==
    \E part : /\ part \subseteq Projection(s, phase) /\ Prefix(part, Projection(s, phase))
              /\ Queue(part, closed)
ProjectStep ==
    \/ op.stage \in {"announce", "project"} /\ Projects(op.snap, Projected(op.snap), 0)
    \/ op.stage = "closing" /\ Projects(current, ClosedProjected(current), op.closed)

LEMMA ProjectSteps ==
    ASSUME TypeInv, Announce \/ Project \/ ProjectClosed \/ Crash
    PROVE  /\ ProjectStep \/ (Crash /\ UNCHANGED rows)
           /\ op.stage \in {"announce", "project"} => op.snap \in Snapshots /\ Projected(op.snap) \in Phase
           /\ op.stage = "closing" => current \in Snapshots /\ ClosedProjected(current) \in Phase
           /\ UNCHANGED <<github, cards, checks, flying, late, stored, current, receipt, active>>
           /\ due' \in {due, {}}
           /\ op' = Idle \/ (Announce /\ op'.stage = "generate" /\ op'.snap = op.snap)
<1>1. \A whole : Prefix(whole, whole)
  BY DEF Prefix
<1>2. Announce \/ Project => ProjectStep
  BY <1>1 DEF Announce, Project, ProjectStep, Projects
<1>3. ProjectClosed => ProjectStep
  BY <1>1 DEF ProjectClosed, ProjectStep, Projects
<1>4. Crash => ProjectStep \/ UNCHANGED rows
  BY DEF Crash, ProjectStep, Projects
<1>5. op.stage \in {"announce", "project"} => op.snap \in Snapshots /\ Projected(op.snap) \in Phase
  BY OpTyped, ProjectedIsPhase DEF TypeInv
<1>6. op.stage = "closing" => current \in Snapshots /\ ClosedProjected(current) \in Phase
  BY ProjectedIsPhase DEF TypeInv, TypeOK
<1>7. UNCHANGED <<github, cards, checks, flying, late, stored, current, receipt, active>> /\ due' \in {due, {}}
  BY DEF Announce, Project, ProjectClosed, Crash, remote
<1>8. op' = Idle \/ (Announce /\ op'.stage = "generate" /\ op'.snap = op.snap)
  <2>1. CASE Announce
    <3>1. op \in [stage : {"announce", "generate", "project"}, snap : Snapshots]
      BY <2>1, OpTyped DEF Announce, TypeInv
    <3> QED BY <2>1, <3>1 DEF Announce
  <2> QED BY <2>1 DEF Project, ProjectClosed, Crash
<1> QED BY <1>2, <1>3, <1>4, <1>5, <1>6, <1>7, <1>8

LEMMA PendingStays ==
    ASSUME PendingInv, UNCHANGED <<rows, due, channel>>,
           op'.stage \in {"write", "save", "mark", "failed", "unrestored"} => op' = op /\ current' = current
    PROVE  PendingInv'
BY DEF PendingInv

\* The steps of people and of the service that leave the outbox and deliveries alone.
LEMMA QuietSteps ==
    ASSUME TypeInv,
           \/ UNCHANGED vars
           \/ \E s \in Snapshots : Edit(s)
           \/ Close \/ Reopen
           \/ \E regenerate \in BOOLEAN : Sync(regenerate)
           \/ Generate \/ GenerateFails \/ SyncClosed \/ SaveReceipt
    PROVE  /\ UNCHANGED <<remote, rows, active, due, channel>>
           /\ op'.stage \in {"write", "save", "mark", "failed", "unrestored"} =>
                 UNCHANGED <<op, current, stored, receipt>>
<1>1. CASE UNCHANGED vars
  BY <1>1 DEF vars, github
<1>2. CASE (\E s \in Snapshots : Edit(s)) \/ Close \/ Reopen
  BY <1>2 DEF Edit, Close, Reopen
<1>3. ASSUME NEW regenerate \in BOOLEAN, Sync(regenerate)
      PROVE  UNCHANGED <<remote, rows, active, due, channel>> /\ op'.stage \in {"project", "announce"}
  BY <1>3 DEF Sync
<1>4. CASE Generate \/ GenerateFails
  <2>1. op \in [stage : {"announce", "generate", "project"}, snap : Snapshots]
    BY <1>4, OpTyped DEF Generate, GenerateFails, TypeInv
  <2>2. op'.stage \in {"project", "idle"}
    BY <1>4, <2>1 DEF Generate, GenerateFails, Idle
  <2> QED BY <1>4, <2>2 DEF Generate, GenerateFails, github
<1>5. CASE SyncClosed \/ SaveReceipt
  BY <1>5 DEF SyncClosed, SaveReceipt, github
<1> QED BY <1>1, <1>2, <1>3, <1>4, <1>5

LEMMA PendingQueued ==
    ASSUME TypeInv, PendingInv, Announce \/ Project \/ ProjectClosed \/ Crash \/ Verify
    PROVE  PendingInv'
<1>1. ASSUME NEW es, NEW closed, Queue(es, closed),
             \A e \in es : e.kind = channel \/ (e.kind = "cancel" /\ channel = "check"),
             due' \subseteq due, channel' = channel, op'.stage \in {"idle", "generate"}
      PROVE  PendingInv'
  <2>1. DOMAIN rows' = DOMAIN rows \cup es /\ \A e \in DOMAIN rows' : Requeues(e, es, closed)
    BY <1>1, QueueRows
  <2>2. \A e \in due' : rows'[e].status = "pending"
    BY <1>1, <2>1 DEF Requeues, PendingInv, TypeInv, TypeOK
  <2>3. \A e \in DOMAIN rows' : e.kind = channel \/ (e.kind = "cancel" /\ channel = "check")
    BY <1>1, <2>1 DEF PendingInv
  <2>4. \A e \in DOMAIN rows' : rows'[e].open => rows'[e].status = "sent" /\ ~rows'[e].failed
    BY <2>1 DEF Requeues, PendingInv
  <2> QED BY <1>1, <2>2, <2>3, <2>4 DEF PendingInv
<1>2. CASE Verify
  <2> DEFINE e == [kind |-> channel, snap |-> current, phase |-> "verified", for |-> current]
  <2>1. Queue({e}, 0) /\ e.kind = channel
    BY <1>2 DEF Verify
  <2> HIDE DEF e
  <2>2. due' = due /\ channel' = channel /\ op'.stage = "idle"
    BY <1>2 DEF Verify, Ready, Idle, github
  <2> QED BY <1>1, <2>1, <2>2
<1>3. CASE Announce \/ Project \/ ProjectClosed \/ Crash
  <2>1. due' \subseteq due /\ channel' = channel /\ op'.stage \in {"idle", "generate"}
    BY <1>3, ProjectSteps DEF github, Idle
  <2>2. ASSUME NEW s \in Snapshots, NEW phase, NEW closed, Projects(s, phase, closed)
        PROVE  PendingInv'
    <3>1. PICK part : part \subseteq Projection(s, phase) /\ Queue(part, closed)
      BY <2>2 DEF Projects
    <3>2. \A e \in part : e.kind = channel \/ (e.kind = "cancel" /\ channel = "check")
      BY <3>1, ProjectionRows
    <3> QED BY <1>1, <2>1, <3>1, <3>2
  <2>3. CASE UNCHANGED rows
    BY <2>1, <2>3 DEF PendingInv
  <2> QED BY <1>3, <2>2, <2>3, ProjectSteps DEF ProjectStep
<1> QED BY <1>2, <1>3

LEMMA PendingNext == TypeInv /\ PendingInv /\ [Next]_vars => PendingInv'
<1> SUFFICES ASSUME TypeInv, PendingInv, [Next]_vars PROVE PendingInv'
  OBVIOUS
<1>1. CASE \/ UNCHANGED vars
           \/ \E s \in Snapshots : Edit(s)
           \/ Close \/ Reopen
           \/ \E regenerate \in BOOLEAN : Sync(regenerate)
           \/ Generate \/ GenerateFails \/ SyncClosed \/ SaveReceipt
  <2>1. /\ UNCHANGED <<rows, due, channel>>
        /\ op'.stage \in {"write", "save", "mark", "failed", "unrestored"} => op' = op /\ current' = current
    BY <1>1, QuietSteps
  <2> QED BY <2>1, PendingStays
<1>2. CASE Flush
  BY <1>2 DEF Flush, Ready, Idle, PendingInv, github
<1>3. ASSUME NEW e \in due, DeliverFails(e) PROVE PendingInv'
  <2>1. /\ UNCHANGED <<rows, channel>> /\ due' = due \ {e} /\ op'.stage \in {"failed", "unrestored"} /\ op'.row = e
        /\ e \in DOMAIN rows
    BY <1>3 DEF DeliverFails, TypeInv, TypeOK, github
  <2> QED BY <2>1 DEF PendingInv
<1>4. ASSUME NEW e \in due, Deliver(e) PROVE PendingInv'
  <2> DEFINE phase == IF e.kind = "cancel" THEN Cancelled(e) ELSE Delivered(e)
  <2>1. /\ UNCHANGED <<channel, current>> /\ due' = due \ {e} /\ op = Idle /\ e \in DOMAIN rows
        /\ e.kind = "check" \/ e.kind = "card" \/ e.kind = "cancel"
    BY <1>4 DEF Deliver, github, TypeInv, TypeOK, Row
  <2>2. \/ Sent(e, FALSE) /\ op' = op
        \/ phase # None /\ rows' = rows /\ op' = [stage |-> "failed", row |-> e, phase |-> phase, id |-> 0]
        \/ /\ phase # None /\ rows' = rows
           /\ \E st \in {"save", "mark", "write"} :
                 /\ st = "save" => e.kind = "check"
                 /\ op' = [stage |-> st, row |-> e, phase |-> phase, id |-> Known(e)]
    BY <1>4 DEF Deliver
  <2>3. phase # None => (e.kind # "cancel" <=> e.snap = current)
    BY DEF Delivered, Cancelled
  <2> HIDE DEF phase
  <2>4. CASE Sent(e, FALSE) /\ op' = op
    <3>1. DOMAIN rows' = DOMAIN rows /\ \A f \in DOMAIN rows \ {e} : rows'[f] = rows[f]
      BY <2>4 DEF Sent, Mark
    <3>2. ~rows'[e].open
      BY <2>1, <2>4 DEF Sent, Mark, Fresh
    <3> QED BY <2>1, <2>4, <3>1, <3>2 DEF PendingInv, Idle, TypeInv, TypeOK
  <2>5. ASSUME phase # None, rows' = rows, NEW st \in {"failed", "save", "mark", "write"}, NEW id,
               st = "save" => e.kind = "check",
               op' = [stage |-> st, row |-> e, phase |-> phase, id |-> id]
        PROVE  PendingInv'
    <3>1. op'.stage = st /\ op'.row = e
      BY <2>5
    <3> QED BY <2>1, <2>3, <2>5, <3>1 DEF PendingInv
  <2> QED BY <2>2, <2>4, <2>5
<1>5. CASE Write \/ WriteFails
  <2>1. /\ op \in [stage : {"write", "save", "mark", "failed", "unrestored"}, row : Row, phase : Phase, id : Nat]
        /\ op.stage = "write"
    BY <1>5, OpTyped DEF Write, WriteFails, TypeInv
  <2>2. /\ op'.row = op.row /\ op'.stage \in {"save", "mark", "failed"}
        /\ op'.stage = "save" => op.row.kind = "check"
        /\ UNCHANGED <<rows, due, current, channel>>
    BY <1>5, <2>1 DEF Write, WriteFails, github
  <2> QED BY <2>1, <2>2 DEF PendingInv
<1>6. CASE SaveCheck
  <2>1. /\ op \in [stage : {"write", "save", "mark", "failed", "unrestored"}, row : Row, phase : Phase, id : Nat]
        /\ op.stage = "save"
    BY <1>6, OpTyped DEF SaveCheck, TypeInv
  <2>2. op'.row = op.row /\ op'.stage = "mark" /\ UNCHANGED <<rows, due, current, channel>>
    BY <1>6, <2>1 DEF SaveCheck, github
  <2> QED BY <2>1, <2>2 DEF PendingInv
<1>7. CASE MarkSent \/ MarkFailed
  <2>1. UNCHANGED <<due, channel>> /\ op' = Idle /\ op.stage \in {"mark", "failed", "unrestored"}
    BY <1>7 DEF MarkSent, MarkFailed, github
  <2>2. PICK c : Mark(op.row, c) /\ (c.open => c.status = "sent" /\ ~c.failed)
    <3>1. CASE MarkSent
      <4>1. ASSUME NEW b PROVE LET c == [Fresh(0) EXCEPT !.status = "sent", !.open = b]
                               IN  c.status = "sent" /\ ~c.failed
        BY DEF Fresh
      <4> QED BY <3>1, <4>1 DEF MarkSent, Sent
    <3>2. CASE MarkFailed
      <4>1. op.row \in DOMAIN rows /\ rows[op.row] \in Columns /\ ~rows[op.row].open
        BY <3>2 DEF MarkFailed, PendingInv, TypeInv, TypeOK
      <4>2. ~[Fresh(0) EXCEPT !.status = "sent", !.failed = TRUE].open
        BY DEF Fresh
      <4>3. ASSUME NEW d \in Columns, NEW n, ~d.open
            PROVE  ~[d EXCEPT !.attempts = n, !.failed = TRUE].open
        BY <4>3 DEF Columns
      <4> QED BY <3>2, <4>1, <4>2, <4>3 DEF MarkFailed
    <3> QED BY <1>7, <3>1, <3>2
  <2>3. DOMAIN rows' = DOMAIN rows /\ \A f \in DOMAIN rows \ {op.row} : rows'[f] = rows[f]
    BY <2>2 DEF Mark
  <2>4. op.row \in DOMAIN rows => rows'[op.row] = c
    BY <2>2 DEF Mark
  <2> QED BY <2>1, <2>2, <2>3, <2>4 DEF PendingInv, Idle, TypeInv, TypeOK
<1>8. ASSUME NEW w \in flying, Land(w) PROVE PendingInv'
  BY <1>8, PendingStays DEF Land, github
<1> QED BY <1>1, <1>2, <1>3, <1>4, <1>5, <1>6, <1>7, <1>8, PendingQueued DEF Next

\* A snapshot the pull request has left behind does not come back.
VisitedInv ==
    /\ pull.snap \in visited /\ current \in visited \cup {None}
    /\ \A e \in DOMAIN rows : /\ e.snap \in visited /\ (e.snap = pull.snap => current = pull.snap)
                              /\ e.kind = "cancel" => e.snap # current
    /\ active # None => active.snap \in visited /\ (active.snap = pull.snap => current = pull.snap)
    /\ op.stage \in {"announce", "generate", "project"} => op.snap = current

\* The pull request is closed once, and every row of a closing is of this one.
ClosingInv ==
    /\ closings = IF pull.state = "closed" THEN 1 ELSE 0
    /\ op.stage = "closing" => pull.state = "closed" /\ op.closed = closings
    /\ \A e \in DOMAIN rows :
          /\ rows[e].closed \in {0, closings}
          /\ e.kind # "cancel" /\ e.phase = "closed" =>
                /\ pull.state = "closed"
                /\ rows[e].status = "pending" => rows[e].closed = closings

\* What a row was queued for has come to pass.
Reached(s, phase) ==
    /\ phase = "error" => stored[s] \in {"error", "ready"}
    /\ phase = "awaiting_author" => stored[s] = "ready"
    /\ phase = "verifying" => receipt[s] # "none"
    /\ phase = "verified" => receipt[s] = "verified"

Announced(s) == \E g \in DOMAIN rows : g.kind = channel /\ g.snap = s

PhaseInv ==
    /\ \A e \in DOMAIN rows : e.kind # "cancel" =>
          Reached(e.snap, e.phase) /\ (e.for # None => receipt[e.snap] # "none")
    /\ op.stage \in {"announce", "generate"} =>
          op.snap \in Triggered /\ stored[op.snap] \in {"preparing", "error"}
    /\ \A s \in Triggered : stored[s] = "ready" \/ (op.stage = "generate" /\ op.snap = s) => Announced(s)

OnwardInv == VisitedInv /\ ClosingInv /\ PhaseInv

\* What deliveries leave alone.
LEMMA DeliverySteps ==
    ASSUME TypeInv, PendingInv,
           \/ Flush
           \/ \E e \in due : Deliver(e) \/ DeliverFails(e)
           \/ Write \/ WriteFails \/ SaveCheck \/ MarkSent \/ MarkFailed
           \/ \E w \in flying : Land(w)
    PROVE  /\ UNCHANGED <<github, stored, current, receipt>>
           /\ DOMAIN rows' = DOMAIN rows
           /\ \A e \in DOMAIN rows : \/ rows'[e] = rows[e]
                                     \/ rows'[e].status = "sent" /\ rows'[e].closed = 0
                                     \/ rows'[e].status = "pending" /\ rows[e].status = "pending"
                                           /\ rows'[e].closed = rows[e].closed
           /\ op' = op \/ op'.stage \in {"idle", "write", "save", "mark", "failed", "unrestored"}
           /\ active' = active \/ (op.row \in DOMAIN rows /\ active' = [snap |-> op.row.snap, phase |-> op.phase])
<1>1. CASE Flush \/ \E w \in flying : Land(w)
  BY <1>1 DEF Flush, Land
<1>2. ASSUME NEW e \in due, DeliverFails(e)
      PROVE  UNCHANGED <<github, stored, current, receipt, rows, active>>
             /\ op'.stage \in {"failed", "unrestored"}
  BY <1>2 DEF DeliverFails
<1>3. ASSUME NEW e, NEW c, Mark(e, c)
      PROVE  DOMAIN rows' = DOMAIN rows /\ \A f \in DOMAIN rows : rows'[f] = rows[f] \/ (f = e /\ rows'[f] = c)
  BY <1>3 DEF Mark
<1>4. \A b : LET c == [Fresh(0) EXCEPT !.status = "sent", !.open = b]
             IN  c.status = "sent" /\ c.closed = 0
  BY DEF Fresh
<1>5. ASSUME NEW e \in due, Deliver(e)
      PROVE  /\ UNCHANGED <<github, stored, current, receipt, active>>
             /\ DOMAIN rows' = DOMAIN rows
             /\ \A f \in DOMAIN rows : rows'[f] = rows[f] \/ (rows'[f].status = "sent" /\ rows'[f].closed = 0)
             /\ op' = op \/ op'.stage \in {"idle", "write", "save", "mark", "failed", "unrestored"}
  <2>1. UNCHANGED <<github, stored, current, receipt, active>>
    BY <1>5 DEF Deliver
  <2>2. rows' = rows \/ Sent(e, FALSE)
    BY <1>5 DEF Deliver
  <2>3. op' = op \/ \E st \in {"failed", "save", "mark", "write"} : \E phase, id :
                       op' = [stage |-> st, row |-> e, phase |-> phase, id |-> id]
    BY <1>5 DEF Deliver
  <2>4. DOMAIN rows' = DOMAIN rows
        /\ \A f \in DOMAIN rows : rows'[f] = rows[f] \/ (rows'[f].status = "sent" /\ rows'[f].closed = 0)
    BY <1>3, <1>4, <2>2 DEF Sent
  <2>5. op' = op \/ op'.stage \in {"idle", "write", "save", "mark", "failed", "unrestored"}
    BY <2>3
  <2> QED BY <2>1, <2>4, <2>5
<1>6. CASE Write \/ WriteFails \/ SaveCheck
  <2>1. op \in [stage : {"write", "save", "mark", "failed", "unrestored"}, row : Row, phase : Phase, id : Nat]
    BY <1>6, OpTyped DEF Write, WriteFails, SaveCheck, TypeInv
  <2>2. op'.stage \in {"save", "mark", "failed"}
    BY <1>6, <2>1 DEF Write, WriteFails, SaveCheck
  <2>3. op.row \in DOMAIN rows
    BY <1>6 DEF Write, WriteFails, SaveCheck, PendingInv
  <2> QED BY <1>6, <2>2, <2>3 DEF Write, WriteFails, SaveCheck
<1>7. CASE MarkSent
  <2>1. Sent(op.row, op.row.kind = "check" /\ ~Completed(op.phase)) /\ op'.stage = "idle"
        /\ UNCHANGED <<github, stored, current, receipt, active>>
    BY <1>7 DEF MarkSent, Idle
  <2>2. PICK b : Sent(op.row, b)
    BY <2>1
  <2>3. /\ DOMAIN rows' = DOMAIN rows
        /\ \A f \in DOMAIN rows : rows'[f] = rows[f] \/ (rows'[f].status = "sent" /\ rows'[f].closed = 0)
    BY <1>3, <1>4, <2>2 DEF Sent
  <2> QED BY <2>1, <2>3
<1>8. CASE MarkFailed
  <2> DEFINE c == rows[op.row]
  <2>1. op.row \in DOMAIN rows /\ c.status = "pending" /\ c \in Columns
    BY <1>8 DEF MarkFailed, PendingInv, TypeInv, TypeOK
  <2> HIDE DEF c
  <2>2. LET d == [Fresh(0) EXCEPT !.status = "sent", !.failed = TRUE] IN d.status = "sent" /\ d.closed = 0
    BY DEF Fresh
  <2>3. ASSUME NEW n PROVE LET d == [c EXCEPT !.attempts = n, !.failed = TRUE]
                           IN  d.status = "pending" /\ d.closed = c.closed
    BY <2>1 DEF Columns
  <2>4. \E d : /\ Mark(op.row, d)
               /\ \/ d.status = "sent" /\ d.closed = 0
                  \/ d.status = "pending" /\ d.closed = c.closed
    BY <1>8, <2>2, <2>3 DEF MarkFailed, c
  <2>5. UNCHANGED <<github, stored, current, receipt, active>> /\ op'.stage = "idle"
    BY <1>8 DEF MarkFailed, Idle
  <2> QED BY <1>3, <2>1, <2>4, <2>5 DEF c
<1> QED BY <1>1, <1>2, <1>5, <1>6, <1>7, <1>8

\* A pull request that has shown something again has done so for good.
LEMMA ReturnedStays ==
    ASSUME TypeInv, [Next]_vars, ~returned'
    PROVE  /\ ~returned
           /\ ~Reopen /\ ~Sync(TRUE)
           /\ \A s \in Snapshots : Edit(s) => s \notin visited
<1>1. returned \in BOOLEAN
  BY DEF TypeInv, TypeOK
<1>2. ~Reopen
  BY DEF Reopen
<1>3. ~Sync(TRUE)
  BY DEF Sync
<1>4. \A s \in Snapshots : Edit(s) => s \notin visited
  BY DEF Edit
<1>5. returned' \in {returned, TRUE}
  <2>1. ASSUME NEW s \in Snapshots, Edit(s) PROVE returned' \in {returned, TRUE}
    BY <1>1, <2>1 DEF Edit
  <2>2. ASSUME NEW regenerate \in BOOLEAN, Sync(regenerate) PROVE returned' \in {returned, TRUE}
    BY <1>1, <2>2 DEF Sync
  <2>3. CASE Close \/ Reopen \/ UNCHANGED vars
    BY <2>3 DEF Close, Reopen, vars, github
  <2>4. CASE Announce \/ Generate \/ GenerateFails \/ Project \/ SyncClosed \/ ProjectClosed \/ SaveReceipt \/ Verify
    BY <2>4 DEF Announce, Generate, GenerateFails, Project, SyncClosed, ProjectClosed, SaveReceipt, Verify, github
  <2>5. CASE \/ Flush
             \/ \E e \in due : Deliver(e) \/ DeliverFails(e)
             \/ Write \/ WriteFails \/ SaveCheck \/ MarkSent \/ MarkFailed \/ Crash
             \/ \E w \in flying : Land(w)
    BY <2>5 DEF Flush, Deliver, DeliverFails, Write, WriteFails, SaveCheck, MarkSent, MarkFailed, Crash, Land, github
  <2> QED BY <2>1, <2>2, <2>3, <2>4, <2>5 DEF Next
<1> QED BY <1>1, <1>2, <1>3, <1>4, <1>5

LEMMA DeliveryOnward ==
    ASSUME TypeInv, PendingInv, OnwardInv,
           \/ Flush
           \/ \E e \in due : Deliver(e) \/ DeliverFails(e)
           \/ Write \/ WriteFails \/ SaveCheck \/ MarkSent \/ MarkFailed
           \/ \E w \in flying : Land(w)
    PROVE  OnwardInv'
<1>1. /\ UNCHANGED <<channel, pull, closings, visited, stored, current, receipt>>
      /\ DOMAIN rows' = DOMAIN rows
      /\ op' = op \/ op'.stage \in {"idle", "write", "save", "mark", "failed", "unrestored"}
      /\ \A e \in DOMAIN rows : \/ rows'[e] = rows[e]
                                \/ rows'[e].status = "sent" /\ rows'[e].closed = 0
                                \/ rows'[e].status = "pending" /\ rows[e].status = "pending"
                                      /\ rows'[e].closed = rows[e].closed
  BY DeliverySteps DEF github
<1>2. active' = active \/ (op.row \in DOMAIN rows /\ active'.snap = op.row.snap)
  BY DeliverySteps
<1>3. VisitedInv'
  <2>1. active' # None => active'.snap \in visited /\ (active'.snap = pull.snap => current = pull.snap)
    BY <1>2 DEF OnwardInv, VisitedInv
  <2> QED BY <1>1, <2>1 DEF OnwardInv, VisitedInv
<1>4. ClosingInv'
  BY <1>1 DEF OnwardInv, ClosingInv
<1>5. PhaseInv'
  BY <1>1 DEF OnwardInv, PhaseInv, Reached, Announced
<1> QED BY <1>3, <1>4, <1>5 DEF OnwardInv

LEMMA QuietOnward ==
    ASSUME TypeInv, AnsweredInv, OnwardInv, [Next]_vars, ~returned',
           \/ UNCHANGED vars
           \/ \E s \in Snapshots : Edit(s)
           \/ Close \/ Reopen
           \/ \E regenerate \in BOOLEAN : Sync(regenerate)
           \/ Generate \/ GenerateFails \/ SyncClosed \/ SaveReceipt
    PROVE  OnwardInv'
<1> USE DEF OnwardInv
<1>0. /\ receipt \in [Snapshots -> {"none", "unverified", "verified"}]
      /\ stored \in [Snapshots -> {"none", "preparing", "error", "ready"}]
      /\ pull \in [snap : Snapshots, state : {"open", "closed"}]
      /\ \A e \in DOMAIN rows : e.snap \in Snapshots /\ e.phase \in Phase
  BY DEF TypeInv, TypeOK, Row
<1>1. CASE UNCHANGED vars
  BY <1>1 DEF vars, github, VisitedInv, ClosingInv, PhaseInv, Reached, Announced
<1>2. ASSUME NEW s \in Snapshots, Edit(s) PROVE OnwardInv'
  <2>1. /\ s \notin visited /\ pull' = [pull EXCEPT !.snap = s] /\ visited' = visited \cup {s}
        /\ UNCHANGED <<channel, closings, stored, current, receipt, rows, active, op>>
    BY <1>2, ReturnedStays DEF Edit
  <2>2. pull'.snap = s /\ pull'.state = pull.state
    BY <1>0, <2>1
  <2>3. VisitedInv'
    BY <2>1, <2>2, PresentationAssumption DEF VisitedInv
  <2>4. ClosingInv' /\ PhaseInv'
    BY <2>1, <2>2 DEF ClosingInv, PhaseInv, Reached, Announced
  <2> QED BY <2>3, <2>4
<1>3. CASE Close
  <2>1. /\ pull.state = "open" /\ pull' = [pull EXCEPT !.state = "closed"] /\ closings' = closings + 1
        /\ UNCHANGED <<channel, visited, stored, current, receipt, rows, active, op>>
    BY <1>3 DEF Close
  <2>2. pull'.snap = pull.snap /\ pull'.state = "closed"
    BY <1>0, <2>1
  <2>3. VisitedInv' /\ PhaseInv'
    BY <2>1, <2>2 DEF VisitedInv, PhaseInv, Reached, Announced
  <2>4. ClosingInv'
    BY <2>1, <2>2 DEF ClosingInv
  <2> QED BY <2>3, <2>4
<1>4. ASSUME Sync(FALSE) PROVE OnwardInv'
  <2> DEFINE s == pull.snap
  <2>1. /\ UNCHANGED <<channel, pull, closings, visited, receipt, rows, active>>
        /\ s \in Snapshots /\ current' = s
        /\ op' = [stage |-> IF stored'[s] = "ready" THEN "project" ELSE "announce", snap |-> s]
    BY <1>0, <1>4 DEF Sync
  <2>2. /\ op'.stage \in {"project", "announce"} /\ op'.snap = s
        /\ op'.stage = "announce" => stored'[s] # "ready"
    BY <2>1
  <2>3. /\ \A t \in Snapshots \ {s} : stored'[t] = stored[t]
        /\ s \notin Triggered => stored'[s] = "ready"
        /\ s \in Triggered => stored'[s] = IF stored[s] = "none" THEN "preparing" ELSE stored[s]
    BY <1>0, <1>4, <2>1 DEF Sync
  <2> HIDE DEF s
  <2>4. VisitedInv'
    <3>1. \A e \in DOMAIN rows : e.kind = "cancel" => e.snap # s
      BY DEF VisitedInv, s
    <3> QED BY <2>1, <2>2, <3>1 DEF VisitedInv, s
  <2>5. ClosingInv'
    BY <2>1, <2>2 DEF ClosingInv
  <2>6. \A t \in Snapshots, phase \in Phase : Reached(t, phase) => Reached(t, phase)'
    BY <2>1, <2>3 DEF Reached
  <2>7. PhaseInv'
    <3>1. \A e \in DOMAIN rows' : e.kind # "cancel" =>
              Reached(e.snap, e.phase)' /\ (e.for # None => receipt'[e.snap] # "none")
      BY <1>0, <2>1, <2>6 DEF PhaseInv
    <3>2. op'.stage = "announce" => s \in Triggered /\ stored'[s] \in {"preparing", "error"}
      BY <1>0, <2>1, <2>2, <2>3
    <3>3. \A t \in Triggered : stored'[t] = "ready" => Announced(t)'
      BY <2>1, <2>3, PresentationAssumption DEF PhaseInv, Announced
    <3> QED BY <2>2, <3>1, <3>2, <3>3 DEF PhaseInv
  <2> QED BY <2>4, <2>5, <2>7
<1>5. CASE Generate \/ GenerateFails
  <2> DEFINE s == op.snap
  <2>1. op \in [stage : {"announce", "generate", "project"}, snap : Snapshots] /\ op.stage = "generate"
    BY <1>5, OpTyped DEF Generate, GenerateFails, TypeInv
  <2>2. UNCHANGED <<channel, pull, closings, visited, receipt, rows, active, current>>
    BY <1>5 DEF Generate, GenerateFails, github
  <2>3. op'.stage = "idle" \/ (op'.stage = "project" /\ op'.snap = op.snap)
    BY <1>5, <2>1 DEF Generate, GenerateFails, Idle
  <2>4. /\ s \in Triggered /\ stored[s] \in {"preparing", "error"} /\ Announced(s)
        /\ \A t \in Snapshots \ {s} : stored'[t] = stored[t]
        /\ stored'[s] \in {stored[s], "ready", "error"}
    BY <1>0, <1>5, <2>1, PresentationAssumption DEF Generate, GenerateFails, PhaseInv
  <2> HIDE DEF s
  <2>5. VisitedInv' /\ ClosingInv'
    BY <2>1, <2>2, <2>3 DEF VisitedInv, ClosingInv
  <2>6. \A t \in Snapshots, phase \in Phase : Reached(t, phase) => Reached(t, phase)'
    BY <2>2, <2>4 DEF Reached
  <2>7. PhaseInv'
    BY <1>0, <2>2, <2>3, <2>4, <2>6, PresentationAssumption DEF PhaseInv, Announced
  <2> QED BY <2>5, <2>7
<1>6. CASE SyncClosed
  <2>1. /\ UNCHANGED <<channel, pull, closings, visited, stored, current, receipt, rows, active>>
        /\ pull.state = "closed" /\ op' = [stage |-> "closing", closed |-> closings]
    BY <1>6 DEF SyncClosed, github
  <2>2. op'.stage = "closing" /\ op'.closed = closings
    BY <2>1
  <2> QED BY <2>1, <2>2 DEF VisitedInv, ClosingInv, PhaseInv, Reached, Announced
<1>7. CASE SaveReceipt
  <2>1. /\ UNCHANGED <<channel, pull, closings, visited, stored, current, rows, active>>
        /\ receipt[current] = "none" /\ receipt' = [receipt EXCEPT ![current] = "unverified"]
        /\ op' = [stage |-> "project", snap |-> current]
    BY <1>7 DEF SaveReceipt, github
  <2>2. op'.stage = "project" /\ op'.snap = current
    BY <2>1
  <2>3. VisitedInv' /\ ClosingInv'
    BY <2>1, <2>2 DEF VisitedInv, ClosingInv
  <2>4. /\ \A t \in Snapshots : /\ receipt[t] # "none" => receipt'[t] # "none"
                                /\ receipt[t] = "verified" => receipt'[t] = "verified"
        /\ stored' = stored /\ rows' = rows
    BY <1>0, <2>1
  <2>5. PhaseInv'
    <3>1. \A e \in DOMAIN rows' : e.kind # "cancel" =>
              Reached(e.snap, e.phase)' /\ (e.for # None => receipt'[e.snap] # "none")
      BY <1>0, <2>4 DEF PhaseInv, Reached
    <3> QED BY <2>1, <2>2, <3>1 DEF PhaseInv, Announced
  <2> QED BY <2>3, <2>5
<1> QED BY <1>1, <1>2, <1>3, <1>4, <1>5, <1>6, <1>7, ReturnedStays

\* What comes into the outbox is of the current snapshot, and has come to pass.
Queues(phase, closed) ==
    /\ current \in Snapshots /\ phase \in Phase
    /\ Projects(current, phase, closed)
    /\ closed \in {0, closings} /\ Reached(current, phase)
    /\ phase = "closed" => pull.state = "closed" /\ closed = closings

LEMMA ProjectQueues ==
    ASSUME TypeInv, OnwardInv, Announce \/ Project \/ ProjectClosed \/ Crash
    PROVE  (\E phase, closed : Queues(phase, closed)) \/ UNCHANGED rows
<1>1. CASE op.stage \in {"announce", "project"} /\ Projects(op.snap, Projected(op.snap), 0)
  <2>1. op.snap = current /\ op.snap \in Snapshots /\ Projected(op.snap) \in Phase
    BY <1>1, ProjectSteps DEF OnwardInv, VisitedInv
  <2>2. Reached(current, Projected(current)) /\ Projected(current) # "closed"
    BY <2>1 DEF Reached, Projected, TypeInv, TypeOK
  <2> QED BY <1>1, <2>1, <2>2 DEF Queues
<1>2. CASE op.stage = "closing" /\ Projects(current, ClosedProjected(current), op.closed)
  <2>1. current \in Snapshots /\ ClosedProjected(current) \in Phase
    BY <1>2, ProjectSteps
  <2>2. pull.state = "closed" /\ op.closed = closings
    BY <1>2 DEF OnwardInv, ClosingInv
  <2>3. Reached(current, ClosedProjected(current))
    BY DEF Reached, ClosedProjected
  <2> QED BY <1>2, <2>1, <2>2, <2>3 DEF Queues
<1> QED BY <1>1, <1>2, ProjectSteps DEF ProjectStep

LEMMA QueueOnward ==
    ASSUME TypeInv, PendingInv, OnwardInv,
           Announce \/ Project \/ ProjectClosed \/ Crash \/ Verify
    PROVE  OnwardInv'
<1> USE DEF OnwardInv
<1>0. /\ receipt \in [Snapshots -> {"none", "unverified", "verified"}]
      /\ \A e \in DOMAIN rows : e.snap \in Snapshots /\ e.phase \in Phase
  BY DEF TypeInv, TypeOK, Row
<1>1. CASE Announce \/ Project \/ ProjectClosed \/ Crash
  <2>1. /\ UNCHANGED <<channel, pull, closings, visited, stored, current, receipt, active>>
        /\ op' = Idle \/ (Announce /\ op'.stage = "generate" /\ op'.snap = op.snap)
    BY <1>1, ProjectSteps DEF github
  <2>2. Announce => /\ op.stage = "announce" /\ Queue(Projection(op.snap, Projected(op.snap)), 0)
                    /\ op'.stage = "generate" /\ op'.snap = op.snap
    <3>1. op.stage = "announce" => op \in [stage : {"announce", "generate", "project"}, snap : Snapshots]
      BY OpTyped DEF TypeInv
    <3> QED BY <3>1 DEF Announce
  <2>3. op'.stage = "idle" \/ (op.stage = "announce" /\ op'.stage = "generate" /\ op'.snap = op.snap)
    BY <2>1, <2>2 DEF Idle
  <2>4. Announce => Announced(op.snap)'
    <3>1. SUFFICES ASSUME Announce PROVE Announced(op.snap)'
      OBVIOUS
    <3>2. op.snap \in Snapshots
      BY <3>1, ProjectSteps DEF Announce
    <3>3. PICK e \in Projection(op.snap, Projected(op.snap)) : e.kind = channel /\ e.snap = op.snap
      BY <3>2, ProjectionRows
    <3>4. e \in DOMAIN rows'
      BY <2>2, <3>1, <3>3, QueueRows
    <3> QED BY <2>1, <2>2, <3>1, <3>3, <3>4 DEF Announced
  <2>5. CASE UNCHANGED rows
    <3>1. VisitedInv' /\ ClosingInv'
      BY <2>1, <2>3, <2>5 DEF VisitedInv, ClosingInv
    <3>2. op'.stage = "generate" => Announced(op.snap)' /\ op.stage = "announce" /\ op'.snap = op.snap
      BY <2>1, <2>2, <2>4 DEF Idle
    <3>3. PhaseInv'
      BY <2>1, <2>3, <2>5, <3>2 DEF PhaseInv, Reached, Announced
    <3> QED BY <3>1, <3>3
  <2>6. ASSUME NEW phase, NEW closed, Queues(phase, closed) PROVE OnwardInv'
    <3>1. PICK part : part \subseteq Projection(current, phase) /\ Queue(part, closed)
      BY <2>6 DEF Queues, Projects
    <3>2. DOMAIN rows' = DOMAIN rows \cup part /\ \A e \in DOMAIN rows' : Requeues(e, part, closed)
      BY <3>1, QueueRows
    <3>3. current \in Snapshots /\ closed \in {0, closings} /\ Reached(current, phase)
          /\ (phase = "closed" => pull.state = "closed" /\ closed = closings)
      BY <2>6 DEF Queues
    <3>4. \A e \in part :
             \/ e.kind = "cancel" /\ e.snap \in Snapshots \ {current} /\ Left(e.snap)
             \/ /\ e.kind = channel /\ e.snap = current /\ e.phase = phase
                /\ e.for # None => receipt[current] # "none"
      BY <3>1, <3>3, ProjectionRows
    <3>5. \A t \in Snapshots : Left(t) => t \in visited /\ (t = pull.snap => current = pull.snap)
      BY DEF Left, VisitedInv
    <3>6. channel # "cancel" /\ current # None
      BY <3>3, PresentationAssumption DEF TypeInv, TypeOK
    <3>7. VisitedInv'
      <4>1. \A e \in DOMAIN rows' : /\ e.snap \in visited /\ (e.snap = pull.snap => current = pull.snap)
                                    /\ e.kind = "cancel" => e.snap # current
        BY <3>2, <3>3, <3>4, <3>5, <3>6 DEF VisitedInv
      <4> QED BY <2>1, <2>3, <4>1 DEF VisitedInv
    <3>8. ClosingInv'
      <4>1. ASSUME NEW e \in DOMAIN rows'
            PROVE  /\ rows'[e].closed \in {0, closings}
                   /\ e.kind # "cancel" /\ e.phase = "closed" =>
                         /\ pull.state = "closed"
                         /\ rows'[e].status = "pending" => rows'[e].closed = closings
        <5>1. CASE e \in DOMAIN rows /\ rows'[e] = rows[e]
          BY <5>1 DEF ClosingInv
        <5>2. CASE e \in part /\ rows'[e].closed = closed
          BY <3>3, <3>4, <5>2
        <5> QED BY <3>2, <5>1, <5>2 DEF Requeues
      <4> QED BY <2>1, <2>3, <4>1 DEF ClosingInv
    <3>9. PhaseInv'
      <4>1. \A t, ph : Reached(t, ph) => Reached(t, ph)'
        BY <2>1 DEF Reached
      <4>2. \A e \in DOMAIN rows' : e.kind # "cancel" =>
               Reached(e.snap, e.phase) /\ (e.for # None => receipt[e.snap] # "none")
        BY <3>2, <3>3, <3>4 DEF PhaseInv
      <4>3. \A t : Announced(t) => Announced(t)'
        BY <2>1, <3>2 DEF Announced
      <4>4. op'.stage = "generate" => Announced(op.snap)' /\ op.stage = "announce" /\ op'.snap = op.snap
        BY <2>1, <2>2, <2>4 DEF Idle
      <4>5. \A t \in Triggered : stored'[t] = "ready" \/ (op'.stage = "generate" /\ op'.snap = t) => Announced(t)'
        BY <2>1, <4>3, <4>4 DEF PhaseInv
      <4>6. \A e \in DOMAIN rows' : e.kind # "cancel" =>
               Reached(e.snap, e.phase)' /\ (e.for # None => receipt'[e.snap] # "none")
        BY <2>1, <4>2 DEF Reached
      <4>7. op'.stage \in {"announce", "generate"} =>
               op'.snap \in Triggered /\ stored'[op'.snap] \in {"preparing", "error"}
        BY <2>1, <2>3, <4>4 DEF PhaseInv
      <4> QED BY <4>5, <4>6, <4>7 DEF PhaseInv
    <3> QED BY <3>7, <3>8, <3>9
  <2> QED BY <1>1, <2>5, <2>6, ProjectQueues
<1>2. CASE Verify
  <2> DEFINE own == [kind |-> channel, snap |-> current, phase |-> "verified", for |-> current]
  <2>1. /\ UNCHANGED <<channel, pull, closings, visited, stored, current, active, op>>
        /\ receipt' = [receipt EXCEPT ![current] = "verified"]
        /\ Queue({own}, 0) /\ op.stage = "idle"
        /\ current \in Snapshots /\ pull.snap = current
    BY <1>2, PresentationAssumption DEF Verify, github, Ready, Idle, BindingCurrent, TypeInv, TypeOK
  <2>2. own.kind = channel /\ own.snap = current /\ own.phase = "verified"
    OBVIOUS
  <2>3. channel # "cancel"
    BY PresentationAssumption DEF TypeInv, TypeOK
  <2> HIDE DEF own
  <2>4. /\ DOMAIN rows' = DOMAIN rows \cup {own}
        /\ \A e \in DOMAIN rows' : Requeues(e, {own}, 0)
    BY <2>1, QueueRows
  <2>5. /\ \A t \in Snapshots : /\ receipt[t] # "none" => receipt'[t] # "none"
                                /\ receipt[t] = "verified" => receipt'[t] = "verified"
        /\ receipt'[current] = "verified"
    BY <1>0, <2>1
  <2>6. VisitedInv'
    BY <2>1, <2>2, <2>3, <2>4 DEF VisitedInv
  <2>7. ClosingInv'
    BY <2>1, <2>2, <2>4 DEF ClosingInv, Requeues
  <2>8. PhaseInv'
    <3>1. ASSUME NEW e \in DOMAIN rows', e.kind # "cancel"
          PROVE  Reached(e.snap, e.phase)' /\ (e.for # None => receipt'[e.snap] # "none")
      <4>1. CASE e \in DOMAIN rows
        BY <1>0, <2>1, <2>5, <3>1, <4>1 DEF PhaseInv, Reached
      <4>2. CASE e = own
        BY <2>1, <2>2, <2>5, <4>2 DEF Reached
      <4> QED BY <2>4, <3>1, <4>1, <4>2
    <3>2. \A t : Announced(t) => Announced(t)'
      BY <2>1, <2>4 DEF Announced
    <3> QED BY <2>1, <3>1, <3>2 DEF PhaseInv
  <2> QED BY <2>6, <2>7, <2>8
<1> QED BY <1>1, <1>2

LEMMA OnwardNext ==
    TypeInv /\ AnsweredInv /\ PendingInv /\ (~returned => OnwardInv) /\ [Next]_vars
    => (~returned => OnwardInv)'
<1> SUFFICES ASSUME TypeInv, AnsweredInv, PendingInv, ~returned => OnwardInv, [Next]_vars, ~returned'
             PROVE  OnwardInv'
  OBVIOUS
<1>1. OnwardInv
  BY ReturnedStays
<1>2. CASE \/ UNCHANGED vars
           \/ \E s \in Snapshots : Edit(s)
           \/ Close \/ Reopen
           \/ \E regenerate \in BOOLEAN : Sync(regenerate)
           \/ Generate \/ GenerateFails \/ SyncClosed \/ SaveReceipt
  BY <1>1, <1>2, QuietOnward
<1>3. CASE Announce \/ Project \/ ProjectClosed \/ Crash \/ Verify
  BY <1>1, <1>3, QueueOnward
<1>4. CASE \/ Flush
           \/ \E e \in due : Deliver(e) \/ DeliverFails(e)
           \/ Write \/ WriteFails \/ SaveCheck \/ MarkSent \/ MarkFailed
           \/ \E w \in flying : Land(w)
  BY <1>1, <1>4, DeliveryOnward
<1> QED BY <1>2, <1>3, <1>4 DEF Next

-------------------------------------------------------------------------------
\* What a delivery comes to.

ToDeliver(e) == IF e.kind = "cancel" THEN Cancelled(e) ELSE Delivered(e)
Unneeded(e) ==
    \/ ToDeliver(e) = None
    \/ e.kind = "card" /\ ToDeliver(e) \in {"neutral", "closed"} /\ cards = {}
Superseded(e) == e.snap # current /\ \E g \in DOMAIN rows : g.snap = current
Settled(e) ==
    /\ DOMAIN rows' = DOMAIN rows
    /\ \A f \in DOMAIN rows \ {e} : rows'[f] = rows[f]
    /\ rows'[e].status = "sent" /\ ~rows'[e].failed

LEMMA SentSettles ==
    ASSUME TypeInv, NEW e \in DOMAIN rows, NEW b \in BOOLEAN, Sent(e, b)
    PROVE  Settled(e) /\ rows'[e].open = b
<1>1. LET c == [Fresh(0) EXCEPT !.status = "sent", !.open = b]
      IN  c.status = "sent" /\ ~c.failed /\ c.open = b
  BY DEF Fresh
<1>2. rows' = [rows EXCEPT ![e] = [Fresh(0) EXCEPT !.status = "sent", !.open = b]]
  BY DEF Sent, Mark
<1> QED BY <1>1, <1>2 DEF Settled

LEMMA DeliverComes ==
    ASSUME TypeInv, PendingInv, NEW e \in due, Deliver(e)
    PROVE  /\ e \in DOMAIN rows /\ e \in Row /\ op = Idle /\ rows[e].status = "pending" /\ ~rows[e].open
           /\ UNCHANGED <<github, cards, checks, flying, late, stored, current, receipt, active>>
           /\ \/ /\ Unneeded(e) /\ Settled(e) /\ ~rows'[e].open /\ op' = op
                 /\ lost' = [lost EXCEPT ![e.snap] =
                               IF e.kind = "check" /\ @ = "unanswered" /\ ~Superseded(e)
                               THEN "skipped" ELSE @]
              \/ op'.stage = "failed" /\ UNCHANGED <<rows, lost>>
              \/ /\ ~Unneeded(e) /\ Cardinality(Found(e)) <= 1
                 /\ op'.stage \in {"write", "save", "mark"}
                 /\ op'.row = e /\ op'.phase = ToDeliver(e)
                 /\ op'.stage # "write" => \E c \in Found(e) : c.snap = e.snap /\ c.phase = ToDeliver(e)
                 /\ op'.stage = "mark" => e.kind # "check"
                 /\ UNCHANGED <<rows, lost>>
<1>1. /\ e \in DOMAIN rows /\ e \in Row /\ op = Idle /\ rows[e].status = "pending" /\ ~rows[e].open
      /\ UNCHANGED <<github, cards, checks, flying, late, stored, current, receipt, active>>
  BY DEF Deliver, PendingInv, TypeInv, TypeOK
<1>2. Cardinality(Found(e)) \in Nat
  BY <1>1, FoundIsShown
<1> DEFINE there == \E c \in Found(e) : c.snap = e.snap /\ c.phase = ToDeliver(e)
<1>3. \/ /\ Unneeded(e) /\ Sent(e, FALSE) /\ op' = op
         /\ lost' = [lost EXCEPT ![e.snap] =
                       IF e.kind = "check" /\ @ = "unanswered" /\ ~Superseded(e)
                       THEN "skipped" ELSE @]
      \/ /\ op' = [stage |-> "failed", row |-> e, phase |-> ToDeliver(e), id |-> 0]
         /\ UNCHANGED <<rows, lost>>
      \/ /\ ~Unneeded(e) /\ ~(Cardinality(Found(e)) > 1)
         /\ op' = [stage |-> IF there THEN IF e.kind = "check" THEN "save" ELSE "mark" ELSE "write",
                   row |-> e, phase |-> ToDeliver(e), id |-> Known(e)]
         /\ UNCHANGED <<rows, lost>>
  BY Zenon DEF Deliver, ToDeliver, Unneeded, Superseded
<1>4. Sent(e, FALSE) => Settled(e) /\ ~rows'[e].open
  BY <1>1, SentSettles
<1>5. ASSUME NEW p, NEW n, op' = [stage |-> "failed", row |-> e, phase |-> p, id |-> n]
      PROVE  op'.stage = "failed"
  BY <1>5
<1>6. ASSUME NEW p, NEW n,
             op' = [stage |-> IF there THEN IF e.kind = "check" THEN "save" ELSE "mark" ELSE "write",
                    row |-> e, phase |-> p, id |-> n]
      PROVE  /\ op'.stage \in {"write", "save", "mark"} /\ op'.row = e /\ op'.phase = p
             /\ op'.stage # "write" => there
             /\ op'.stage = "mark" => e.kind # "check"
  BY <1>6
<1>7. ~(Cardinality(Found(e)) > 1) => Cardinality(Found(e)) <= 1
  BY <1>2
<1> QED BY <1>1, <1>3, <1>4, <1>5, <1>6, <1>7

LEMMA MarkComes ==
    ASSUME TypeInv, PendingInv, MarkSent \/ MarkFailed
    PROVE  /\ op.row \in DOMAIN rows /\ op.row \in Row /\ op.phase \in Phase
           /\ rows[op.row].status = "pending" /\ ~rows[op.row].open
           /\ op' = Idle
           /\ UNCHANGED <<github, remote, stored, current, receipt, active, due, events>>
           /\ DOMAIN rows' = DOMAIN rows
           /\ \A f \in DOMAIN rows \ {op.row} : rows'[f] = rows[f]
           /\ MarkSent => /\ op.stage = "mark" /\ Settled(op.row)
                          /\ rows'[op.row].open = (op.row.kind = "check" /\ ~Completed(op.phase))
           /\ MarkFailed => /\ op.stage \in {"failed", "unrestored"} /\ rows'[op.row].failed /\ ~rows'[op.row].open
<1>1. /\ op \in [stage : {"write", "save", "mark", "failed", "unrestored"}, row : Row, phase : Phase, id : Nat]
      /\ op.stage \in {"mark", "failed", "unrestored"}
  BY OpTyped DEF MarkSent, MarkFailed, TypeInv
<1>2. /\ op.row \in DOMAIN rows /\ op.row \in Row /\ op.phase \in Phase
      /\ rows[op.row].status = "pending" /\ ~rows[op.row].open /\ rows[op.row] \in Columns
  BY <1>1 DEF PendingInv, TypeInv, TypeOK
<1>3. op' = Idle /\ UNCHANGED <<github, remote, stored, current, receipt, active, due, events>>
  BY DEF MarkSent, MarkFailed
<1>4. MarkSent => /\ op.stage = "mark" /\ Settled(op.row)
                  /\ rows'[op.row].open = (op.row.kind = "check" /\ ~Completed(op.phase))
  BY <1>2, SentSettles DEF MarkSent
<1>5. ASSUME MarkFailed
      PROVE  /\ op.stage \in {"failed", "unrestored"} /\ rows'[op.row].failed /\ ~rows'[op.row].open
             /\ DOMAIN rows' = DOMAIN rows
             /\ \A f \in DOMAIN rows \ {op.row} : rows'[f] = rows[f]
  <2>1. LET d == [Fresh(0) EXCEPT !.status = "sent", !.failed = TRUE] IN d.failed /\ ~d.open
    BY DEF Fresh
  <2>2. ASSUME NEW c \in Columns, ~c.open, NEW n
        PROVE  LET d == [c EXCEPT !.attempts = n, !.failed = TRUE] IN d.failed /\ ~d.open
    BY <2>2 DEF Columns
  <2>3. PICK d : Mark(op.row, d) /\ d.failed /\ ~d.open
    BY <1>2, <1>5, <2>1, <2>2 DEF MarkFailed
  <2> QED BY <1>2, <1>5, <2>3 DEF MarkFailed, Mark
<1> QED BY <1>1, <1>2, <1>3, <1>4, <1>5 DEF Settled

-------------------------------------------------------------------------------
\* What a write leaves.

LEMMA OneAtMost ==
    ASSUME NEW S, IsFiniteSet(S), Cardinality(S) <= 1
    PROVE  \A c, d \in S : c = d
<1>1. Cardinality(S) \in Nat
  BY FS_CardinalityType
<1>2. CASE Cardinality(S) = 0
  BY <1>2, FS_EmptySet
<1>3. CASE Cardinality(S) = 1
  BY <1>3, FS_Singleton
<1> QED BY <1>1, <1>2, <1>3

\* Where there was one at most there is now the one that was written.
LEMMA ApplyShows ==
    ASSUME TypeInv, NEW k \in {"card", "check"}, NEW id \in Nat, NEW s \in Snapshots, NEW phase \in Phase,
           Aimed(k, id, s), Apply(k, id, s, phase),
           Cardinality(Things(k, s)) <= 1, id = 0 => Things(k, s) = {}
    PROVE  /\ Things(k, s)' # {}
           /\ \A c \in Things(k, s)' : c.snap = s /\ c.phase = phase
           /\ \A j \in {"card", "check"} : \A t : j # k \/ (k = "check" /\ t # s) => Things(j, t)' = Things(j, t)
<1> DEFINE all == IF k = "card" THEN cards ELSE checks
           new == [id |-> IF id = 0 THEN Cardinality(all) + 1 ELSE id, snap |-> s, phase |-> phase]
<1>1. IsFiniteSet(Things(k, s)) /\ Counted(cards) /\ Counted(checks)
  BY ThingsFinite DEF TypeInv, RemoteInv
<1>2. \A c, d \in Things(k, s) : c = d
  BY <1>1, OneAtMost
<1>3. /\ k = "card" => cards' = Written(cards, id, s, phase) /\ checks' = checks
      /\ k = "check" => checks' = Written(checks, id, s, phase) /\ cards' = cards
  BY DEF Apply
<1>4. Written(all, id, s, phase) = {c \in all : c.id # id} \cup {new}
  BY DEF Written
<1>5. new.snap = s /\ new.phase = phase
  OBVIOUS
<1> HIDE DEF new
<1>6. \A c \in Things(k, s) : c.id = id
  BY <1>2 DEF Aimed, Exists
<1>7. \A c \in all : c.id = id => c \in Things(k, s)
  <2>1. \A c \in all : c.id \in Nat \ {0}
    BY <1>1 DEF Counted, Shown
  <2> QED BY <1>1, <2>1 DEF Aimed, Exists, Things, Counted
<1>8. Things(k, s)' = {new}
  BY <1>3, <1>4, <1>5, <1>6 DEF Things
<1>9. ASSUME NEW t, k = "check", t # s PROVE Things("check", t)' = Things("check", t)
  <2>1. checks' = {c \in checks : c.id # id} \cup {new}
    BY <1>3, <1>4, <1>9
  <2>2. \A c \in checks : c.snap = t => c.id # id
    BY <1>7, <1>9 DEF Things
  <2> QED BY <1>5, <1>9, <2>1, <2>2 DEF Things
<1>10. ASSUME NEW j \in {"card", "check"}, NEW t, j # k PROVE Things(j, t)' = Things(j, t)
  BY <1>3, <1>10 DEF Things
<1> QED BY <1>5, <1>8, <1>9, <1>10

LEMMA WriteComes ==
    ASSUME TypeInv, PendingInv, CountInv, late = 0, Write \/ WriteFails, flying' = {}
    PROVE  /\ op.stage = "write" /\ op.row \in DOMAIN rows /\ op.row \in Row /\ op.row.snap \in Snapshots
           /\ op.phase \in Phase
           /\ rows[op.row].status = "pending"
           /\ UNCHANGED <<github, late, stored, current, receipt, rows, active, due>>
           /\ op'.row = op.row /\ op'.phase = op.phase
           /\ Write => op'.stage = IF op.row.kind = "check" THEN "save" ELSE "mark"
           /\ WriteFails => op'.stage = "failed"
           /\ \/ WriteFails /\ UNCHANGED <<cards, checks, lost>>
              \/ /\ lost' = IF Write THEN lost ELSE Unanswered(op.row)
                 /\ LET k == Target(op.row)
                        s == op.row.snap
                    IN  /\ Apply(k, op.id, s, op.phase)
                        /\ Aimed(k, op.id, s) /\ k \in {"card", "check"} /\ op.id \in Nat
                        /\ Cardinality(Things(k, s)) <= 1
                        /\ op.id = 0 => Things(k, s) = {}
<1>1. /\ op.row \in Row /\ op.row.snap \in Snapshots /\ op.phase \in Phase /\ op.id \in Nat
      /\ Target(op.row) \in {"card", "check"} /\ Aimed(Target(op.row), op.id, op.row.snap)
  BY OpWrites
<1>2. op.stage = "write" /\ op \in [stage : {"write", "save", "mark", "failed", "unrestored"}, row : Row, phase : Phase, id : Nat]
  BY OpTyped DEF Write, WriteFails, TypeInv
<1>3. op.row \in DOMAIN rows /\ rows[op.row].status = "pending"
  BY <1>2 DEF PendingInv
<1>4. UNCHANGED <<github, late, stored, current, receipt, rows, active, due>>
  BY DEF Write, WriteFails, remote
<1>5. /\ op'.row = op.row /\ op'.phase = op.phase
      /\ Write => op'.stage = IF op.row.kind = "check" THEN "save" ELSE "mark"
      /\ WriteFails => op'.stage = "failed"
  BY <1>2 DEF Write, WriteFails
<1>6. \/ WriteFails /\ UNCHANGED <<cards, checks, lost>>
      \/ /\ lost' = IF Write THEN lost ELSE Unanswered(op.row)
         /\ Apply(Target(op.row), op.id, op.row.snap, op.phase)
  <2>1. CASE Write
    BY <2>1 DEF Write
  <2>2. CASE WriteFails /\ ~Write
    BY <2>2 DEF WriteFails, remote
  <2> QED BY <2>1, <2>2
<1>7. Cardinality(Things(Target(op.row), op.row.snap)) <= 1
  BY <1>1 DEF CountInv
<1>8. op.id = 0 => Things(Target(op.row), op.row.snap) = {}
  <2>1. /\ IsFiniteSet(Things(Target(op.row), op.row.snap))
        /\ Cardinality(Things(Target(op.row), op.row.snap)) \in Nat
    BY ThingsFinite
  <2>2. op.id = 0 => Cardinality(Things(Target(op.row), op.row.snap)) = 0
    BY <1>2, <2>1 DEF CountInv
  <2> QED BY <2>1, <2>2, FS_EmptySet
<1> QED BY <1>1, <1>2, <1>3, <1>4, <1>5, <1>6, <1>7, <1>8

-------------------------------------------------------------------------------
\* What is left of other snapshots.

HasCancel(t) == \E e \in DOMAIN rows : e.kind = "cancel" /\ e.snap = t

\* The cancels of what is left of others are queued before the current snapshot is
\* shown.
CancelsQueued == Announced(current) => \A t \in Snapshots \ {current} : Left(t) => HasCancel(t)

LEMMA CancelsStay ==
    ASSUME CancelsQueued, UNCHANGED <<channel, current>>, DOMAIN rows \subseteq DOMAIN rows',
           Announced(current)' => Announced(current),
           \A t \in Snapshots \ {current} : Left(t)' => Left(t)
    PROVE  CancelsQueued'
<1>1. \A t : HasCancel(t) => HasCancel(t)'
  BY DEF HasCancel
<1> QED BY <1>1 DEF CancelsQueued

\* A delivery leaves no more of another snapshot than there was.
LEMMA DeliveryCancels ==
    ASSUME TypeInv, PendingInv, channel = "check", CancelsQueued,
           \/ Flush
           \/ \E e \in due : Deliver(e) \/ DeliverFails(e)
           \/ Write \/ WriteFails \/ SaveCheck \/ MarkSent \/ MarkFailed
           \/ \E w \in flying : Land(w)
    PROVE  CancelsQueued'
<1>1. /\ UNCHANGED <<channel, current>> /\ DOMAIN rows' = DOMAIN rows
      /\ \A e \in DOMAIN rows : rows'[e].status = "pending" => rows[e].status = "pending"
  BY DeliverySteps DEF github
<1>2. Announced(current)' => Announced(current)
  BY <1>1 DEF Announced
<1>3. ASSUME active' = active,
             \A e \in DOMAIN rows : e.kind = "check" /\ rows'[e].open => rows[e].open \/ e.snap = current
      PROVE  CancelsQueued'
  <2>1. \A t \in Snapshots \ {current} : Left(t)' => Left(t)
    BY <1>1, <1>3 DEF Left, NeedsReconciliation
  <2> QED BY <1>1, <1>2, <2>1, CancelsStay
<1>4. CASE Flush \/ Write \/ WriteFails \/ \E w \in flying : Land(w)
  <2>1. UNCHANGED <<active, rows>>
    BY <1>4 DEF Flush, Write, WriteFails, Land
  <2> QED BY <1>3, <2>1
<1>5. ASSUME NEW e \in due, Deliver(e) \/ DeliverFails(e) PROVE CancelsQueued'
  <2>1. CASE DeliverFails(e)
    BY <1>3, <2>1 DEF DeliverFails
  <2>2. CASE Deliver(e)
    <3>1. /\ active' = active
          /\ rows' = rows \/ (Settled(e) /\ ~rows'[e].open)
      BY <2>2, DeliverComes
    <3> QED BY <1>3, <3>1 DEF Settled
  <2> QED BY <1>5, <2>1, <2>2
<1>6. CASE SaveCheck
  <2>1. /\ op \in [stage : {"write", "save", "mark", "failed", "unrestored"}, row : Row, phase : Phase, id : Nat]
        /\ op.stage = "save"
    BY <1>6, OpTyped DEF SaveCheck, TypeInv
  <2>2. op.row.snap = current
    BY <2>1 DEF PendingInv
  <2>3. active'.snap = current /\ rows' = rows
    BY <1>6, <2>2 DEF SaveCheck
  <2>4. \A t \in Snapshots \ {current} : Left(t)' => Left(t)
    BY <2>3 DEF Left, NeedsReconciliation
  <2> QED BY <1>1, <1>2, <2>4, CancelsStay
<1>7. CASE MarkSent \/ MarkFailed
  <2>1. /\ active' = active
        /\ \A f \in DOMAIN rows \ {op.row} : rows'[f] = rows[f]
        /\ rows'[op.row].open => op.stage = "mark" /\ op.row.kind = "check"
    BY <1>7, MarkComes
  <2>2. op.stage = "mark" /\ op.row.kind = "check" => op.row.snap = current
    BY DEF PendingInv
  <2> QED BY <1>3, <2>1, <2>2
<1> QED BY <1>4, <1>5, <1>6, <1>7

LEMMA QueueCancels ==
    ASSUME TypeInv, AnsweredInv, PendingInv, OnwardInv, channel = "check", CancelsQueued,
           Announce \/ Project \/ ProjectClosed \/ Crash \/ Verify
    PROVE  CancelsQueued'
<1>1. ASSUME NEW es, NEW closed, Queue(es, closed), UNCHANGED <<channel, current, active>>,
             \A e \in es : e.kind = "cancel" \/ e.snap = current
      PROVE  /\ \A t \in Snapshots \ {current} : Left(t)' => Left(t)
             /\ DOMAIN rows' = DOMAIN rows \cup es
  <2>1. DOMAIN rows' = DOMAIN rows \cup es /\ \A e \in DOMAIN rows' : Requeues(e, es, closed)
    BY <1>1, QueueRows
  <2>2. \A e \in DOMAIN rows' : e.kind = "check" /\ e.snap # current => e \in DOMAIN rows /\ rows'[e] = rows[e]
    BY <1>1, <2>1 DEF Requeues
  <2> QED BY <1>1, <2>1, <2>2 DEF Left, NeedsReconciliation
<1>2. CASE Verify
  <2> DEFINE own == [kind |-> channel, snap |-> current, phase |-> "verified", for |-> current]
  <2>1. /\ UNCHANGED <<channel, current, active>> /\ Queue({own}, 0) /\ own.snap = current
        /\ current \in Snapshots /\ stored[current] = "ready" /\ receipt[current] # "none"
    BY <1>2 DEF Verify, github, TypeInv, TypeOK
  <2> HIDE DEF own
  <2>2. Announced(current)
    BY <2>1 DEF AnsweredInv, OnwardInv, PhaseInv
  <2>3. \A e \in {own} : e.kind = "cancel" \/ e.snap = current
    BY <2>1
  <2>4. /\ \A t \in Snapshots \ {current} : Left(t)' => Left(t)
        /\ DOMAIN rows' = DOMAIN rows \cup {own}
    BY <1>1, <2>1, <2>3
  <2>5. DOMAIN rows \subseteq DOMAIN rows'
    BY <2>4
  <2> QED BY <2>1, <2>2, <2>4, <2>5, CancelsStay
<1>3. CASE Announce \/ Project \/ ProjectClosed \/ Crash
  <2>1. UNCHANGED <<channel, current, active>>
    BY <1>3, ProjectSteps DEF github
  <2>2. CASE UNCHANGED rows
    <3>1. Announced(current)' => Announced(current)
      BY <2>1, <2>2 DEF Announced
    <3>2. \A t \in Snapshots \ {current} : Left(t)' => Left(t)
      BY <2>1, <2>2 DEF Left, NeedsReconciliation
    <3> QED BY <2>1, <2>2, <3>1, <3>2, CancelsStay
  <2>3. ASSUME NEW phase, NEW closed, Queues(phase, closed) PROVE CancelsQueued'
    <3> DEFINE all == Projection(current, phase)
    <3>1. PICK part : part \subseteq all /\ Prefix(part, all) /\ Queue(part, closed)
      BY <2>3 DEF Queues, Projects
    <3>2. /\ current \in Snapshots
          /\ \A e \in all : e.kind = "cancel" \/ (e.kind = channel /\ e.snap = current)
          /\ \A t \in Snapshots \ {current} : Left(t) => \E e \in all : e.kind = "cancel" /\ e.snap = t
      BY <2>3, ProjectionRows DEF Queues
    <3> HIDE DEF all
    <3>3. /\ \A t \in Snapshots \ {current} : Left(t)' => Left(t)
          /\ DOMAIN rows' = DOMAIN rows \cup part
      BY <1>1, <2>1, <3>1, <3>2
    <3>4. CASE \E e \in part : e.kind # "cancel"
      <4>1. \A e \in all : e.kind = "cancel" => e \in part
        BY <3>1, <3>4 DEF Prefix
      <4>2. \A t \in Snapshots \ {current} : Left(t) => HasCancel(t)'
        BY <3>2, <3>3, <4>1 DEF HasCancel
      <4> QED BY <2>1, <3>3, <4>2 DEF CancelsQueued
    <3>5. CASE \A e \in part : e.kind = "cancel"
      <4>1. Announced(current)' => Announced(current)
        BY <2>1, <3>3, <3>5 DEF Announced
      <4> QED BY <2>1, <3>3, <4>1, CancelsStay
    <3> QED BY <3>4, <3>5
  <2> QED BY <1>3, <2>2, <2>3, ProjectQueues
<1> QED BY <1>2, <1>3

LEMMA CancelsNext ==
    ASSUME TypeInv, AnsweredInv, PendingInv, OnwardInv, channel = "check", CancelsQueued,
           [Next]_vars, ~returned'
    PROVE  CancelsQueued'
<1>1. CASE \/ UNCHANGED vars
           \/ \E s \in Snapshots : Edit(s)
           \/ Close \/ Reopen
           \/ \E regenerate \in BOOLEAN : Sync(regenerate)
           \/ Generate \/ GenerateFails \/ SyncClosed \/ SaveReceipt
  <2>1. UNCHANGED <<rows, active, channel>>
    BY <1>1, QuietSteps
  <2>2. \A t : (Left(t)' <=> Left(t)) /\ (HasCancel(t)' <=> HasCancel(t))
    BY <2>1 DEF Left, NeedsReconciliation, HasCancel
  <2>3. CASE current' = current
    BY <2>1, <2>2, <2>3 DEF CancelsQueued, Announced
  <2>4. CASE current' # current
    <3>1. PICK regenerate \in BOOLEAN : Sync(regenerate)
      BY <1>1, <2>4 DEF vars, Edit, Close, Reopen, Generate, GenerateFails, SyncClosed, SaveReceipt
    <3>2. current' = pull.snap
      BY <3>1 DEF Sync
    <3>3. \A e \in DOMAIN rows' : e.snap # current'
      BY <2>1, <2>4, <3>2 DEF OnwardInv, VisitedInv
    <3> QED BY <3>3 DEF CancelsQueued, Announced
  <2> QED BY <2>3, <2>4
<1>2. CASE Announce \/ Project \/ ProjectClosed \/ Crash \/ Verify
  BY <1>2, QueueCancels
<1>3. CASE \/ Flush
           \/ \E e \in due : Deliver(e) \/ DeliverFails(e)
           \/ Write \/ WriteFails \/ SaveCheck \/ MarkSent \/ MarkFailed
           \/ \E w \in flying : Land(w)
  BY <1>3, DeliveryCancels
<1> QED BY <1>1, <1>2, <1>3 DEF Next

-------------------------------------------------------------------------------
\* What is shown of the current snapshot.

\* Nothing came back that was shown before, and no write was applied late.
Steady == ~returned /\ flying = {} /\ late = 0

LEMMA SteadyBefore ==
    ASSUME TypeInv, [Next]_vars, Steady'
    PROVE  /\ Steady
           /\ ~\E w \in flying : Land(w)
<1>1. ~returned
  BY ReturnedStays DEF Steady
<1>2. late \in Nat
  BY DEF TypeInv, TypeOK
<1>3. ~\E w \in flying : Land(w)
  BY <1>2 DEF Land, Steady
<1>4. late' = late /\ (flying' = flying \/ flying' # {})
  <2>1. CASE \/ UNCHANGED vars
             \/ \E s \in Snapshots : Edit(s)
             \/ Close \/ Reopen
             \/ \E regenerate \in BOOLEAN : Sync(regenerate)
             \/ Generate \/ GenerateFails \/ SyncClosed \/ SaveReceipt
    BY <2>1, QuietSteps DEF remote
  <2>2. CASE Announce \/ Project \/ ProjectClosed \/ Crash \/ Verify \/ Flush
    BY <2>2 DEF Announce, Project, ProjectClosed, Crash, Verify, Flush, remote
  <2>3. CASE \E e \in due : Deliver(e) \/ DeliverFails(e)
    BY <2>3 DEF Deliver, DeliverFails, remote
  <2>4. CASE Write \/ WriteFails \/ SaveCheck \/ MarkSent \/ MarkFailed
    BY <2>4 DEF Write, WriteFails, SaveCheck, MarkSent, MarkFailed, remote
  <2> QED BY <1>3, <2>1, <2>2, <2>3, <2>4 DEF Next
<1> QED BY <1>1, <1>3, <1>4 DEF Steady

\* GitHub shows of it what the service knows.
Shows ==
    /\ \A c \in Things(channel, current) : c.snap = current /\ c.phase = Wanted
    /\ Things(channel, current) = {} => channel = "card" /\ Wanted \in {"neutral", "closed"}

NoneClosed == \A e \in DOMAIN rows : e.kind # "cancel" => e.phase # "closed"

\* Once a row of the phase is sent, the phase is shown.  What is being written is of
\* this phase too, unless the pull request is closed meanwhile and no row tells so.
ShowInv ==
    /\ \A e \in DOMAIN rows :
          /\ e.kind # "cancel" /\ e.snap = current /\ e.phase = Wanted
          /\ rows[e].status = "sent" /\ ~rows[e].failed
          => Shows
    /\ op.stage \in {"write", "save", "mark"} /\ op.row.kind # "cancel" =>
          /\ op.phase = Wanted \/ (Wanted = "closed" /\ NoneClosed)
          /\ op.stage # "write" /\ op.phase = Wanted => Shows

\* A pending row is delivered as what is wanted, or as nothing.
LEMMA DeliveredIsWanted ==
    ASSUME TypeInv, AnsweredInv, OnwardInv, current = pull.snap,
           NEW e \in DOMAIN rows, rows[e].status = "pending", e.kind # "cancel"
    PROVE  /\ Wanted \in Phase /\ current \in Snapshots
           /\ Delivered(e) # None => Delivered(e) = Wanted /\ e.snap = current
           /\ e.snap = current /\ e.phase = Wanted => Delivered(e) = Wanted
<1>1. /\ current \in Snapshots /\ pull.snap \in Snapshots /\ pull.state \in {"open", "closed"}
      /\ e.snap \in Snapshots
      /\ receipt[current] \in {"none", "unverified", "verified"}
  BY DEF TypeInv, TypeOK, Row
<1>2. Wanted \in Phase
  BY <1>1, ProjectedIsPhase DEF Wanted, TypeInv
<1>3. e.for # None => receipt[e.snap] # "none"
  BY DEF OnwardInv, PhaseInv
<1>4. /\ rows[e].closed \in {0, closings}
      /\ e.phase = "closed" => pull.state = "closed" /\ rows[e].closed = closings
      /\ closings = IF pull.state = "closed" THEN 1 ELSE 0
  BY DEF OnwardInv, ClosingInv
<1>5. /\ Projected(current) = "verified" <=> receipt[current] = "verified"
      /\ Projected(current) # "closed"
  BY <1>1 DEF Projected, AnsweredInv
<1>6. ClosedProjected(current) = IF receipt[current] = "verified" THEN "verified" ELSE "closed"
  BY DEF ClosedProjected
<1>7. CASE e.snap # current
  BY <1>1, <1>2, <1>7 DEF Delivered
<1>8. CASE e.snap = current /\ pull.state = "open"
  <2>1. rows[e].closed = 0 /\ e.phase # "closed" /\ Wanted = Projected(current)
    BY <1>4, <1>8 DEF Wanted
  <2>2. PullCurrent(e.snap) /\ BindingCurrent(e.snap)
    BY <1>8 DEF PullCurrent, BindingCurrent
  <2>3. Delivered(e) = Projected(current)
    BY <1>3, <1>8, <2>1, <2>2 DEF Delivered
  <2> QED BY <1>1, <1>2, <1>8, <2>1, <2>3
<1>9. CASE e.snap = current /\ pull.state = "closed"
  <2>1. Wanted = ClosedProjected(current) /\ closings = 1
    BY <1>4, <1>9 DEF Wanted
  <2>2. ~PullCurrent(e.snap) /\ ClosedMatches(e.snap)
    BY <1>9 DEF PullCurrent, ClosedMatches
  <2>3. ~(current # e.snap \/ (e.for # None /\ receipt[e.snap] = "none"))
    BY <1>3, <1>9
  <2>4. CASE e.phase = "closed"
    <3>1. Delivered(e) = ClosedProjected(e.snap)
      BY <1>4, <2>2, <2>3, <2>4 DEF Delivered
    <3> QED BY <1>1, <1>2, <1>9, <2>1, <3>1
  <2>5. CASE e.phase # "closed"
    <3>1. Delivered(e) = IF Projected(e.snap) = "verified" THEN "verified" ELSE None
      BY <1>4, <2>1, <2>2, <2>3, <2>5 DEF Delivered
    <3> QED BY <1>1, <1>2, <1>5, <1>6, <1>9, <2>1, <2>5, <3>1
  <2> QED BY <2>4, <2>5
<1> QED BY <1>1, <1>2, <1>7, <1>8, <1>9

LEMMA WantedStays ==
    ASSUME TypeInv, current \in Snapshots, UNCHANGED <<pull, current, stored, receipt>>
    PROVE  Wanted' = Wanted
<1>1. receipt[current] \in {"none", "unverified", "verified"}
  BY DEF TypeInv, TypeOK
<1>2. Projected(current)' = Projected(current)
  BY <1>1 DEF Projected
<1>3. ClosedProjected(current)' = ClosedProjected(current)
  BY DEF ClosedProjected
<1> QED BY <1>2, <1>3 DEF Wanted

LEMMA ShowStays ==
    ASSUME ShowInv, UNCHANGED <<channel, current, cards, checks>>, Wanted' = Wanted,
           \A e \in DOMAIN rows' : rows'[e].status = "sent" /\ ~rows'[e].failed =>
                                      e \in DOMAIN rows /\ rows'[e] = rows[e],
           op'.stage \in {"write", "save", "mark"} => op' = op /\ DOMAIN rows' = DOMAIN rows
    PROVE  ShowInv'
<1>1. Shows => Shows'
  BY DEF Shows, Things
<1>2. DOMAIN rows' = DOMAIN rows => (NoneClosed => NoneClosed')
  BY DEF NoneClosed
<1>3. \A e \in DOMAIN rows' :
         /\ e.kind # "cancel" /\ e.snap = current' /\ e.phase = Wanted'
         /\ rows'[e].status = "sent" /\ ~rows'[e].failed
         => Shows'
  BY <1>1 DEF ShowInv
<1> QED BY <1>1, <1>2, <1>3 DEF ShowInv

\* A phase that comes to be wanted is one no row was queued for.
LEMMA ShowNew ==
    ASSUME \A e \in DOMAIN rows' : e.kind # "cancel" /\ e.snap = current' /\ e.phase = Wanted' =>
                                      rows'[e].status = "pending",
           op'.stage \notin {"write", "save", "mark"}
    PROVE  ShowInv'
BY DEF ShowInv

LEMMA CloseShows ==
    ASSUME TypeInv, AnsweredInv, OnwardInv, current = pull.snap, ShowInv, Close
    PROVE  ShowInv'
<1>1. /\ UNCHANGED <<channel, current, cards, checks, stored, receipt, rows, op>>
      /\ pull.state = "open" /\ pull'.state = "closed" /\ pull'.snap = pull.snap
      /\ current \in Snapshots /\ receipt[current] \in {"none", "unverified", "verified"}
  BY DEF Close, remote, TypeInv, TypeOK
<1>2. /\ Wanted = Projected(current)
      /\ Wanted' = IF receipt[current] = "verified" THEN "verified" ELSE "closed"
  BY <1>1 DEF Wanted, ClosedProjected
<1>3. CASE receipt[current] = "verified"
  <2>1. Projected(current) = "verified"
    BY <1>1, <1>3 DEF Projected, AnsweredInv
  <2> QED BY <1>1, <1>2, <1>3, <2>1, ShowStays
<1>4. CASE receipt[current] # "verified"
  <2>1. Wanted' = "closed" /\ Wanted # "closed"
    BY <1>1, <1>2, <1>4 DEF Projected
  <2>2. NoneClosed /\ NoneClosed'
    BY <1>1 DEF NoneClosed, OnwardInv, ClosingInv
  <2>3. op.stage \in {"write", "save", "mark"} /\ op.row.kind # "cancel" => op.phase # "closed"
    BY <2>1 DEF ShowInv
  <2>4. \A e \in DOMAIN rows' : e.kind # "cancel" => e.phase # Wanted'
    BY <1>1, <2>1, <2>2 DEF NoneClosed
  <2> QED BY <1>1, <2>1, <2>2, <2>3, <2>4 DEF ShowInv
<1> QED BY <1>3, <1>4

LEMMA QuietShows ==
    ASSUME TypeInv, AnsweredInv, OnwardInv, current = pull.snap => ShowInv,
           [Next]_vars, ~returned', current' = pull'.snap,
           \/ UNCHANGED vars
           \/ \E s \in Snapshots : Edit(s)
           \/ Close \/ Reopen
           \/ \E regenerate \in BOOLEAN : Sync(regenerate)
           \/ Generate \/ GenerateFails \/ SyncClosed \/ SaveReceipt
    PROVE  ShowInv'
<1>0. /\ UNCHANGED <<channel, cards, checks, rows>>
      /\ op'.stage \in {"write", "save", "mark"} => op' = op
      /\ receipt \in [Snapshots -> {"none", "unverified", "verified"}]
      /\ stored \in [Snapshots -> {"none", "preparing", "error", "ready"}]
      /\ pull \in [snap : Snapshots, state : {"open", "closed"}]
  BY QuietSteps DEF remote, TypeInv, TypeOK
<1>1. ASSUME current = pull.snap, current' = current, Wanted' = Wanted PROVE ShowInv'
  BY <1>0, <1>1, ShowStays
<1>2. CASE UNCHANGED vars
  <2>1. UNCHANGED <<pull, current, stored, receipt>> /\ current \in Snapshots /\ current = pull.snap
    BY <1>0, <1>2 DEF vars, github
  <2>2. Wanted' = Wanted
    BY <2>1, WantedStays
  <2> QED BY <1>1, <2>1, <2>2
<1>3. ASSUME NEW s \in Snapshots, Edit(s) PROVE ShowInv'
  <2>1. s \notin visited /\ pull'.snap = s /\ current' = current
    BY <1>0, <1>3, ReturnedStays DEF Edit
  <2>2. current \in visited \cup {None} /\ None \notin Snapshots
    BY PresentationAssumption DEF OnwardInv, VisitedInv
  <2> QED BY <2>1, <2>2
<1>4. CASE Close
  <2>1. current = pull.snap
    BY <1>0, <1>4 DEF Close
  <2> QED BY <1>4, <2>1, CloseShows
<1>5. ASSUME Sync(FALSE) PROVE ShowInv'
  <2> DEFINE s == pull.snap
  <2>1. /\ s \in Snapshots /\ current' = s /\ UNCHANGED <<pull, receipt>> /\ pull.state = "open"
        /\ op'.stage \in {"project", "announce"}
        /\ stored' = [stored EXCEPT ![s] = IF s \notin Triggered THEN "ready"
                                           ELSE IF @ = "none" THEN "preparing" ELSE @]
    BY <1>0, <1>5 DEF Sync
  <2> HIDE DEF s
  <2>2. CASE current = s
    <3>1. s \in Triggered => stored'[s] = IF stored[s] = "none" THEN "preparing" ELSE stored[s]
      BY <1>0, <2>1
    <3>2. receipt[current] \in {"none", "unverified", "verified"} /\ current' = current
      BY <1>0, <2>1, <2>2
    <3>3. Projected(current)' = Projected(current)
      BY <2>1, <2>2, <3>1, <3>2 DEF Projected
    <3>4. Wanted' = Wanted
      BY <2>1, <3>2, <3>3 DEF Wanted
    <3> QED BY <1>1, <2>1, <2>2, <3>4 DEF s
  <2>3. CASE current # s
    <3>1. \A e \in DOMAIN rows' : e.snap # s
      BY <1>0, <2>3 DEF OnwardInv, VisitedInv, s
    <3> QED BY <2>1, <3>1, ShowNew
  <2> QED BY <2>2, <2>3
<1>6. CASE Generate \/ GenerateFails
  <2>1. op \in [stage : {"announce", "generate", "project"}, snap : Snapshots] /\ op.stage = "generate"
    BY <1>6, OpTyped DEF Generate, GenerateFails, TypeInv
  <2>2. /\ UNCHANGED <<pull, receipt, current>> /\ op.snap = current /\ current \in Snapshots
        /\ op'.stage \in {"project", "idle"}
        /\ current \in Triggered /\ stored[current] \in {"preparing", "error"}
        /\ receipt[current] = "none" /\ current = pull.snap
    BY <1>6, <2>1 DEF Generate, GenerateFails, github, Idle, OnwardInv, VisitedInv, PhaseInv, AnsweredInv
  <2>3. CASE stored' = stored
    <3>1. Wanted' = Wanted
      BY <2>2, <2>3 DEF Wanted, Projected, ClosedProjected
    <3> QED BY <1>1, <2>2, <3>1
  <2>4. CASE Generate /\ stored' # stored
    <3>1. stored'[current] = "ready" /\ pull.state = "open"
      BY <1>0, <2>2, <2>4 DEF Generate, PullCurrent
    <3>2. Wanted' = "awaiting_author"
      BY <2>2, <3>1 DEF Wanted, Projected
    <3>3. \A e \in DOMAIN rows' : e.kind # "cancel" /\ e.snap = current => e.phase # "awaiting_author"
      BY <1>0, <2>2 DEF OnwardInv, PhaseInv, Reached
    <3> QED BY <2>2, <3>2, <3>3, ShowNew
  <2>5. CASE GenerateFails
    <3>1. stored'[current] = "error"
      BY <1>0, <2>2, <2>5 DEF GenerateFails
    <3>2. CASE pull.state = "open" /\ stored[current] = "preparing"
      <4>1. Wanted' = "error"
        BY <2>2, <3>1, <3>2 DEF Wanted, Projected
      <4>2. \A e \in DOMAIN rows' : e.kind # "cancel" /\ e.snap = current => e.phase # "error"
        BY <1>0, <2>2, <3>2 DEF OnwardInv, PhaseInv, Reached
      <4> QED BY <2>2, <4>1, <4>2, ShowNew
    <3>3. CASE pull.state = "open" /\ stored[current] = "error"
      <4>1. Wanted' = Wanted
        BY <2>2, <3>1, <3>3 DEF Wanted, Projected
      <4> QED BY <1>1, <2>2, <4>1
    <3>4. CASE pull.state # "open"
      <4>1. Wanted' = Wanted
        BY <2>2, <3>4 DEF Wanted, ClosedProjected
      <4> QED BY <1>1, <2>2, <4>1
    <3> QED BY <2>2, <3>2, <3>3, <3>4
  <2> QED BY <1>6, <2>3, <2>4, <2>5
<1>7. CASE SyncClosed
  <2>1. UNCHANGED <<pull, current, stored, receipt>> /\ current \in Snapshots /\ current = pull.snap
    BY <1>0, <1>7 DEF SyncClosed, github
  <2>2. Wanted' = Wanted
    BY <2>1, WantedStays
  <2> QED BY <1>1, <2>1, <2>2
<1>8. CASE SaveReceipt
  <2>1. /\ UNCHANGED <<pull, current, stored>> /\ pull.state = "open" /\ current \in Snapshots
        /\ current \in Triggered /\ stored[current] = "ready" /\ receipt[current] = "none"
        /\ receipt' = [receipt EXCEPT ![current] = "unverified"] /\ op'.stage = "project"
    BY <1>8, PresentationAssumption DEF SaveReceipt, PullCurrent, github
  <2>2. Wanted' = "verifying"
    BY <1>0, <2>1 DEF Wanted, Projected
  <2>3. \A e \in DOMAIN rows' : e.kind # "cancel" /\ e.snap = current => e.phase # "verifying"
    BY <1>0, <2>1 DEF OnwardInv, PhaseInv, Reached
  <2> QED BY <2>1, <2>2, <2>3, ShowNew
<1> QED BY <1>2, <1>3, <1>4, <1>5, <1>6, <1>7, <1>8, ReturnedStays

LEMMA QueueShows ==
    ASSUME TypeInv, AnsweredInv, PendingInv, OnwardInv, current = pull.snap, ShowInv,
           Announce \/ Project \/ ProjectClosed \/ Crash \/ Verify
    PROVE  ShowInv'
<1>1. current \in Snapshots
  BY DEF TypeInv, TypeOK
<1>2. CASE Announce \/ Project \/ ProjectClosed \/ Crash
  <2>1. /\ UNCHANGED <<channel, pull, cards, checks, stored, current, receipt>>
        /\ op'.stage \in {"idle", "generate"}
    BY <1>2, ProjectSteps DEF github, Idle
  <2>2. Wanted' = Wanted
    BY <1>1, <2>1, WantedStays
  <2>3. ASSUME NEW es, NEW closed, Queue(es, closed), NEW e \in DOMAIN rows',
               rows'[e].status = "sent", ~rows'[e].failed
        PROVE  e \in DOMAIN rows /\ rows'[e] = rows[e]
    BY <2>3, QueueRows DEF Requeues
  <2>4. \A e \in DOMAIN rows' : rows'[e].status = "sent" /\ ~rows'[e].failed =>
                                   e \in DOMAIN rows /\ rows'[e] = rows[e]
    BY <1>2, <2>3, ProjectSteps DEF ProjectStep, Projects
  <2> QED BY <2>1, <2>2, <2>4, ShowStays
<1>3. CASE Verify
  <2> DEFINE own == [kind |-> channel, snap |-> current, phase |-> "verified", for |-> current]
  <2>1. /\ UNCHANGED <<pull, stored, current, op>> /\ op.stage = "idle" /\ Queue({own}, 0)
        /\ pull.state = "open" /\ stored[current] = "ready" /\ receipt[current] = "unverified"
        /\ receipt'[current] = "verified"
    BY <1>1, <1>3 DEF Verify, github, Ready, Idle, BindingCurrent, TypeInv, TypeOK
  <2>2. Wanted' = "verified"
    <3>1. current \in Triggered
      BY <1>1, <2>1 DEF AnsweredInv
    <3> QED BY <2>1, <3>1 DEF Wanted, Projected
  <2> HIDE DEF own
  <2>3. DOMAIN rows' = DOMAIN rows \cup {own} /\ \A e \in DOMAIN rows' : Requeues(e, {own}, 0)
    BY <2>1, QueueRows
  <2>4. \A e \in DOMAIN rows : e.kind # "cancel" /\ e.snap = current => e.phase # "verified"
    BY <2>1 DEF OnwardInv, PhaseInv, Reached
  <2>5. \A e \in DOMAIN rows' \ DOMAIN rows : rows'[e].status = "pending"
    BY <2>3 DEF Requeues
  <2> QED BY <2>1, <2>2, <2>4, <2>5, ShowNew
<1> QED BY <1>2, <1>3

LEMMA DeliverShows ==
    ASSUME TypeInv, AnsweredInv, PendingInv, OnwardInv, current = pull.snap, ShowInv,
           NEW e \in due, Deliver(e)
    PROVE  ShowInv'
<1>1. /\ e \in DOMAIN rows /\ e \in Row /\ op = Idle /\ rows[e].status = "pending"
      /\ UNCHANGED <<channel, pull, cards, checks, stored, current, receipt>>
      /\ \/ Unneeded(e) /\ Settled(e) /\ op' = op
         \/ op'.stage = "failed" /\ UNCHANGED rows
         \/ /\ ~Unneeded(e) /\ Cardinality(Found(e)) <= 1
            /\ op'.row = e /\ op'.phase = ToDeliver(e)
            /\ op'.stage # "write" => \E c \in Found(e) : c.snap = e.snap /\ c.phase = ToDeliver(e)
            /\ UNCHANGED rows
  BY DeliverComes DEF github
<1>2. Wanted \in Phase /\ current \in Snapshots /\ None \notin Phase
  BY ProjectedIsPhase, PresentationAssumption DEF Wanted, TypeInv, TypeOK
<1>3. Wanted' = Wanted
  BY <1>1, <1>2, WantedStays
<1>4. e.kind # "cancel" => /\ ToDeliver(e) = Delivered(e) /\ e.kind = channel
                           /\ Delivered(e) # None => Delivered(e) = Wanted /\ e.snap = current
                           /\ e.snap = current /\ e.phase = Wanted => Delivered(e) = Wanted
  BY <1>1, DeliveredIsWanted DEF ToDeliver, PendingInv
<1>5. Shows => Shows'
  BY <1>1, <1>3 DEF Shows, Things
<1>6. CASE Unneeded(e) /\ Settled(e) /\ op' = op
  <2>1. e.kind # "cancel" /\ e.snap = current /\ e.phase = Wanted => Shows
    BY <1>2, <1>4, <1>6 DEF Unneeded, Shows, Things
  <2>2. \A f \in DOMAIN rows' :
           /\ f.kind # "cancel" /\ f.snap = current' /\ f.phase = Wanted'
           /\ rows'[f].status = "sent" /\ ~rows'[f].failed
           => Shows'
    BY <1>1, <1>3, <1>5, <1>6, <2>1 DEF Settled, ShowInv
  <2> QED BY <1>1, <1>6, <2>2 DEF ShowInv, Idle
<1>7. CASE op'.stage = "failed" /\ UNCHANGED rows
  BY <1>1, <1>3, <1>7, ShowStays
<1>8. CASE /\ ~Unneeded(e) /\ Cardinality(Found(e)) <= 1
           /\ op'.row = e /\ op'.phase = ToDeliver(e)
           /\ op'.stage # "write" => \E c \in Found(e) : c.snap = e.snap /\ c.phase = ToDeliver(e)
           /\ UNCHANGED rows
  <2>1. e.kind # "cancel" => op'.phase = Wanted /\ e.snap = current
    BY <1>4, <1>8 DEF Unneeded
  <2>2. e.kind # "cancel" => Found(e) = Things(channel, current)
    BY <1>4, <2>1 DEF Found, Things
  <2>3. e.kind # "cancel" /\ op'.stage # "write" => Shows
    <3>1. \A c, d \in Found(e) : c = d
      BY <1>1, <1>8, FoundIsShown, OneAtMost
    <3> QED BY <1>8, <2>1, <2>2, <3>1 DEF Shows
  <2>4. \A f \in DOMAIN rows' :
           /\ f.kind # "cancel" /\ f.snap = current' /\ f.phase = Wanted'
           /\ rows'[f].status = "sent" /\ ~rows'[f].failed
           => Shows'
    BY <1>1, <1>3, <1>5, <1>8 DEF ShowInv
  <2> QED BY <1>3, <1>5, <1>8, <2>1, <2>3, <2>4 DEF ShowInv
<1> QED BY <1>1, <1>6, <1>7, <1>8

LEMMA WriteShows ==
    ASSUME TypeInv, PendingInv, CountInv, OnwardInv, current = pull.snap, late = 0, ShowInv,
           Write \/ WriteFails, flying' = {}
    PROVE  ShowInv'
<1>1. /\ op.stage = "write" /\ op.row \in DOMAIN rows /\ op.row \in Row
      /\ UNCHANGED <<channel, pull, stored, current, receipt, rows>>
      /\ op'.row = op.row /\ op'.phase = op.phase
      /\ WriteFails => op'.stage = "failed"
  BY WriteComes DEF github
<1>2. Wanted' = Wanted /\ current \in Snapshots
  BY <1>1, WantedStays DEF TypeInv, TypeOK
<1>3. /\ op.row.kind = channel \/ (op.row.kind = "cancel" /\ channel = "check")
      /\ op.row.kind # "cancel" <=> op.row.snap = current
      /\ channel \in {"card", "check"}
  BY <1>1, PresentationAssumption DEF PendingInv, TypeInv, TypeOK
<1>4. CASE WriteFails /\ UNCHANGED <<cards, checks>>
  BY <1>1, <1>2, <1>4, ShowStays
<1>5. CASE ~(WriteFails /\ UNCHANGED <<cards, checks>>)
  <2>1. PICK k, id, s, phase : k = Target(op.row) /\ id = op.id /\ s = op.row.snap /\ phase = op.phase
    OBVIOUS
  <2>2. /\ Apply(k, id, s, phase) /\ Aimed(k, id, s) /\ k \in {"card", "check"} /\ id \in Nat
        /\ Cardinality(Things(k, s)) <= 1 /\ (id = 0 => Things(k, s) = {})
        /\ s \in Snapshots /\ phase \in Phase
    BY <1>5, <2>1, WriteComes
  <2>3. /\ Things(k, s)' # {}
        /\ \A c \in Things(k, s)' : c.snap = s /\ c.phase = phase
        /\ \A j \in {"card", "check"} : \A t : j # k \/ (k = "check" /\ t # s) => Things(j, t)' = Things(j, t)
    BY <2>2, ApplyShows
  <2>4. CASE op.row.kind = "cancel"
    <3>1. k = "check" /\ s # current
      BY <1>3, <2>1, <2>4 DEF Target
    <3>2. \A t : t # s => Things(channel, t)' = Things("check", t)
      BY <1>1, <1>3, <2>3, <2>4, <3>1 DEF Things
    <3>3. Shows => Shows'
      BY <1>1, <1>2, <1>3, <2>4, <3>1, <3>2, PresentationAssumption DEF Shows, Things, TypeInv, TypeOK
    <3> QED BY <1>1, <1>2, <2>4, <3>3 DEF ShowInv
  <2>5. CASE op.row.kind # "cancel"
    <3>1. k = channel /\ s = current
      BY <1>3, <2>1, <2>5 DEF Target
    <3>2. phase = Wanted => Shows'
      BY <1>1, <1>2, <2>3, <3>1 DEF Shows, Things
    <3>3. phase # Wanted => Wanted = "closed" /\ NoneClosed
      BY <1>1, <2>1, <2>5 DEF ShowInv
    <3> QED BY <1>1, <1>2, <2>1, <3>2, <3>3 DEF ShowInv, NoneClosed
  <2> QED BY <2>4, <2>5
<1> QED BY <1>4, <1>5

LEMMA ShowNext ==
    ASSUME TypeInv, AnsweredInv, PendingInv, CountInv, OnwardInv, Steady,
           current = pull.snap => ShowInv, [Next]_vars, Steady', current' = pull'.snap
    PROVE  ShowInv'
<1>1. CASE \/ UNCHANGED vars
           \/ \E s \in Snapshots : Edit(s)
           \/ Close \/ Reopen
           \/ \E regenerate \in BOOLEAN : Sync(regenerate)
           \/ Generate \/ GenerateFails \/ SyncClosed \/ SaveReceipt
  BY <1>1, QuietShows DEF Steady
<1>2. CASE Announce \/ Project \/ ProjectClosed \/ Crash \/ Verify
  <2>1. UNCHANGED <<pull, current>>
    BY <1>2 DEF Announce, Project, ProjectClosed, Crash, Verify, github
  <2> QED BY <1>2, <2>1, QueueShows
<1>3. CASE \/ Flush
           \/ \E e \in due : Deliver(e) \/ DeliverFails(e)
           \/ Write \/ WriteFails \/ SaveCheck \/ MarkSent \/ MarkFailed
  <2>1. UNCHANGED <<channel, pull, stored, current, receipt>> /\ current \in Snapshots
    BY <1>3, DeliverySteps DEF github, TypeInv, TypeOK
  <2>2. current = pull.snap /\ ShowInv /\ Wanted' = Wanted
    BY <2>1, WantedStays
  <2>3. CASE Flush
    BY <2>1, <2>2, <2>3, ShowStays DEF Flush, Ready, Idle, remote
  <2>4. ASSUME NEW e \in due, DeliverFails(e) PROVE ShowInv'
    <3>1. UNCHANGED <<rows, cards, checks>> /\ op'.stage \in {"failed", "unrestored"}
      BY <2>4 DEF DeliverFails, remote
    <3> QED BY <2>1, <2>2, <3>1, ShowStays
  <2>5. ASSUME NEW e \in due, Deliver(e) PROVE ShowInv'
    BY <2>2, <2>5, DeliverShows
  <2>6. CASE Write \/ WriteFails
    BY <2>2, <2>6, WriteShows DEF Steady
  <2>7. CASE SaveCheck
    <3>1. op \in [stage : {"write", "save", "mark", "failed", "unrestored"}, row : Row, phase : Phase, id : Nat]
          /\ op.stage = "save"
      BY <2>7, OpTyped DEF SaveCheck, TypeInv
    <3>2. op'.row = op.row /\ op'.phase = op.phase /\ UNCHANGED <<rows, cards, checks>>
      BY <2>7, <3>1 DEF SaveCheck
    <3>3. Shows' <=> Shows
      BY <2>1, <2>2, <3>2 DEF Shows, Things
    <3> QED BY <2>1, <2>2, <3>1, <3>2, <3>3 DEF ShowInv, NoneClosed
  <2>8. CASE MarkSent \/ MarkFailed
    <3>1. /\ op.row \in DOMAIN rows /\ op'.stage = "idle" /\ UNCHANGED <<cards, checks>>
          /\ DOMAIN rows' = DOMAIN rows
          /\ \A f \in DOMAIN rows \ {op.row} : rows'[f] = rows[f]
          /\ rows'[op.row].failed \/ op.stage = "mark"
      BY <2>8, MarkComes DEF Idle, remote
    <3>2. Shows' <=> Shows
      BY <2>1, <2>2, <3>1 DEF Shows, Things
    <3>3. op.stage = "mark" /\ op.row.kind # "cancel" /\ op.row.phase = Wanted => Shows
      BY <2>2, <3>1 DEF ShowInv, NoneClosed
    <3> QED BY <2>1, <2>2, <3>1, <3>2, <3>3 DEF ShowInv
  <2> QED BY <1>3, <2>3, <2>4, <2>5, <2>6, <2>7, <2>8
<1>4. ~\E w \in flying : Land(w)
  BY SteadyBefore
<1> QED BY <1>1, <1>2, <1>3, <1>4 DEF Next

-------------------------------------------------------------------------------
\* Check runs that have not ended.

Running(t) == \E c \in checks : c.snap = t /\ ~Completed(c.phase)

\* What is being saved or marked is what stands on GitHub.
SavedInv ==
    /\ op.stage \in {"save", "mark"} /\ op.row.kind = "check" =>
          \A c \in checks : c.snap = op.row.snap => c.phase = op.phase
    /\ op.stage = "mark" /\ op.row.kind = "check" =>
          active = [snap |-> op.row.snap, phase |-> op.phase]

\* Once a cancel is sent, no check run of its snapshot is left open.
CancelledInv ==
    /\ \A e \in DOMAIN rows : /\ e.kind = "cancel"
                              /\ rows[e].status = "sent" /\ ~rows[e].failed
                              => ~Running(e.snap)
    /\ op.stage = "write" /\ op.row.kind = "cancel" => Completed(op.phase)
    /\ op.stage = "mark" /\ op.row.kind = "cancel" => ~Running(op.row.snap)

InFlight(t) == op.stage \in {"save", "mark"} /\ op.row.kind = "check" /\ op.row.snap = t
Tracked(t) ==
    \/ active # None /\ active.snap = t /\ ~Completed(active.phase)
    \/ \E e \in DOMAIN rows : e.kind = "check" /\ e.snap = t /\ rows[e].open
Retried(t) ==
    \E e \in DOMAIN rows : e.kind = "check" /\ e.snap = t /\ (rows[e].status = "pending" \/ rows[e].failed)

\* The store knows of every check run that is open, or a cancel is on its way, or
\* the row whose write was not answered comes again, unless it was skipped.
RunningInv ==
    \A t \in Snapshots : Running(t) =>
        \/ InFlight(t) \/ Tracked(t) \/ HasCancel(t)
        \/ lost[t] = "skipped"
        \/ lost[t] = "unanswered" /\ Retried(t)

EndInv == SavedInv /\ CancelledInv /\ RunningInv

LEMMA QuietEnds ==
    ASSUME TypeInv, EndInv,
           \/ UNCHANGED vars
           \/ \E s \in Snapshots : Edit(s)
           \/ Close \/ Reopen
           \/ \E regenerate \in BOOLEAN : Sync(regenerate)
           \/ Generate \/ GenerateFails \/ SyncClosed \/ SaveReceipt
    PROVE  EndInv'
<1>1. /\ UNCHANGED <<checks, lost, rows, active>>
      /\ op'.stage \in {"write", "save", "mark"} => op' = op
  BY QuietSteps DEF remote
<1>2. op.stage \in {"save", "mark"} => op' = op
  <2>1. CASE UNCHANGED vars
    BY <2>1 DEF vars
  <2>2. CASE (\E s \in Snapshots : Edit(s)) \/ Close \/ Reopen
    BY <2>2 DEF Edit, Close, Reopen
  <2>3. CASE \/ \E regenerate \in BOOLEAN : Sync(regenerate)
             \/ Generate \/ GenerateFails \/ SyncClosed \/ SaveReceipt
    BY <2>3 DEF Sync, Generate, GenerateFails, SyncClosed, SaveReceipt, Ready, Idle
  <2> QED BY <2>1, <2>2, <2>3
<1>3. \A t : /\ Running(t)' <=> Running(t)
             /\ Tracked(t)' <=> Tracked(t)
             /\ HasCancel(t)' <=> HasCancel(t)
             /\ Retried(t)' <=> Retried(t)
             /\ InFlight(t) => InFlight(t)'
  BY <1>1, <1>2 DEF Running, Tracked, HasCancel, Retried, InFlight
<1>4. SavedInv'
  BY <1>1 DEF EndInv, SavedInv
<1>5. CancelledInv'
  BY <1>1, <1>3 DEF EndInv, CancelledInv, Running
<1>6. RunningInv'
  BY <1>1, <1>3 DEF EndInv, RunningInv
<1> QED BY <1>4, <1>5, <1>6 DEF EndInv

LEMMA QueueEnds ==
    ASSUME TypeInv, PendingInv, EndInv,
           Announce \/ Project \/ ProjectClosed \/ Crash \/ Verify
    PROVE  EndInv'
<1>1. /\ UNCHANGED <<checks, active>> /\ op'.stage \notin {"write", "save", "mark"}
      /\ op.stage \in {"save", "mark"} => Crash /\ rows' = rows
      /\ lost' = IF op.stage = "save" THEN Unanswered(op.row) ELSE lost
  <2>1. CASE Announce \/ Project \/ ProjectClosed
    <3>1. op' = Idle \/ op'.stage = "generate"
      BY <2>1, ProjectSteps
    <3> QED BY <2>1, <3>1 DEF Announce, Project, ProjectClosed, Idle, remote
  <2>2. CASE Verify
    BY <2>2 DEF Verify, Ready, Idle, remote
  <2>3. CASE Crash
    BY <2>3 DEF Crash, Idle
  <2> QED BY <2>1, <2>2, <2>3
<1>2. /\ DOMAIN rows \subseteq DOMAIN rows'
      /\ \A e \in DOMAIN rows' :
            \/ e \in DOMAIN rows /\ rows'[e] = rows[e]
            \/ /\ rows'[e].status = "pending"
               /\ e \in DOMAIN rows => rows[e].status = "pending" \/ rows[e].failed
  <2>1. ASSUME NEW es, NEW closed, Queue(es, closed)
        PROVE  /\ DOMAIN rows' = DOMAIN rows \cup es
               /\ \A e \in DOMAIN rows' : Requeues(e, es, closed)
    BY <2>1, QueueRows
  <2>2. rows' = rows \/ \E es, closed : Queue(es, closed)
    <3>1. CASE Verify
      BY <3>1 DEF Verify
    <3>2. CASE ~Verify
      BY <3>2, ProjectSteps DEF ProjectStep, Projects
    <3> QED BY <3>1, <3>2
  <2> QED BY <2>1, <2>2 DEF Requeues
<1>3. \A e \in DOMAIN rows : rows[e].open => rows'[e] = rows[e]
  BY <1>2 DEF PendingInv
<1>4. ASSUME NEW t
      PROVE  /\ Running(t)' <=> Running(t)
             /\ Tracked(t) => Tracked(t)'
             /\ HasCancel(t) => HasCancel(t)'
             /\ Retried(t) => Retried(t)'
  BY <1>1, <1>2, <1>3 DEF Running, Tracked, HasCancel, Retried
<1>5. SavedInv'
  BY <1>1 DEF SavedInv
<1>6. CancelledInv'
  BY <1>1, <1>2, <1>4 DEF EndInv, CancelledInv
<1>7. RunningInv'
  <2>0. lost \in [Snapshots -> {"no", "unanswered", "skipped"}]
    BY DEF TypeInv, TypeOK
  <2>1. ASSUME NEW t \in Snapshots, Running(t), InFlight(t)
        PROVE  Tracked(t)' \/ (lost'[t] = "unanswered" /\ Retried(t)')
    <3>1. /\ op \in [stage : {"write", "save", "mark", "failed", "unrestored"}, row : Row, phase : Phase, id : Nat]
          /\ op.row.kind = "check" /\ op.row.snap = t /\ op.stage \in {"save", "mark"} /\ rows' = rows
      BY <1>1, <2>1, OpTyped DEF InFlight, TypeInv
    <3>2. op.row \in DOMAIN rows /\ rows[op.row].status = "pending"
      BY <3>1 DEF PendingInv
    <3>3. CASE op.stage = "save"
      <4>1. lost'[t] = "unanswered"
        BY <1>1, <2>0, <3>1, <3>3 DEF Unanswered
      <4> QED BY <3>1, <3>2, <4>1 DEF Retried
    <3>4. CASE op.stage = "mark"
      <4>1. active = [snap |-> t, phase |-> op.phase] /\ ~Completed(op.phase)
        BY <2>1, <3>1, <3>4 DEF EndInv, SavedInv, Running
      <4>2. active # None
        BY <3>1, <4>1, PresentationAssumption
      <4>3. Tracked(t)
        BY <4>1, <4>2 DEF Tracked
      <4> QED BY <1>4, <4>3
    <3> QED BY <3>1, <3>3, <3>4
  <2>2. ASSUME NEW t \in Snapshots, ~InFlight(t) PROVE lost'[t] = lost[t]
    <3>1. op.stage = "save" => op.row.snap # t
      BY <2>2 DEF InFlight, PendingInv
    <3> QED BY <1>1, <2>0, <3>1 DEF Unanswered
  <2> QED BY <1>4, <2>1, <2>2 DEF EndInv, RunningInv
<1> QED BY <1>5, <1>6, <1>7 DEF EndInv

LEMMA DeliverEnds ==
    ASSUME TypeInv, PendingInv, CancelInv, OnwardInv, channel = "check", CancelsQueued, EndInv,
           NEW e \in due, Deliver(e)
    PROVE  EndInv'
<1>1. /\ e \in DOMAIN rows /\ e \in Row /\ op = Idle /\ rows[e].status = "pending" /\ ~rows[e].open
      /\ UNCHANGED <<channel, checks, current, active>>
      /\ \/ /\ Unneeded(e) /\ Settled(e) /\ ~rows'[e].open /\ op' = op
            /\ lost' = [lost EXCEPT ![e.snap] =
                          IF e.kind = "check" /\ @ = "unanswered" /\ ~Superseded(e)
                          THEN "skipped" ELSE @]
         \/ op'.stage = "failed" /\ UNCHANGED <<rows, lost>>
         \/ /\ ~Unneeded(e) /\ Cardinality(Found(e)) <= 1
            /\ op'.stage \in {"write", "save", "mark"}
            /\ op'.row = e /\ op'.phase = ToDeliver(e)
            /\ op'.stage # "write" => \E c \in Found(e) : c.snap = e.snap /\ c.phase = ToDeliver(e)
            /\ op'.stage = "mark" => e.kind # "check"
            /\ UNCHANGED <<rows, lost>>
  BY DeliverComes DEF github
<1>2. /\ e.kind \in {"check", "cancel"} /\ e.snap \in Snapshots /\ e.phase \in Phase
      /\ Found(e) = {c \in checks : c.snap = e.snap}
      /\ e.kind = "cancel" => /\ ToDeliver(e) = Cancelled(e) /\ e.snap # current
                              /\ Completed(e.phase) /\ e.phase # None
  BY <1>1, PresentationAssumption
  DEF PendingInv, Found, ToDeliver, OnwardInv, VisitedInv, CancelInv, Completed, Open, Row
<1>3. \A t : Running(t)' <=> Running(t)
  BY <1>1 DEF Running
<1>4. CASE op'.stage = "failed" /\ UNCHANGED <<rows, lost>>
  <2>1. SavedInv' /\ CancelledInv'
    BY <1>3, <1>4 DEF EndInv, SavedInv, CancelledInv
  <2>2. \A t : /\ ~InFlight(t)
               /\ Tracked(t) => Tracked(t)'
               /\ HasCancel(t) => HasCancel(t)'
               /\ Retried(t) => Retried(t)'
    BY <1>1, <1>4 DEF InFlight, Idle, Tracked, HasCancel, Retried
  <2>3. RunningInv'
    BY <1>3, <1>4, <2>2 DEF EndInv, RunningInv
  <2> QED BY <2>1, <2>3 DEF EndInv
<1>5. CASE /\ ~Unneeded(e) /\ Cardinality(Found(e)) <= 1
           /\ op'.stage \in {"write", "save", "mark"}
           /\ op'.row = e /\ op'.phase = ToDeliver(e)
           /\ op'.stage # "write" => \E c \in Found(e) : c.snap = e.snap /\ c.phase = ToDeliver(e)
           /\ op'.stage = "mark" => e.kind # "check"
           /\ UNCHANGED <<rows, lost>>
  <2>1. \A c, d \in Found(e) : c = d
    BY <1>1, <1>5, FoundIsShown, OneAtMost
  <2>2. SavedInv'
    BY <1>1, <1>2, <1>5, <2>1 DEF SavedInv
  <2>3. e.kind = "cancel" => Completed(op'.phase)
    BY <1>2, <1>5 DEF Unneeded, Cancelled
  <2>4. e.kind = "cancel" /\ op'.stage = "mark" => ~Running(e.snap)
    BY <1>2, <1>5, <2>1, <2>3 DEF Running
  <2>5. CancelledInv'
    BY <1>3, <1>5, <2>3, <2>4 DEF EndInv, CancelledInv
  <2>6. \A t : /\ ~InFlight(t)
               /\ Tracked(t) => Tracked(t)'
               /\ HasCancel(t) => HasCancel(t)'
               /\ Retried(t) => Retried(t)'
    BY <1>1, <1>5 DEF InFlight, Idle, Tracked, HasCancel, Retried
  <2>7. RunningInv'
    BY <1>3, <1>5, <2>6 DEF EndInv, RunningInv
  <2> QED BY <2>2, <2>5, <2>7 DEF EndInv
<1>6. CASE /\ Unneeded(e) /\ Settled(e) /\ ~rows'[e].open /\ op' = op
           /\ lost' = [lost EXCEPT ![e.snap] =
                         IF e.kind = "check" /\ @ = "unanswered" /\ ~Superseded(e)
                         THEN "skipped" ELSE @]
  <2>1. SavedInv'
    BY <1>1, <1>6 DEF SavedInv, Idle
  <2>2. e.kind = "cancel" => ~Running(e.snap)
    BY <1>2, <1>6 DEF Unneeded, Cancelled, Running
  <2>3. CancelledInv'
    <3>1. \A f \in DOMAIN rows' : f.kind = "cancel" /\ rows'[f].status = "sent" /\ ~rows'[f].failed
                                  => ~Running(f.snap)
      BY <1>6, <2>2 DEF Settled, EndInv, CancelledInv
    <3> QED BY <1>1, <1>3, <1>6, <3>1 DEF CancelledInv, Idle
  <2>4. \A t : /\ ~InFlight(t)
               /\ Tracked(t) => Tracked(t)'
               /\ HasCancel(t) => HasCancel(t)'
    BY <1>1, <1>6 DEF InFlight, Idle, Tracked, HasCancel, Settled
  <2>5. lost \in [Snapshots -> {"no", "unanswered", "skipped"}]
    BY DEF TypeInv, TypeOK
  <2>6. ASSUME NEW t \in Snapshots
        PROVE  lost'[t] = IF t = e.snap /\ e.kind = "check" /\ lost[t] = "unanswered" /\ ~Superseded(e)
                          THEN "skipped" ELSE lost[t]
    BY <1>2, <1>6, <2>5
  <2>7. ASSUME NEW t \in Snapshots, Retried(t), lost[t] = "unanswered"
        PROVE  HasCancel(t)' \/ lost'[t] = "skipped" \/ (lost'[t] = "unanswered" /\ Retried(t)')
    <3>1. CASE e.kind = "check" /\ e.snap = t
      <4>1. CASE ~Superseded(e)
        BY <2>6, <2>7, <3>1, <4>1
      <4>2. CASE Superseded(e)
        <5>1. Announced(current) /\ t # current
          BY <3>1, <4>2 DEF Superseded, Announced, PendingInv, OnwardInv, VisitedInv
        <5>2. Left(t)
          BY <1>1, <3>1 DEF Left, NeedsReconciliation
        <5> QED BY <2>4, <5>1, <5>2 DEF CancelsQueued
      <4> QED BY <4>1, <4>2
    <3>2. CASE ~(e.kind = "check" /\ e.snap = t)
      <4>1. Retried(t)'
        BY <1>1, <1>6, <2>7, <3>2 DEF Retried, Settled
      <4> QED BY <2>6, <2>7, <3>2, <4>1
    <3> QED BY <3>1, <3>2
  <2>8. \A t \in Snapshots : lost[t] = "skipped" => lost'[t] = "skipped"
    BY <2>6
  <2>9. RunningInv'
    BY <1>3, <2>4, <2>7, <2>8 DEF EndInv, RunningInv
  <2> QED BY <2>1, <2>3, <2>9 DEF EndInv
<1> QED BY <1>1, <1>4, <1>5, <1>6

LEMMA WriteEnds ==
    ASSUME TypeInv, PendingInv, CountInv, OnwardInv, channel = "check", late = 0, EndInv,
           Write \/ WriteFails, flying' = {}
    PROVE  EndInv'
<1>1. /\ op.stage = "write" /\ op.row \in DOMAIN rows /\ op.row \in Row
      /\ rows[op.row].status = "pending"
      /\ UNCHANGED <<channel, current, rows, active>>
      /\ op'.row = op.row /\ op'.phase = op.phase
      /\ Write => op'.stage = IF op.row.kind = "check" THEN "save" ELSE "mark"
      /\ WriteFails => op'.stage = "failed"
  BY WriteComes DEF github
<1>2. op.row.kind \in {"check", "cancel"} /\ (op.row.kind # "cancel" <=> op.row.snap = current)
  BY <1>1 DEF PendingInv
<1>3. \A t : /\ ~InFlight(t)
             /\ Tracked(t) => Tracked(t)'
             /\ HasCancel(t) => HasCancel(t)'
             /\ Retried(t) => Retried(t)'
  BY <1>1 DEF InFlight, Tracked, HasCancel, Retried
<1>4. CASE WriteFails /\ UNCHANGED <<cards, checks, lost>>
  <2>1. \A t : Running(t)' <=> Running(t)
    BY <1>4 DEF Running
  <2>2. SavedInv' /\ CancelledInv'
    BY <1>1, <1>4, <2>1 DEF EndInv, SavedInv, CancelledInv
  <2>3. RunningInv'
    BY <1>3, <1>4, <2>1 DEF EndInv, RunningInv
  <2> QED BY <2>2, <2>3 DEF EndInv
<1>5. CASE ~(WriteFails /\ UNCHANGED <<cards, checks, lost>>)
  <2>1. PICK k, id, s, phase : k = Target(op.row) /\ id = op.id /\ s = op.row.snap /\ phase = op.phase
    OBVIOUS
  <2>2. /\ Apply(k, id, s, phase) /\ Aimed(k, id, s) /\ k = "check" /\ id \in Nat
        /\ Cardinality(Things(k, s)) <= 1 /\ (id = 0 => Things(k, s) = {})
        /\ s \in Snapshots /\ phase \in Phase
        /\ lost' = IF Write THEN lost ELSE Unanswered(op.row)
    BY <1>2, <1>5, <2>1, WriteComes DEF Target
  <2>3. /\ \A c \in Things("check", s)' : c.snap = s /\ c.phase = phase
        /\ \A t : t # s => Things("check", t)' = Things("check", t)
    BY <2>2, ApplyShows
  <2>4. \A c \in checks' : c.snap = s => c.phase = phase
    BY <2>3 DEF Things
  <2>5. ASSUME NEW t, t # s PROVE Running(t)' <=> Running(t)
    <3>1. {c \in checks' : c.snap = t} = {c \in checks : c.snap = t}
      BY <2>3, <2>5 DEF Things
    <3> QED BY <3>1 DEF Running
  <2>6. Completed(phase) => ~Running(s)'
    BY <2>4 DEF Running, Completed
  <2>7. op.row.kind = "cancel" => ~Running(s)'
    BY <1>1, <2>1, <2>6 DEF EndInv, CancelledInv
  <2>8. SavedInv'
    BY <1>1, <1>5, <2>1, <2>4 DEF SavedInv
  <2>9. CancelledInv'
    <3>1. ASSUME NEW f \in DOMAIN rows, f.kind = "cancel", rows[f].status = "sent", ~rows[f].failed
          PROVE  ~Running(f.snap)'
      <4>1. f.snap # current
        BY <3>1 DEF OnwardInv, VisitedInv
      <4>2. PICK t : t = f.snap
        OBVIOUS
      <4>3. ~Running(t)
        BY <3>1, <4>2 DEF EndInv, CancelledInv
      <4>4. ~Running(t)'
        BY <1>2, <2>1, <2>5, <2>7, <4>1, <4>2, <4>3
      <4> QED BY <4>2, <4>4
    <3>2. op'.stage = "mark" /\ op'.row.kind = "cancel" => ~Running(op.row.snap)'
      <4>1. ASSUME op.row.kind = "cancel" PROVE ~Running(op.row.snap)'
        <5>1. op'.row.snap = s /\ ~Running(s)'
          BY <1>1, <2>1, <2>7, <4>1
        <5> QED BY <5>1
      <4> QED BY <1>1, <4>1
    <3> QED BY <1>1, <1>5, <3>1, <3>2 DEF CancelledInv
  <2>10. RunningInv'
    <3>1. lost \in [Snapshots -> {"no", "unanswered", "skipped"}]
      BY DEF TypeInv, TypeOK
    <3>2. ASSUME NEW t \in Snapshots, t # s PROVE lost'[t] = lost[t]
      BY <2>1, <2>2, <3>1, <3>2 DEF Unanswered
    <3>3. CASE op.row.kind = "cancel"
      <4>1. HasCancel(s)'
        BY <1>1, <2>1, <3>3 DEF HasCancel
      <4> QED BY <1>3, <2>5, <3>2, <4>1 DEF EndInv, RunningInv
    <3>4. CASE op.row.kind = "check" /\ Write
      <4>1. InFlight(s)'
        BY <1>1, <2>1, <3>4 DEF InFlight
      <4> QED BY <1>3, <2>5, <3>2, <4>1 DEF EndInv, RunningInv
    <3>5. CASE op.row.kind = "check" /\ ~Write
      <4>1. lost'[s] = "unanswered"
        BY <2>1, <2>2, <3>1, <3>5 DEF Unanswered
      <4>2. Retried(s)'
        BY <1>1, <2>1, <3>5 DEF Retried
      <4> QED BY <1>3, <2>5, <3>2, <4>1, <4>2 DEF EndInv, RunningInv
    <3> QED BY <1>2, <3>3, <3>4, <3>5
  <2> QED BY <2>8, <2>9, <2>10 DEF EndInv
<1> QED BY <1>4, <1>5

LEMMA SaveEnds ==
    ASSUME TypeInv, PendingInv, OnwardInv, channel = "check", CancelsQueued, EndInv, SaveCheck
    PROVE  EndInv'
<1>1. /\ op \in [stage : {"write", "save", "mark", "failed", "unrestored"}, row : Row, phase : Phase, id : Nat]
      /\ op.stage = "save" /\ op.row \in DOMAIN rows /\ op.row.kind = "check" /\ op.row.snap = current
      /\ op.row.snap \in Snapshots
  BY OpTyped DEF SaveCheck, TypeInv, PendingInv, Row
<1>2. /\ op'.row = op.row /\ op'.phase = op.phase /\ op'.stage = "mark"
      /\ UNCHANGED <<checks, rows, current>>
      /\ active' = [snap |-> op.row.snap, phase |-> op.phase]
      /\ lost' = [lost EXCEPT ![op.row.snap] = "no"]
  BY <1>1 DEF SaveCheck
<1>3. \A t : Running(t)' <=> Running(t)
  BY <1>2 DEF Running
<1>4. SavedInv'
  BY <1>1, <1>2 DEF EndInv, SavedInv
<1>5. CancelledInv'
  BY <1>1, <1>2, <1>3 DEF EndInv, CancelledInv
<1>6. ASSUME NEW t \in Snapshots, t # current, Tracked(t) PROVE Tracked(t)' \/ HasCancel(t)'
  <2>1. CASE active # None /\ active.snap = t /\ ~Completed(active.phase)
    <3>1. Announced(current) /\ Left(t)
      BY <1>1, <2>1 DEF Announced, Left
    <3>2. HasCancel(t)
      BY <1>6, <3>1 DEF CancelsQueued
    <3> QED BY <1>2, <3>2 DEF HasCancel
  <2>2. CASE \E e \in DOMAIN rows : e.kind = "check" /\ e.snap = t /\ rows[e].open
    BY <1>2, <2>2 DEF Tracked
  <2> QED BY <1>6, <2>1, <2>2 DEF Tracked
<1>7. RunningInv'
  <2>1. InFlight(current)'
    BY <1>1, <1>2 DEF InFlight
  <2>2. \A t : t # current => /\ ~InFlight(t)
                              /\ HasCancel(t) => HasCancel(t)'
                              /\ Retried(t) => Retried(t)'
    BY <1>1, <1>2 DEF InFlight, HasCancel, Retried
  <2>3. \A t \in Snapshots : t # current => lost'[t] = lost[t]
    BY <1>1, <1>2 DEF TypeInv, TypeOK
  <2>4. ASSUME NEW t \in Snapshots, Running(t)'
        PROVE  \/ InFlight(t)' \/ Tracked(t)' \/ HasCancel(t)'
               \/ lost'[t] = "skipped"
               \/ lost'[t] = "unanswered" /\ Retried(t)'
    <3>1. CASE t = current
      BY <1>1, <1>2, <3>1 DEF InFlight
    <3>2. CASE t # current
      BY <1>3, <1>6, <2>2, <2>3, <2>4, <3>2 DEF EndInv, RunningInv
    <3> QED BY <3>1, <3>2
  <2> QED BY <2>4 DEF RunningInv
<1> QED BY <1>4, <1>5, <1>7 DEF EndInv

LEMMA MarkEnds ==
    ASSUME TypeInv, PendingInv, EndInv, MarkSent \/ MarkFailed
    PROVE  EndInv'
<1>1. /\ op.row \in DOMAIN rows /\ rows[op.row].status = "pending" /\ ~rows[op.row].open
      /\ op' = Idle /\ UNCHANGED <<checks, lost, active>>
      /\ DOMAIN rows' = DOMAIN rows
      /\ \A f \in DOMAIN rows \ {op.row} : rows'[f] = rows[f]
      /\ MarkSent => /\ op.stage = "mark" /\ ~rows'[op.row].failed
                     /\ rows'[op.row].open = (op.row.kind = "check" /\ ~Completed(op.phase))
      /\ MarkFailed => op.stage \in {"failed", "unrestored"} /\ rows'[op.row].failed /\ ~rows'[op.row].open
  BY MarkComes DEF Settled, remote
<1>2. \A t : Running(t)' <=> Running(t)
  BY <1>1 DEF Running
<1>3. SavedInv'
  BY <1>1 DEF SavedInv, Idle
<1>4. CancelledInv'
  <2>1. \A f \in DOMAIN rows' : f.kind = "cancel" /\ rows'[f].status = "sent" /\ ~rows'[f].failed
                                => ~Running(f.snap)
    BY <1>1 DEF EndInv, CancelledInv
  <2> QED BY <1>1, <1>2, <2>1 DEF CancelledInv, Idle
<1>5. \A t : /\ Tracked(t) => Tracked(t)'
             /\ HasCancel(t) => HasCancel(t)'
  BY <1>1 DEF Tracked, HasCancel
<1>6. ASSUME NEW t, Running(t), InFlight(t) PROVE Tracked(t)'
  <2>1. op.stage = "mark" /\ op.row.kind = "check" /\ op.row.snap = t /\ MarkSent
    BY <1>1, <1>6 DEF InFlight
  <2>2. ~Completed(op.phase)
    BY <1>6, <2>1 DEF EndInv, SavedInv, Running
  <2> QED BY <1>1, <2>1, <2>2 DEF Tracked
<1>7. ASSUME NEW t, Retried(t) PROVE Retried(t)' \/ (op.stage = "mark" /\ op.row.kind = "check" /\ op.row.snap = t)
  BY <1>1, <1>7 DEF Retried
<1>8. RunningInv'
  BY <1>1, <1>2, <1>5, <1>6, <1>7 DEF EndInv, RunningInv, InFlight
<1> QED BY <1>3, <1>4, <1>8 DEF EndInv

LEMMA EndNext ==
    ASSUME TypeInv, AnsweredInv, PendingInv, CancelInv, CountInv, OnwardInv, Steady,
           channel = "check", CancelsQueued, EndInv, [Next]_vars, Steady'
    PROVE  EndInv'
<1>1. CASE \/ UNCHANGED vars
           \/ \E s \in Snapshots : Edit(s)
           \/ Close \/ Reopen
           \/ \E regenerate \in BOOLEAN : Sync(regenerate)
           \/ Generate \/ GenerateFails \/ SyncClosed \/ SaveReceipt
  BY <1>1, QuietEnds
<1>2. CASE Announce \/ Project \/ ProjectClosed \/ Crash \/ Verify
  BY <1>2, QueueEnds
<1>3. ASSUME NEW e \in due, Deliver(e) PROVE EndInv'
  BY <1>3, DeliverEnds
<1>4. CASE Write \/ WriteFails
  BY <1>4, WriteEnds DEF Steady
<1>5. CASE SaveCheck
  BY <1>5, SaveEnds
<1>6. CASE MarkSent \/ MarkFailed
  BY <1>6, MarkEnds
<1>7. CASE Flush \/ \E e \in due : DeliverFails(e)
  <2>1. /\ UNCHANGED <<checks, lost, rows, active>> /\ op = Idle
        /\ op'.stage \notin {"write", "save", "mark"}
    BY <1>7 DEF Flush, DeliverFails, Ready, Idle, remote
  <2>2. \A t : /\ Running(t)' <=> Running(t)
               /\ ~InFlight(t)
               /\ Tracked(t) => Tracked(t)'
               /\ HasCancel(t) => HasCancel(t)'
               /\ Retried(t) => Retried(t)'
    BY <2>1 DEF Running, InFlight, Idle, Tracked, HasCancel, Retried
  <2>3. SavedInv' /\ CancelledInv'
    BY <2>1, <2>2 DEF EndInv, SavedInv, CancelledInv
  <2>4. RunningInv'
    BY <2>1, <2>2 DEF EndInv, RunningInv
  <2> QED BY <2>3, <2>4 DEF EndInv
<1>8. ~\E w \in flying : Land(w)
  BY SteadyBefore
<1> QED BY <1>1, <1>2, <1>3, <1>4, <1>5, <1>6, <1>7, <1>8 DEF Next

-------------------------------------------------------------------------------
\* What holds of the two sides together, and what follows at rest.
SettleInv ==
    /\ PendingInv
    /\ ~returned => OnwardInv
    /\ ~returned /\ channel = "check" => CancelsQueued
    /\ Steady /\ channel = "check" => EndInv
    /\ Steady /\ current = pull.snap => ShowInv

LEMMA ChannelStays ==
    ASSUME TypeInv, PendingInv, [Next]_vars
    PROVE  channel' = channel
<1>1. CASE \/ UNCHANGED vars
           \/ \E s \in Snapshots : Edit(s)
           \/ Close \/ Reopen
           \/ \E regenerate \in BOOLEAN : Sync(regenerate)
           \/ Generate \/ GenerateFails \/ SyncClosed \/ SaveReceipt
  BY <1>1, QuietSteps
<1>2. CASE Announce \/ Project \/ ProjectClosed \/ Crash \/ Verify
  BY <1>2 DEF Announce, Project, ProjectClosed, Crash, Verify, github
<1>3. CASE \/ Flush
           \/ \E e \in due : Deliver(e) \/ DeliverFails(e)
           \/ Write \/ WriteFails \/ SaveCheck \/ MarkSent \/ MarkFailed
           \/ \E w \in flying : Land(w)
  BY <1>3, DeliverySteps DEF github
<1> QED BY <1>1, <1>2, <1>3 DEF Next

LEMMA SettleInit == Init => SettleInv
<1> SUFFICES ASSUME Init PROVE SettleInv
  OBVIOUS
<1>1. /\ DOMAIN rows = {} /\ op = Idle /\ due = {} /\ current = None /\ active = None
      /\ pull.snap \in Snapshots /\ pull.state = "open" /\ visited = {pull.snap}
      /\ closings = 0 /\ stored = [s \in Snapshots |-> "none"] /\ checks = {}
  BY DEF Init
<1>2. current # pull.snap
  BY <1>1, PresentationAssumption
<1>3. PendingInv
  BY <1>1 DEF PendingInv, Idle
<1>4. VisitedInv /\ ClosingInv
  BY <1>1 DEF VisitedInv, ClosingInv, Idle
<1>5. PhaseInv
  BY <1>1, PresentationAssumption DEF PhaseInv, Idle
<1>6. CancelsQueued
  BY <1>1 DEF CancelsQueued, Announced
<1>7. EndInv
  BY <1>1 DEF EndInv, SavedInv, CancelledInv, RunningInv, Running, Idle
<1> QED BY <1>2, <1>3, <1>4, <1>5, <1>6, <1>7 DEF SettleInv, OnwardInv

LEMMA SettleNext ==
    TypeInv /\ AnsweredInv /\ CancelInv /\ CountInv /\ SettleInv /\ [Next]_vars => SettleInv'
<1> SUFFICES ASSUME TypeInv, AnsweredInv, CancelInv, CountInv, SettleInv, [Next]_vars
             PROVE  SettleInv'
  OBVIOUS
<1>1. PendingInv /\ PendingInv' /\ channel' = channel
  BY PendingNext, ChannelStays DEF SettleInv
<1>2. (~returned => OnwardInv)'
  BY <1>1, OnwardNext DEF SettleInv
<1>3. ASSUME ~returned' PROVE ~returned /\ OnwardInv
  BY <1>3, ReturnedStays DEF SettleInv
<1>4. ASSUME ~returned', channel' = "check" PROVE CancelsQueued'
  BY <1>1, <1>3, <1>4, CancelsNext DEF SettleInv
<1>5. ASSUME Steady' PROVE Steady /\ ~returned'
  BY <1>5, SteadyBefore DEF Steady
<1>6. ASSUME Steady', channel' = "check" PROVE EndInv'
  <2>1. Steady /\ OnwardInv /\ channel = "check" /\ CancelsQueued /\ EndInv
    BY <1>1, <1>3, <1>5, <1>6 DEF SettleInv, Steady
  <2> QED BY <1>1, <1>6, <2>1, EndNext
<1>7. ASSUME Steady', current' = pull'.snap PROVE ShowInv'
  <2>1. Steady /\ OnwardInv /\ (current = pull.snap => ShowInv)
    BY <1>3, <1>5, <1>7 DEF SettleInv
  <2> QED BY <1>1, <1>7, <2>1, ShowNext
<1> QED BY <1>1, <1>2, <1>4, <1>6, <1>7 DEF SettleInv

LEMMA RestShows ==
    ASSUME TypeInv, SettleInv, AtRest, ~returned
    PROVE  CardSettles /\ ChecksSettle
<1>1. /\ Steady /\ current = pull.snap /\ current \in Snapshots /\ op = Idle
      /\ Projection(current, Wanted) \subseteq DOMAIN rows
      /\ \A e \in DOMAIN rows : rows[e].status = "sent" /\ ~rows[e].failed
      /\ channel \in {"card", "check"}
  BY PresentationAssumption DEF AtRest, Steady, TypeInv, TypeOK
<1>2. PICK e \in Projection(current, Wanted) : e.kind = channel /\ e.snap = current /\ e.phase = Wanted
  <2>1. PICK e \in Projection(current, Wanted) : e.kind = channel /\ e.snap = current
    BY <1>1, ProjectionRows
  <2> QED BY <1>1, <2>1, ProjectionRows
<1>3. Shows
  BY <1>1, <1>2 DEF SettleInv, ShowInv
<1>4. CardSettles
  <2> SUFFICES ASSUME channel = "card"
               PROVE  IF cards = {} THEN Wanted \in {"neutral", "closed"}
                      ELSE {<<c.snap, c.phase>> : c \in cards} = {<<current, Wanted>>}
    BY DEF CardSettles
  <2>1. \A c \in cards : c.snap = current /\ c.phase = Wanted
    BY <1>3 DEF Shows, Things
  <2>2. cards = {} => Wanted \in {"neutral", "closed"}
    BY <1>3 DEF Shows, Things
  <2> QED BY <2>1, <2>2
<1>5. ChecksSettle
  <2> SUFFICES ASSUME channel = "check"
               PROVE  /\ {c.phase : c \in {d \in checks : d.snap = current}} = {Wanted}
                      /\ \A c \in checks : lost[c.snap] # "skipped" => Ends(c)
    BY DEF ChecksSettle
  <2>1. {c.phase : c \in {d \in checks : d.snap = current}} = {Wanted}
    BY <1>3 DEF Shows, Things
  <2>2. EndInv
    BY <1>1 DEF SettleInv
  <2>3. ASSUME NEW t, HasCancel(t) PROVE ~Running(t)
    BY <1>1, <2>2, <2>3 DEF EndInv, CancelledInv, HasCancel
  <2>4. ASSUME NEW t \in Snapshots \ {current}, Tracked(t) PROVE HasCancel(t)
    <3>1. Left(t)
      BY <2>4 DEF Tracked, Left, NeedsReconciliation
    <3>2. \E f \in Projection(current, Wanted) : f.kind = "cancel" /\ f.snap = t
      BY <1>1, <3>1, ProjectionRows
    <3> QED BY <1>1, <3>2 DEF HasCancel
  <2>5. ASSUME NEW c \in checks, lost[c.snap] # "skipped", c.snap # current PROVE Completed(c.phase)
    <3>1. c.snap \in Snapshots
      BY DEF TypeInv, TypeOK, Shown
    <3>2. ~InFlight(c.snap) /\ ~Retried(c.snap)
      BY <1>1 DEF InFlight, Idle, Retried
    <3>3. ~Running(c.snap)
      BY <2>2, <2>3, <2>4, <2>5, <3>1, <3>2 DEF EndInv, RunningInv
    <3> QED BY <3>3 DEF Running
  <2> QED BY <2>1, <2>5 DEF Ends
<1> QED BY <1>4, <1>5

\* At rest, the card or the check run of the current snapshot shows what the service
\* knows of it, and the check runs of earlier snapshots have ended but for those whose
\* unanswered creation was skipped.
THEOREM RestSettles == Spec => []Settles
<1>1. Init => AnsweredInv /\ CancelInv /\ CountInv
  BY FS_EmptySet DEF Init, AnsweredInv, CancelInv, CountInv, Things, Idle
<1>2. TypeInv /\ SettleInv => Settles
  <2>1. TypeInv /\ SettleInv /\ AtRest /\ ~returned => CardSettles /\ ChecksSettle
    BY RestShows
  <2>2. ~(AtRest /\ ~returned) => CardSettles /\ ChecksSettle
    BY DEF CardSettles, ChecksSettle
  <2> QED BY <2>1, <2>2 DEF Settles
<1> QED BY <1>1, <1>2, SettleInit, SettleNext, AnsweredNext, CancelNext, CountNext, TypeCorrectly, PTL DEF Spec
===============================================================================
