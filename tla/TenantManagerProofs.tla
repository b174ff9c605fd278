-------------------------- MODULE TenantManagerProofs --------------------------
(***************************************************************************)
(* What TLAPS proves of TenantManager.                                     *)
(***************************************************************************)
EXTENDS TenantManager, TLAPS

USE RegistryAssumption, ManagerAssumption DEF RegistryAssumption, ManagerAssumption

\* A container whose store is open, for repository r.
OpenFor(c, r) == c # 0 /\ conts[c] # Down /\ conts[c].context.repo = r

\* What a thread holds: the container of its operation, and the one a request
\* reads its peers from, are open; a container it was only given may be gone.
SoundIn(thread, slots) ==
    /\ thread.pc = "idle" => thread = Idle
    /\ thread.pc # "idle" => thread.context \in RepositoryContext
    /\ thread.outer # 0 => slots[thread.outer] # Down
    /\ thread.pc \in InOperation =>
           thread.cont # 0 /\ slots[thread.cont] # Down /\ slots[thread.cont].context = thread.context
    /\ thread.pc \in {"told", "enter"} =>
           thread.cont # 0 /\ slots[thread.cont].context \in {thread.context, None}
Sound(thread) == SoundIn(thread, conts)
ThreadInv == \A t \in Threads : Sound(th[t])

\* One thread at a time creates the container of a repository.
CreatorInv ==
    /\ \A t \in Threads : th[t].pc \in InCreation => creating[Repo(t)] = t
    /\ \A r \in Repos : creating[r] # None =>
           Repo(creating[r]) = r /\ th[creating[r]].pc \in InCreation

\* A container that is not published yet is in nobody else's hands.
Unseen(t) ==
    LET c == th[t].cont
    IN /\ c # 0 /\ conts[c] # Down /\ conts[c].context = th[t].context
       /\ \A x \in Threads : th[x].outer # c /\ (x # t => th[x].cont # c)

\* Where the containers of a repository are while one is created.
Stage(t) ==
    LET r == Repo(t)
    IN /\ th[t].pc \in InCreation \ {"replace"} => serving[r] = 0
       /\ th[t].pc \in {"drain", "draining", "discard"} => th[t].cont # 0 /\ retiring[r] = th[t].cont
       /\ th[t].pc \in {"check", "build", "confirm", "publish"} => retiring[r] = 0
       /\ th[t].pc \in {"confirm", "publish", "discard"} => Unseen(t)
StageInv == \A t \in Threads : Stage(t)

\* The shutdown has taken the containers out of the dictionaries.
Collected == stop.pc \notin {"no", "waiting"}

\* A repository has one container that serves or one that retires.
Entry(r) ==
    /\ serving[r] = 0 \/ retiring[r] = 0
    /\ serving[r] # 0 => OpenFor(serving[r], r)
    /\ retiring[r] # 0 /\ ~Collected => OpenFor(retiring[r], r)
DictionaryInv == \A r \in Repos : Entry(r)

\* Every open container is in a dictionary or in its creator's hands, or is
\* left for the shutdown.
Known(c) ==
    LET r == conts[c].context.repo
    IN \/ serving[r] = c
       \/ retiring[r] = c
       \/ creating[r] # None /\ th[creating[r]].cont = c
          /\ th[creating[r]].pc \in {"confirm", "publish"}
OpenInv == \A c \in Slots : conts[c] # Down => IF Collected THEN c \in stop.left ELSE Known(c)

\* After that nobody creates, and what is left is open.
StopInv ==
    /\ Collected => \A r \in Repos : serving[r] = 0 /\ creating[r] = None
    /\ Collected => \A c \in stop.left : conts[c] # Down
    /\ stop.pc = "draining" => stop.cont \in stop.left
    /\ stop.pc = "released" => stop.left = {}

IInv == /\ TypeOK
        /\ ThreadInv
        /\ CreatorInv
        /\ StageInv
        /\ DictionaryInv
        /\ OpenInv
        /\ StopInv
        /\ OneStore

-------------------------------------------------------------------------------
\* Calls of the registry keep its types and find contexts.
LEMMA Activation ==
    ASSUME RegistryTypes, NEW r \in Repos, installed[r] # None, UNCHANGED installed, Activate(r)
    PROVE  RegistryTypes' /\ cache'[r] \in RepositoryContext
<1> DEFINE changed == row[r].installation # installed[r] \/ ~row[r].active
           record == IF row[r] = None
                     THEN [generation |-> 1, installation |-> installed[r], active |-> TRUE]
                     ELSE [generation |-> row[r].generation + (IF changed THEN 1 ELSE 0),
                           installation |-> installed[r], active |-> TRUE]
<1>1. record \in Row
  BY DEF RegistryTypes, Row
<1>2. Context(r, record) \in RepositoryContext
  BY <1>1 DEF Context, RepositoryContext, Row
<1>3. row' = [row EXCEPT ![r] = record] /\ cache' = [cache EXCEPT ![r] = Context(r, record)]
      /\ denied' = denied \ {r}
  BY DEF Activate
<1> HIDE DEF record
<1> QED
  BY <1>1, <1>2, <1>3 DEF RegistryTypes

LEMMA Retirement ==
    ASSUME RegistryTypes, NEW r \in Repos, UNCHANGED installed, Retire(r)
    PROVE  RegistryTypes'
<1>1. ASSUME NEW record \in Row
      PROVE  [record EXCEPT !.active = FALSE, !.generation = @ + 1] \in Row
  <2>1. record.generation + 1 \in Nat \ {0}
    BY DEF Row
  <2> DEFINE one == [record EXCEPT !.active = FALSE]
  <2>2. one \in Row /\ one.generation = record.generation
    BY DEF Row
  <2>3. [one EXCEPT !.generation = record.generation + 1] \in Row
    BY <2>1, <2>2 DEF Row
  <2> QED
    BY <2>2, <2>3
<1>2. Stored(r) # None => row[r] \in Row
  BY DEF RegistryTypes, Stored
<1>3. row' \in [Repos -> Row \cup {None}]
  BY <1>1, <1>2 DEF RegistryTypes, Retire
<1> QED
  BY <1>3 DEF RegistryTypes, Retire

LEMMA NoChangeTypes ==
    ASSUME RegistryTypes, UNCHANGED installed, NoChange
    PROVE  RegistryTypes' /\ cache' = cache
BY DEF RegistryTypes, NoChange, registry

LEMMA FreshTypes ==
    ASSUME RegistryTypes, NEW r \in Repos, Fresh(r)
    PROVE  cache[r] \in RepositoryContext
BY DEF RegistryTypes, Fresh

LEMMA ResolveTypes ==
    ASSUME RegistryTypes, NEW r \in Repos, NEW found, UNCHANGED installed, Resolve(r, found)
    PROVE  RegistryTypes' /\ (found => cache'[r] \in RepositoryContext)
<1>1. CASE NoChange /\ ~found
  BY <1>1, NoChangeTypes
<1>2. CASE NoChange /\ Fresh(r)
  BY <1>2, NoChangeTypes, FreshTypes
<1>3. CASE Activate(r) /\ installed[r] # None
  BY <1>3, Activation
<1>4. CASE Retire(r) /\ ~found
  BY <1>4, Retirement
<1> QED
  BY <1>1, <1>2, <1>3, <1>4 DEF Resolve, Confirmed

LEMMA RegisterTypes ==
    ASSUME RegistryTypes, NEW r \in Repos, NEW name, NEW found, UNCHANGED installed,
           Register(r, name, found)
    PROVE  RegistryTypes' /\ (found => cache'[r] \in RepositoryContext)
<1>1. CASE NoChange /\ ~found
  BY <1>1, NoChangeTypes
<1>2. CASE NoChange /\ Fresh(r)
  BY <1>2, NoChangeTypes, FreshTypes
<1>3. CASE Activate(r) /\ installed[r] # None
  BY <1>3, Activation
<1>4. CASE Retire(r) /\ ~found
  BY <1>4, Retirement
<1> QED
  BY <1>1, <1>2, <1>3, <1>4 DEF Register, Confirmed

LEMMA RequireTypes ==
    ASSUME RegistryTypes, NEW context \in RepositoryContext, NEW ok, UNCHANGED installed,
           RequireCurrent(context, ok)
    PROVE  RegistryTypes'
<1>1. context.repo \in Repos
  BY DEF RepositoryContext
<1>2. CASE NoChange
  BY <1>2, NoChangeTypes
<1>3. CASE \E found \in BOOLEAN : Resolve(context.repo, found)
  BY <1>1, <1>3, ResolveTypes
<1> QED
  BY <1>2, <1>3 DEF RequireCurrent

-------------------------------------------------------------------------------
\* What is known of an open container.
LEMMA OpenContainer ==
    ASSUME TypeOK, NEW c \in Slot, c # 0, conts[c] # Down
    PROVE  /\ c \in Slots
           /\ conts[c] \in Container
           /\ conts[c].context \in RepositoryContext
           /\ conts[c].context # None
           /\ conts[c].context.repo \in Repos
<1>1. c \in Slots
  BY DEF Slot
<1>2. conts[c] \in Container
  BY <1>1 DEF TypeOK
<1>3. conts[c].context \in RepositoryContext
  BY <1>2 DEF Container
<1>4. conts[c].context.repo \in Repos
  BY <1>3 DEF RepositoryContext
<1> QED
  BY <1>1, <1>2, <1>3, <1>4

-------------------------------------------------------------------------------
\* A thread that is through goes back to the operation it came from.
LEMMA ThroughFacts ==
    ASSUME TypeOK, ThreadInv, NEW t \in Threads
    PROVE  /\ Through(th[t]) \in Thread
           /\ Sound(Through(th[t]))
           /\ Through(th[t]).pc \in {"idle", "working"}
           /\ Through(th[t]).outer = 0
           /\ Through(th[t]).cont = th[t].outer
<1>1. th[t] \in Thread /\ Sound(th[t])
  BY DEF TypeOK, ThreadInv
<1>2. CASE th[t].outer = 0
  <2>1. Through(th[t]) = Idle
    BY <1>2 DEF Through
  <2> QED
    BY <1>2, <2>1 DEF Idle, Thread, Slot, Sound, SoundIn, InOperation
<1>3. CASE th[t].outer # 0
  <2> DEFINE new == [pc |-> "working", kind |-> th[t].kind, context |-> conts[th[t].outer].context,
                     cont |-> th[t].outer, outer |-> 0, read |-> th[t].read]
  <2>1. Through(th[t]) = new
    BY <1>1, <1>3 DEF Through, Thread
  <2>2. th[t].outer \in Slots /\ conts[th[t].outer] # Down
    BY <1>1, <1>3 DEF Thread, Slot, Sound, SoundIn
  <2>3. conts[th[t].outer].context \in RepositoryContext
    BY <2>2 DEF TypeOK, Container
  <2>4. new \in Thread
    BY <1>1, <2>3 DEF Thread, Slot, InOperation
  <2>5. Sound(new)
    BY <1>3, <2>2, <2>3 DEF Sound, SoundIn, InOperation
  <2> HIDE DEF new
  <2> QED
    BY <2>1, <2>4, <2>5 DEF new
<1> QED
  BY <1>2, <1>3

\* A step of one thread that is not creating disturbs only what it holds itself.
LEMMA ThreadStep ==
    ASSUME IInv, TypeOK', NEW t \in Threads,
           th' = [th EXCEPT ![t] = th'[t]],
           UNCHANGED <<conts, manager, stop>>,
           th[t].pc \notin InCreation, th'[t].pc \notin InCreation,
           Sound(th'[t]),
           th'[t].outer \in {0, th[t].outer, th[t].cont},
           th'[t].cont \in {0, th[t].cont, th[t].outer} \cup {serving[r] : r \in Repos}
    PROVE  IInv'
<1>1. \A x \in Threads : x # t => th'[x] = th[x]
  BY DEF TypeOK
<1>2. UNCHANGED <<conts, serving, retiring, creating, stop>>
  BY DEF manager
<1>3. ThreadInv'
  BY <1>1, <1>2 DEF IInv, ThreadInv, Sound, SoundIn
<1>4. CreatorInv'
  BY <1>1, <1>2 DEF IInv, CreatorInv, Repo, TypeOK
<1>5. ASSUME NEW x \in Threads, x # t, th[x].pc \in InCreation PROVE th'[x] = th[x] /\ Repo(x)' = Repo(x)
  BY <1>1, <1>5 DEF Repo
<1>6. ASSUME NEW x \in Threads, x # t, th[x].pc \in {"confirm", "publish", "discard"} PROVE Unseen(x)'
  <2> DEFINE c == th[x].cont
  <2>1. Unseen(x) /\ serving[Repo(x)] = 0
    BY <1>6 DEF IInv, StageInv, Stage, InCreation
  <2>2. \A r \in Repos : serving[r] # c
    BY <2>1 DEF IInv, DictionaryInv, Entry, OpenFor, Unseen, Repo
  <2>3. th'[t].outer # c /\ th'[t].cont # c
    BY <1>6, <2>1, <2>2 DEF Unseen
  <2> QED
    BY <1>1, <1>2, <1>6, <2>1, <2>3 DEF Unseen
<1>7. StageInv'
  <2> SUFFICES ASSUME NEW x \in Threads, th'[x].pc \in InCreation
               PROVE  x # t /\ th'[x] = th[x] /\ Repo(x)' = Repo(x)
    BY <1>2, <1>6 DEF IInv, StageInv, Stage, InCreation
  <2> QED
    BY <1>1, <1>5
<1>8. DictionaryInv' /\ StopInv' /\ OneStore'
  BY <1>2 DEF IInv, DictionaryInv, Entry, OpenFor, Collected, StopInv, OneStore
<1>9. OpenInv'
  <2> SUFFICES ASSUME NEW c \in Slots, conts[c] # Down, ~Collected
               PROVE  Known(c)'
    BY <1>2 DEF IInv, OpenInv, Collected
  <2>1. Known(c)
    BY DEF IInv, OpenInv
  <2>2. \A x \in Threads : th[x].pc \in {"confirm", "publish"} => th'[x] = th[x]
    BY <1>1 DEF InCreation
  <2>3. \A r : creating[r] # None /\ r \in Repos => creating[r] \in Threads
    BY DEF IInv, TypeOK
  <2>4. conts[c].context.repo \in Repos
    BY DEF IInv, TypeOK, Container, RepositoryContext
  <2> QED
    BY <1>2, <2>1, <2>2, <2>3, <2>4 DEF Known
<1> QED
  BY <1>3, <1>4, <1>7, <1>8, <1>9 DEF IInv

-------------------------------------------------------------------------------
\* What the steps of a thread that is not creating have in common.
Frame ==
    /\ UNCHANGED <<conts, manager, stop>>
    /\ RegistryTypes'
    /\ posted' \in [Repos -> Nat]
    /\ events' \subseteq Repos \X Names
    /\ changes' \in Nat

LEMMA FrameTypes ==
    ASSUME TypeOK, Frame, NEW t \in Threads, NEW new \in Thread, th' = [th EXCEPT ![t] = new]
    PROVE  TypeOK' /\ th'[t] = new /\ th' = [th EXCEPT ![t] = th'[t]]
BY DEF TypeOK, Frame, manager

LEMMA Returns ==
    ASSUME IInv, Frame, NEW t \in Threads, th[t].pc \notin InCreation, Give(t)
    PROVE  IInv'
<1>1. th' = [th EXCEPT ![t] = Through(th[t])]
  BY DEF Give
<1>2. /\ Through(th[t]) \in Thread /\ Sound(Through(th[t]))
      /\ Through(th[t]).pc \in {"idle", "working"}
      /\ Through(th[t]).outer = 0 /\ Through(th[t]).cont = th[t].outer
  BY ThroughFacts DEF IInv
<1>3. TypeOK' /\ th'[t] = Through(th[t]) /\ th' = [th EXCEPT ![t] = th'[t]]
  BY <1>1, <1>2, FrameTypes DEF IInv
<1> QED
  BY <1>2, <1>3, ThreadStep DEF Frame, InCreation

LEMMA Moves ==
    ASSUME IInv, Frame, NEW t \in Threads, th[t].pc \notin InCreation \cup {"idle"},
           NEW p \in {"want", "lock", "waiting", "told", "enter"} \cup InOperation, Go(t, p),
           p \in InOperation => \/ th[t].pc \in InOperation
                                \/ th[t].pc = "enter" /\ conts[th[t].cont] # Down,
           p \in {"told", "enter"} => th[t].pc = "told"
    PROVE  IInv'
<1> DEFINE new == [th[t] EXCEPT !.pc = p]
<1>1. th[t] \in Thread /\ Sound(th[t])
  BY DEF IInv, TypeOK, ThreadInv
<1>2. new \in Thread /\ new.pc = p /\ new.cont = th[t].cont /\ new.outer = th[t].outer
      /\ new.context = th[t].context
  BY <1>1 DEF Thread
<1>3. conts[th[t].cont] # Down /\ th[t].cont # 0 => conts[th[t].cont].context # None
  BY <1>1, OpenContainer DEF IInv, Thread
<1>4. Sound(new)
  <2>1. p \notin InCreation \cup {"idle"}
    BY DEF InCreation, InOperation
  <2>2. p \in InOperation => p \notin {"told", "enter"}
    BY DEF InOperation
  <2> HIDE DEF new
  <2> QED
    BY <1>1, <1>2, <1>3, <2>1, <2>2 DEF Sound, SoundIn
<1>5. th' = [th EXCEPT ![t] = new]
  BY DEF Go
<1> HIDE DEF new
<1>6. TypeOK' /\ th'[t] = new /\ th' = [th EXCEPT ![t] = th'[t]]
  BY <1>2, <1>5, FrameTypes DEF IInv
<1>7. p \notin InCreation
  BY DEF InCreation, InOperation
<1> QED
  BY <1>2, <1>4, <1>6, <1>7, ThreadStep DEF Frame

LEMMA Begins ==
    ASSUME IInv, Frame, NEW t \in Threads, th[t] = Idle,
           NEW kind \in {"request", "tick"}, NEW context \in RepositoryContext,
           th' = [th EXCEPT ![t] = Start(kind, context)]
    PROVE  IInv'
<1>1. /\ Start(kind, context) \in Thread /\ Start(kind, context).pc = "want"
      /\ Start(kind, context).cont = 0 /\ Start(kind, context).outer = 0
      /\ Start(kind, context).context = context
  BY DEF Start, Idle, Thread, Slot
<1>2. Sound(Start(kind, context))
  BY <1>1 DEF Sound, SoundIn, InOperation
<1>3. TypeOK' /\ th'[t] = Start(kind, context) /\ th' = [th EXCEPT ![t] = th'[t]]
  BY <1>1, FrameTypes DEF IInv
<1>4. th[t].pc \notin InCreation /\ Start(kind, context).pc \notin InCreation
  BY <1>1 DEF InCreation, Idle
<1>5. UNCHANGED <<conts, manager, stop>>
  BY DEF Frame
<1> HIDE DEF Frame
<1> QED
  BY <1>1, <1>2, <1>3, <1>4, <1>5, ThreadStep

\* Only what threads and the manager hold matters.
LEMMA Elsewhere ==
    ASSUME IInv, Frame, UNCHANGED th
    PROVE  IInv'
<1> USE DEF IInv, Frame, manager
<1>1. TypeOK'
  BY DEF TypeOK
<1>2. ThreadInv'
  BY DEF ThreadInv, Sound, SoundIn
<1>3. CreatorInv'
  BY DEF CreatorInv, Repo
<1>4. StageInv'
  BY DEF StageInv, Stage, Unseen, Repo
<1>5. DictionaryInv' /\ OpenInv'
  BY DEF DictionaryInv, Entry, OpenFor, Collected, OpenInv, Known
<1>6. StopInv' /\ OneStore'
  BY DEF StopInv, Collected, OneStore
<1> QED BY <1>1, <1>2, <1>3, <1>4, <1>5, <1>6

-------------------------------------------------------------------------------
LEMMA RequireFrame ==
    ASSUME IInv, NEW t \in Threads, th[t].pc # "idle", NEW ok, RequireCurrent(th[t].context, ok),
           UNCHANGED <<installed, conts, manager, posted, stop, events, changes>>
    PROVE  Frame
<1>1. th[t].context \in RepositoryContext
  BY DEF IInv, ThreadInv, Sound, SoundIn
<1>2. RegistryTypes'
  BY <1>1, RequireTypes DEF IInv, TypeOK
<1> QED
  BY <1>2 DEF IInv, TypeOK, Frame

LEMMA QuietFrame ==
    ASSUME IInv, UNCHANGED <<installed, registry, conts, manager, stop, events, changes>>,
           posted' \in [Repos -> Nat]
    PROVE  Frame
<1>1. RegistryTypes'
  BY DEF IInv, TypeOK, RegistryTypes, registry
<1> QED
  BY <1>1 DEF IInv, TypeOK, Frame

LEMMA Arrivals ==
    ASSUME IInv, NEW t \in Threads, Arrive(t)
    PROVE  IInv'
<1>1. TypeOK /\ RegistryTypes
  BY DEF IInv, TypeOK
<1>2. CASE Visit(t)
  <2>1. PICK r \in Repos, found \in BOOLEAN :
            /\ Resolve(r, found)
            /\ th' = [th EXCEPT ![t] = IF found THEN Start("request", cache'[r]) ELSE @]
    BY <1>2 DEF Visit
  <2>2. RegistryTypes' /\ (found => cache'[r] \in RepositoryContext)
    BY <1>1, <1>2, <2>1, ResolveTypes DEF Visit
  <2>3. Frame
    BY <1>1, <1>2, <2>2 DEF Visit, Frame, TypeOK
  <2>4. CASE found
    BY <1>2, <2>1, <2>2, <2>3, <2>4, Begins DEF Visit
  <2>5. CASE ~found
    BY <1>1, <2>1, <2>3, <2>5, Elsewhere DEF TypeOK
  <2> QED
    BY <2>4, <2>5
<1>3. CASE Event(t)
  <2>1. PICK e \in events, found \in BOOLEAN :
            /\ Register(e[1], e[2], found)
            /\ events' = events \ {e} \/ UNCHANGED events
            /\ th' = [th EXCEPT ![t] = IF found THEN Start("request", cache'[e[1]]) ELSE @]
    BY <1>3 DEF Event
  <2>2. e[1] \in Repos
    BY <1>1 DEF TypeOK
  <2>3. RegistryTypes' /\ (found => cache'[e[1]] \in RepositoryContext)
    BY <1>1, <1>3, <2>1, <2>2, RegisterTypes DEF Event
  <2>4. Frame
    BY <1>1, <1>3, <2>1, <2>3 DEF Event, Frame, TypeOK
  <2>5. CASE found
    BY <1>3, <2>1, <2>3, <2>4, <2>5, Begins DEF Event
  <2>6. CASE ~found
    BY <1>1, <2>1, <2>4, <2>6, Elsewhere DEF TypeOK
  <2> QED
    BY <2>5, <2>6
<1>4. CASE Tick(t)
  <2>1. PICK context \in Registered : th' = [th EXCEPT ![t] = Start("tick", context)]
    BY <1>4 DEF Tick
  <2>2. context \in RepositoryContext
    BY <1>1, <2>1 DEF Registered, Stored, Context, RegistryTypes, Row, RepositoryContext
  <2>3. Frame
    BY <1>1, <1>4, QuietFrame DEF Tick, TypeOK
  <2> QED
    BY <1>4, <2>1, <2>2, <2>3, Begins DEF Tick
<1> QED
  BY <1>2, <1>3, <1>4 DEF Arrive

LEMMA Lookups ==
    ASSUME IInv, NEW t \in Threads, Want(t) \/ Find(t) \/ Wait(t) \/ Refuse(t) \/ Told(t)
    PROVE  IInv'
<1>1. posted \in [Repos -> Nat]
  BY DEF IInv, TypeOK
<1>2. CASE Want(t)
  <2>1. PICK ok \in BOOLEAN : RequireCurrent(th[t].context, ok) /\ IF ok THEN Go(t, "lock") ELSE Give(t)
    BY <1>2 DEF Want
  <2>2. Frame
    BY <1>2, <2>1, RequireFrame DEF Want
  <2> QED
    BY <1>2, <2>1, <2>2, Moves, Returns DEF Want, InCreation, InOperation
<1>3. CASE Find(t)
  <2> DEFINE c == serving[Repo(t)]
             new == [th[t] EXCEPT !.pc = "enter", !.cont = c]
  <2>1. th[t] \in Thread /\ Sound(th[t]) /\ th[t].pc = "lock" /\ Repo(t) \in Repos
    BY <1>3 DEF Find, IInv, TypeOK, ThreadInv, Sound, SoundIn, RepositoryContext, Repo
  <2>2. c # 0 /\ conts[c].context = th[t].context /\ th' = [th EXCEPT ![t] = new]
    BY <1>3 DEF Find
  <2>3. c \in Slot
    BY <2>1 DEF IInv, TypeOK
  <2>4. /\ new \in Thread /\ new.pc = "enter" /\ new.cont = c /\ new.outer = th[t].outer
        /\ new.context = th[t].context
    BY <2>1, <2>3 DEF Thread
  <2>5. Frame
    BY <1>1, <1>3, QuietFrame DEF Find
  <2> HIDE DEF new
  <2>6. Sound(new)
    BY <2>1, <2>2, <2>4 DEF Sound, SoundIn, InOperation
  <2>7. TypeOK' /\ th'[t] = new /\ th' = [th EXCEPT ![t] = th'[t]]
    BY <2>2, <2>4, <2>5, FrameTypes DEF IInv
  <2>8. UNCHANGED <<conts, manager, stop>> /\ "lock" \notin InCreation /\ "enter" \notin InCreation
    BY <2>5 DEF Frame, InCreation
  <2> HIDE DEF c
  <2> QED
    BY <2>1, <2>4, <2>6, <2>7, <2>8, ThreadStep DEF c
<1>4. CASE Wait(t)
  <2>1. Frame
    BY <1>1, <1>4, QuietFrame DEF Wait
  <2> QED
    BY <1>4, <2>1, Moves DEF Wait, InCreation, InOperation
<1>5. CASE Refuse(t)
  <2>1. Frame
    BY <1>1, <1>5, QuietFrame DEF Refuse
  <2> QED
    BY <1>5, <2>1, Returns DEF Refuse, InCreation
<1>6. CASE Told(t)
  <2>1. PICK ok \in BOOLEAN :
            /\ RequireCurrent(th[t].context, ok)
            /\ IF ok /\ stop.pc = "no" THEN Go(t, "enter") ELSE Give(t)
    BY <1>6 DEF Told
  <2>2. Frame
    BY <1>6, <2>1, RequireFrame DEF Told
  <2> QED
    BY <1>6, <2>1, <2>2, Moves, Returns DEF Told, InCreation, InOperation
<1> QED
  BY <1>2, <1>3, <1>4, <1>5, <1>6

LEMMA OperationSteps ==
    ASSUME IInv, NEW t \in Threads, Operate(t)
    PROVE  IInv'
<1>1. TypeOK /\ RegistryTypes /\ posted \in [Repos -> Nat] /\ th[t] \in Thread /\ Sound(th[t])
  BY DEF IInv, TypeOK, ThreadInv
<1>2. CASE Enter(t)
  <2>1. Frame
    BY <1>1, <1>2, QuietFrame DEF Enter
  <2>2. ~conts[th[t].cont].closed => conts[th[t].cont] # Down
    BY DEF Down
  <2> QED
    BY <1>2, <2>1, <2>2, Moves, Returns DEF Enter, Admits, InCreation, InOperation
<1>3. CASE Open(t)
  <2>1. CASE NoChange /\ Give(t)
    <3>1. Frame
      BY <1>1, <1>3, <2>1, QuietFrame DEF Open, NoChange
    <3> QED
      BY <1>3, <2>1, <3>1, Returns DEF Open, InCreation
  <2>2. CASE \E ok \in BOOLEAN :
                 RequireCurrent(th[t].context, ok) /\ IF ok THEN Go(t, "working") ELSE Give(t)
    <3>1. Frame
      BY <1>3, <2>2, RequireFrame DEF Open
    <3> QED
      BY <1>3, <2>2, <3>1, Moves, Returns DEF Open, InCreation, InOperation
  <2> QED
    BY <1>3, <2>1, <2>2 DEF Open
<1>4. CASE Guard(t)
  <2>1. PICK ok \in BOOLEAN :
            RequireCurrent(th[t].context, ok) /\ IF ok THEN Go(t, "posting") ELSE Give(t)
    BY <1>4 DEF Guard
  <2>2. Frame
    BY <1>4, <2>1, RequireFrame DEF Guard
  <2> QED
    BY <1>4, <2>1, <2>2, Moves, Returns DEF Guard, InCreation, InOperation
<1>5. CASE Post(t)
  <2>1. th[t].context.generation \in Nat
    BY <1>1, <1>5 DEF Post, Sound, SoundIn, RepositoryContext
  <2>2. posted' \in [Repos -> Nat]
    BY <1>1, <1>5, <2>1 DEF Post
  <2>3. Frame
    BY <1>5, <2>2, QuietFrame DEF Post
  <2> QED
    BY <1>5, <2>3, Moves DEF Post, InCreation, InOperation
<1>6. CASE ReadPeers(t)
  <2>1. PICK ok \in BOOLEAN :
            /\ RequireCurrent(th[t].context, ok)
            /\ th' = [th EXCEPT ![t].pc = IF ok THEN "peers" ELSE "leaving", ![t].read = TRUE]
    BY <1>6 DEF ReadPeers
  <2>2. Frame
    BY <1>6, <2>1, RequireFrame DEF ReadPeers
  <2> DEFINE new == [th[t] EXCEPT !.pc = IF ok THEN "peers" ELSE "leaving", !.read = TRUE]
  <2>3. /\ new \in Thread /\ new.pc \in {"peers", "leaving"}
        /\ new.cont = th[t].cont /\ new.outer = th[t].outer /\ new.context = th[t].context
    BY <1>1 DEF Thread, InOperation
  <2>4. th' = [th EXCEPT ![t] = new]
    BY <2>1
  <2> HIDE DEF new
  <2>5. Sound(new)
    BY <1>1, <1>6, <2>3 DEF ReadPeers, Sound, SoundIn, InOperation
  <2>6. TypeOK' /\ th'[t] = new /\ th' = [th EXCEPT ![t] = th'[t]]
    BY <1>1, <2>2, <2>3, <2>4, FrameTypes
  <2>7. UNCHANGED <<conts, manager, stop>> /\ th[t].pc \notin InCreation /\ new.pc \notin InCreation
    BY <1>6, <2>2, <2>3 DEF Frame, ReadPeers, InCreation
  <2> QED
    BY <2>3, <2>5, <2>6, <2>7, ThreadStep
<1>7. CASE ResolvePeer(t)
  <2>1. CASE NoChange /\ Go(t, "leaving")
    <3>1. Frame
      BY <1>1, <1>7, <2>1, QuietFrame DEF ResolvePeer, NoChange
    <3> QED
      BY <1>7, <2>1, <3>1, Moves DEF ResolvePeer, InCreation, InOperation
  <2>2. CASE \E context \in Registered, found \in BOOLEAN :
                 /\ Resolve(context.repo, found)
                 /\ th' = [th EXCEPT ![t] =
                              IF found THEN [@ EXCEPT !.pc = "want", !.context = cache'[context.repo],
                                                      !.cont = 0, !.outer = th[t].cont]
                              ELSE [@ EXCEPT !.pc = "leaving"]]
    <3>1. PICK context \in Registered, found \in BOOLEAN :
                 /\ Resolve(context.repo, found)
                 /\ th' = [th EXCEPT ![t] =
                              IF found THEN [@ EXCEPT !.pc = "want", !.context = cache'[context.repo],
                                                      !.cont = 0, !.outer = th[t].cont]
                              ELSE [@ EXCEPT !.pc = "leaving"]]
      BY <2>2
    <3>2. context.repo \in Repos
      BY <1>1 DEF Registered, Stored, Context
    <3>3. RegistryTypes' /\ (found => cache'[context.repo] \in RepositoryContext)
      BY <1>1, <1>7, <3>1, <3>2, ResolveTypes DEF ResolvePeer
    <3>4. Frame
      BY <1>1, <1>7, <3>3 DEF ResolvePeer, Frame, TypeOK
    <3>5. CASE ~found
      BY <1>7, <3>1, <3>4, <3>5, Moves DEF ResolvePeer, Go, InCreation, InOperation
    <3>6. CASE found
      <4> DEFINE new == [th[t] EXCEPT !.pc = "want", !.context = cache'[context.repo],
                                      !.cont = 0, !.outer = th[t].cont]
      <4>1. /\ new \in Thread /\ new.pc = "want" /\ new.cont = 0 /\ new.outer = th[t].cont
            /\ new.context \in RepositoryContext
        BY <1>1, <3>3, <3>6 DEF Thread, Slot
      <4>2. th' = [th EXCEPT ![t] = new]
        BY <3>1, <3>6
      <4> HIDE DEF new
      <4>3. Sound(new)
        BY <1>1, <1>7, <4>1 DEF ResolvePeer, Sound, SoundIn, InOperation
      <4>4. TypeOK' /\ th'[t] = new /\ th' = [th EXCEPT ![t] = th'[t]]
        BY <1>1, <3>4, <4>1, <4>2, FrameTypes
      <4>5. UNCHANGED <<conts, manager, stop>> /\ th[t].pc \notin InCreation /\ new.pc \notin InCreation
        BY <1>7, <3>4, <4>1 DEF Frame, ResolvePeer, InCreation
      <4> QED
        BY <4>1, <4>3, <4>4, <4>5, ThreadStep
    <3> QED
      BY <3>5, <3>6
  <2> QED
    BY <1>7, <2>1, <2>2 DEF ResolvePeer
<1>8. CASE Leave(t)
  <2>1. Frame
    BY <1>1, <1>8, QuietFrame, RequireFrame DEF Leave, NoChange
  <2> QED
    BY <1>8, <2>1, Returns DEF Leave, InCreation
<1> QED
  BY <1>2, <1>3, <1>4, <1>5, <1>6, <1>7, <1>8 DEF Operate

-------------------------------------------------------------------------------
\* A step of a creation disturbs only what belongs to its repository.
Local(t) ==
    LET r == Repo(t)
    IN /\ \A q \in Repos : q # r => /\ serving'[q] = serving[q]
                                    /\ retiring'[q] = retiring[q]
                                    /\ creating'[q] = creating[q]
       /\ creating'[r] \in {t, None}
       /\ \A c \in Slots : \/ conts'[c] = conts[c]
                           \/ /\ conts[c] = Down \/ conts[c].context.repo = r
                              /\ conts'[c] = Down \/ conts'[c].context.repo = r
       /\ \A x \in Threads : x # t /\ (th[x].pc \in InCreation \/ th'[x].pc \in InCreation)
                             => th'[x] = th[x]

\* Before the shutdown has collected, one container per repository is what the
\* dictionaries and the stages of the creators leave room for.
LEMMA OneStoreFollows ==
    ASSUME TypeOK, CreatorInv, StageInv, DictionaryInv, OpenInv, ~Collected
    PROVE  OneStore
<1> SUFFICES ASSUME NEW c \in Slots, NEW d \in Slots, conts[c] # Down, conts[d] # Down,
                    conts[c].context.repo = conts[d].context.repo
             PROVE  c = d
  BY DEF OneStore
<1> DEFINE r == conts[c].context.repo
<1>1. r \in Repos /\ c \in Nat \ {0} /\ d \in Nat \ {0}
  BY OpenContainer DEF Slot
<1>2. Known(c) /\ Known(d)
  BY DEF OpenInv
<1>3. serving[r] = 0 \/ retiring[r] = 0
  BY <1>1 DEF DictionaryInv, Entry
<1>4. creating[r] # None => creating[r] \in Threads /\ Repo(creating[r]) = r
  BY <1>1 DEF TypeOK, CreatorInv
<1>5. creating[r] # None /\ th[creating[r]].pc \in {"confirm", "publish"}
      => serving[r] = 0 /\ retiring[r] = 0
  BY <1>4 DEF StageInv, Stage, InCreation
<1> QED
  BY <1>1, <1>2, <1>3, <1>5 DEF Known

LEMMA CreationStep ==
    ASSUME IInv, TypeOK', NEW t \in Threads, Repo(t) \in Repos, ~Collected, UNCHANGED stop,
           Local(t), ThreadInv', CreatorInv',
           \A x, y \in Threads : x # t /\ th[x].pc \in {"confirm", "publish", "discard"} =>
               th'[y].outer # th[x].cont /\ (y # x => th'[y].cont # th[x].cont),
           Stage(t)',
           \A r \in Repos : r = Repo(t) => Entry(r)',
           \A c \in Slots : conts'[c] # Down /\ conts'[c].context.repo = Repo(t) => Known(c)'
    PROVE  IInv'
<1>1. ~Collected'
  BY DEF Collected
<1>2. ASSUME NEW x \in Threads, x # t, th'[x].pc \in InCreation
      PROVE  th'[x] = th[x] /\ Repo(x)' = Repo(x) /\ Repo(x) \in Repos /\ Repo(x) # Repo(t)
  <2>1. th'[x] = th[x] /\ Repo(x)' = Repo(x)
    BY <1>2 DEF Local, Repo
  <2>2. Repo(x) \in Repos
    BY <1>2, <2>1 DEF IInv, ThreadInv, Sound, SoundIn, Repo, RepositoryContext, InCreation
  <2>3. creating'[Repo(x)] = x
    BY <1>2, <2>1 DEF CreatorInv
  <2> QED
    BY <1>2, <2>1, <2>2, <2>3 DEF Local
<1>3. ASSUME NEW r \in Repos, r # Repo(t), NEW c \in Slot
      PROVE  OpenFor(c, r) <=> OpenFor(c, r)'
  <2>1. CASE c = 0
    BY <2>1 DEF OpenFor
  <2>2. CASE c \in Slots
    BY <1>3, <2>2 DEF OpenFor, Local
  <2> QED
    BY <2>1, <2>2 DEF Slot
<1>4. StageInv'
  <2> SUFFICES ASSUME NEW x \in Threads, x # t, th'[x].pc \in InCreation PROVE Stage(x)'
    BY DEF StageInv, Stage, InCreation
  <2>1. Stage(x) /\ th'[x] = th[x] /\ Repo(x)' = Repo(x) /\ Repo(x) \in Repos /\ Repo(x) # Repo(t)
    BY <1>2 DEF IInv, StageInv
  <2>2. serving'[Repo(x)] = serving[Repo(x)] /\ retiring'[Repo(x)] = retiring[Repo(x)]
    BY <2>1 DEF Local
  <2>3. ASSUME th[x].pc \in {"confirm", "publish", "discard"} PROVE Unseen(x)'
    <3> DEFINE c == th[x].cont
    <3>1. Unseen(x) /\ c \in Slots
      BY <2>1, <2>3 DEF Stage, Unseen, IInv, TypeOK, Thread, Slot
    <3>2. conts[c].context.repo = Repo(x)
      BY <3>1 DEF Unseen, Repo
    <3>3. conts'[c] = conts[c]
      BY <2>1, <3>1, <3>2 DEF Local, Unseen
    <3> QED
      BY <2>1, <2>3, <3>1, <3>3 DEF Unseen
  <2> QED
    BY <2>1, <2>2, <2>3 DEF Stage
<1>5. DictionaryInv'
  <2> SUFFICES ASSUME NEW r \in Repos, r # Repo(t) PROVE Entry(r)'
    BY DEF DictionaryInv
  <2>1. Entry(r) /\ serving'[r] = serving[r] /\ retiring'[r] = retiring[r]
    BY DEF IInv, DictionaryInv, Local
  <2>2. serving[r] \in Slot /\ retiring[r] \in Slot
    BY DEF IInv, TypeOK
  <2>3. OpenFor(serving[r], r) => OpenFor(serving[r], r)'
    BY <1>3, <2>1, <2>2 DEF OpenFor
  <2>4. OpenFor(retiring[r], r) => OpenFor(retiring[r], r)'
    BY <1>3, <2>1, <2>2 DEF OpenFor
  <2> QED
    BY <1>1, <2>1, <2>3, <2>4 DEF Entry
<1>6. OpenInv'
  <2> SUFFICES ASSUME NEW c \in Slots, conts'[c] # Down, conts'[c].context.repo # Repo(t)
               PROVE  Known(c)'
    BY <1>1 DEF OpenInv
  <2> DEFINE r == conts'[c].context.repo
  <2>1. conts'[c] = conts[c]
    BY DEF Local
  <2>2. r \in Repos
    BY <2>1, OpenContainer DEF IInv, Slot
  <2>3. Known(c)
    BY <2>1 DEF IInv, OpenInv
  <2>4. serving'[r] = serving[r] /\ retiring'[r] = retiring[r] /\ creating'[r] = creating[r]
    BY <2>2 DEF Local
  <2>5. ASSUME creating[r] # None, th[creating[r]].pc \in {"confirm", "publish"}
        PROVE  th'[creating[r]] = th[creating[r]]
    <3>1. creating[r] \in Threads /\ Repo(creating[r]) = r
      BY <2>2, <2>5 DEF IInv, TypeOK, CreatorInv
    <3> QED
      BY <2>5, <3>1 DEF Local, InCreation
  <2> QED
    BY <2>1, <2>3, <2>4, <2>5, ZenonT(60) DEF Known
<1>7. StopInv'
  BY <1>1 DEF IInv, StopInv, Collected
<1>8. OneStore'
  BY <1>1, <1>4, <1>5, <1>6, OneStoreFollows, PTL
<1> QED
  BY <1>4, <1>5, <1>6, <1>7, <1>8 DEF IInv

-------------------------------------------------------------------------------
\* A container keeps its context while anybody works in it.
Kept ==
    \A c \in Slots :
        \/ conts'[c] = conts[c]
        \/ conts'[c] # Down /\ conts'[c].context = conts[c].context
        \/ conts'[c] = Down /\ HasEnded(c)
        \/ \A x \in Threads : c \notin {th[x].cont, th[x].outer}

LEMMA SoundKept ==
    ASSUME IInv, Kept, NEW x \in Threads
    PROVE  SoundIn(th[x], conts') /\ SoundIn(Through(th[x]), conts')
<1>1. th[x] \in Thread /\ SoundIn(th[x], conts)
  BY DEF IInv, TypeOK, ThreadInv, Sound
<1>2. /\ Through(th[x]) \in Thread /\ SoundIn(Through(th[x]), conts)
      /\ Through(th[x]).pc \in {"idle", "working"} /\ Through(th[x]).outer = 0
      /\ Through(th[x]).cont = th[x].outer
  BY ThroughFacts DEF IInv, Sound
<1>3. th[x].outer # 0 => /\ conts'[th[x].outer] # Down
                         /\ conts'[th[x].outer].context = conts[th[x].outer].context
  BY <1>1 DEF Kept, HasEnded, Operations, Thread, Slot, SoundIn
<1>4. th[x].cont # 0 =>
          \/ conts'[th[x].cont] # Down /\ conts'[th[x].cont].context = conts[th[x].cont].context
          \/ conts'[th[x].cont] = conts[th[x].cont]
          \/ conts'[th[x].cont] = Down /\ th[x].pc \notin InOperation
  BY <1>1 DEF Kept, HasEnded, Operations, Thread, Slot
<1>5. SoundIn(th[x], conts')
  <2>1. Down.context = None
    BY DEF Down
  <2> QED
    BY <1>1, <1>3, <1>4, <2>1 DEF SoundIn
<1>6. SoundIn(Through(th[x]), conts')
  BY <1>2, <1>3 DEF SoundIn, InOperation
<1> QED
  BY <1>5, <1>6

\* A creator takes its next step.
LEMMA InnerStep ==
    ASSUME IInv, TypeOK', NEW t \in Threads, th[t].pc \in InCreation \cup {"lock"},
           ~Collected, UNCHANGED stop,
           th' = [th EXCEPT ![t] = th'[t]], th'[t].pc \in InCreation,
           th'[t].context = th[t].context, th'[t].outer = th[t].outer,
           \/ th'[t].cont \in {0, th[t].cont} \cup FreeSlots
           \/ OpenFor(th'[t].cont, Repo(t)),
           creating'[Repo(t)] = t, th[t].pc = "lock" => creating[Repo(t)] = None,
           Local(t), Kept, Stage(t)',
           \A r \in Repos : r = Repo(t) => Entry(r)',
           \A c \in Slots : conts'[c] # Down /\ conts'[c].context.repo = Repo(t) => Known(c)'
    PROVE  IInv'
<1>1. \A x \in Threads : x # t => th'[x] = th[x]
  BY DEF IInv, TypeOK
<1>2. th[t] \in Thread /\ SoundIn(th[t], conts')
  BY SoundKept DEF IInv, TypeOK
<1>3. Repo(t) \in Repos /\ Repo(t)' = Repo(t)
  BY <1>2 DEF SoundIn, Repo, RepositoryContext, InCreation
<1>4. SoundIn(th'[t], conts')
  BY <1>2 DEF SoundIn, InCreation, InOperation
<1>5. ThreadInv'
  BY <1>1, <1>4, SoundKept DEF ThreadInv, Sound
<1>6. CreatorInv'
  <2>1. ASSUME NEW x \in Threads, th'[x].pc \in InCreation PROVE creating'[Repo(x)'] = x
    <3>1. CASE x = t
      BY <1>3, <3>1
    <3>2. CASE x # t
      <4>1. th'[x] = th[x] /\ Repo(x)' = Repo(x) /\ creating[Repo(x)] = x
        BY <1>1, <2>1, <3>2 DEF IInv, CreatorInv, Repo
      <4>2. Repo(x) \in Repos
        BY <2>1, <4>1 DEF IInv, ThreadInv, Sound, SoundIn, Repo, RepositoryContext, InCreation
      <4>3. Repo(x) # Repo(t)
        BY <3>2, <4>1 DEF IInv, CreatorInv, InCreation
      <4> QED
        BY <4>1, <4>2, <4>3 DEF Local
    <3> QED
      BY <3>1, <3>2
  <2>2. ASSUME NEW r \in Repos, creating'[r] # None
        PROVE  th'[creating'[r]].context.repo = r /\ th'[creating'[r]].pc \in InCreation
    <3>1. CASE r = Repo(t)
      BY <3>1 DEF Repo
    <3>2. CASE r # Repo(t)
      <4>1. creating'[r] = creating[r] /\ creating[r] \in Threads
        BY <2>2, <3>2 DEF Local, IInv, TypeOK
      <4>2. Repo(creating[r]) = r /\ th[creating[r]].pc \in InCreation /\ creating[r] # t
        BY <2>2, <3>2, <4>1 DEF IInv, CreatorInv
      <4> QED
        BY <1>1, <4>1, <4>2 DEF Repo
    <3> QED
      BY <3>1, <3>2
  <2> QED
    BY <2>1, <2>2 DEF CreatorInv, Repo
<1>7. ASSUME NEW x \in Threads, NEW y \in Threads, x # t, th[x].pc \in {"confirm", "publish", "discard"}
      PROVE  th'[y].outer # th[x].cont /\ (y # x => th'[y].cont # th[x].cont)
  <2>1. Unseen(x) /\ creating[Repo(x)] = x
    BY <1>7 DEF IInv, StageInv, Stage, CreatorInv, InCreation
  <2>2. CASE y # t
    BY <1>1, <2>1, <2>2 DEF Unseen
  <2>3. CASE y = t
    <3>1. Repo(x) # Repo(t)
      BY <1>7, <2>1 DEF IInv, CreatorInv, InCreation
    <3>2. conts[th[x].cont].context.repo = Repo(x)
      BY <2>1 DEF Unseen, Repo
    <3>3. th'[t].cont # th[x].cont
      BY <1>7, <2>1, <3>1, <3>2 DEF Unseen, FreeSlots, OpenFor
    <3> QED
      BY <1>7, <2>1, <2>3, <3>3 DEF Unseen
  <2> QED
    BY <2>2, <2>3
<1> QED
  BY <1>3, <1>5, <1>6, <1>7, CreationStep

\* What becomes of the threads when a creation ends.
LEMMA Endings ==
    ASSUME IInv, NEW t \in Threads, NEW c \in Slot, EndCreation(t, c), Kept,
           c # 0 => conts'[c].context = th[t].context,
           th[t].pc \in InCreation
    PROVE  \A x \in Threads :
               /\ th'[x] \in Thread /\ SoundIn(th'[x], conts')
               /\ th'[x].outer \in {0, th[x].outer}
               /\ th'[x].cont \in {th[x].cont, th[x].outer, c}
               /\ x # t /\ (th[x].pc \in InCreation \/ th'[x].pc \in InCreation) => th'[x] = th[x]
               /\ th'[t].pc \notin InCreation
<1> SUFFICES ASSUME NEW x \in Threads
             PROVE  /\ th'[x] \in Thread /\ SoundIn(th'[x], conts')
                    /\ th'[x].outer \in {0, th[x].outer}
                    /\ th'[x].cont \in {th[x].cont, th[x].outer, c}
                    /\ x # t /\ (th[x].pc \in InCreation \/ th'[x].pc \in InCreation) => th'[x] = th[x]
                    /\ x = t => th'[x].pc \notin InCreation
  OBVIOUS
<1>1. th[x] \in Thread /\ SoundIn(th[x], conts') /\ SoundIn(Through(th[x]), conts')
  BY SoundKept DEF IInv, TypeOK
<1>2. /\ Through(th[x]) \in Thread /\ Through(th[x]).pc \in {"idle", "working"}
      /\ Through(th[x]).outer = 0 /\ Through(th[x]).cont = th[x].outer
  BY ThroughFacts DEF IInv
<1>3. CASE th'[x] = Through(th[x]) /\ (x = t \/ th[x].pc = "waiting")
  BY <1>1, <1>2, <1>3 DEF InCreation
<1>4. CASE x = t /\ c # 0 /\ th'[x] = [th[t] EXCEPT !.pc = "enter", !.cont = c]
  <2>1. /\ th'[x] \in Thread /\ th'[x].pc = "enter" /\ th'[x].cont = c
        /\ th'[x].outer = th[x].outer /\ th'[x].context = th[x].context
    BY <1>1, <1>4 DEF Thread
  <2> QED
    BY <1>1, <1>4, <2>1 DEF SoundIn, InOperation, InCreation
<1>5. CASE x # t /\ th'[x] = th[x]
  BY <1>1, <1>5
<1>6. CASE x # t /\ th[x].pc = "waiting" /\ th'[x] = [th[x] EXCEPT !.pc = "want"]
  <2>1. /\ th'[x] \in Thread /\ th'[x].pc = "want" /\ th'[x].cont = th[x].cont
        /\ th'[x].outer = th[x].outer /\ th'[x].context = th[x].context
    BY <1>1, <1>6 DEF Thread
  <2> QED
    BY <1>1, <1>6, <2>1 DEF SoundIn, InOperation, InCreation
<1>7. CASE /\ x # t /\ th[x].pc = "waiting" /\ c # 0 /\ th[x].context = th[t].context
           /\ th'[x] = [th[x] EXCEPT !.pc = "told", !.cont = c]
  <2>1. /\ th'[x] \in Thread /\ th'[x].pc = "told" /\ th'[x].cont = c
        /\ th'[x].outer = th[x].outer /\ th'[x].context = th[x].context
    BY <1>1, <1>7 DEF Thread
  <2> QED
    BY <1>1, <1>7, <2>1 DEF SoundIn, InOperation, InCreation
<1> QED
  BY <1>3, <1>4, <1>5, <1>6, <1>7 DEF EndCreation

LEMMA EndStep ==
    ASSUME IInv, NEW t \in Threads, th[t].pc \in InCreation,
           NEW c \in {0, th[t].cont}, EndCreation(t, c), UNCHANGED <<posted, stop, events, changes>>,
           c # 0 => conts'[c].context = th[t].context,
           RegistryTypes', conts' \in [Slots -> Container \cup {Down}],
           serving' \in [Repos -> Slot], retiring' \in [Repos -> Slot],
           Kept,
           \A q \in Repos : q # Repo(t) => serving'[q] = serving[q] /\ retiring'[q] = retiring[q],
           \A s \in Slots : \/ conts'[s] = conts[s]
                            \/ /\ conts[s] = Down \/ conts[s].context.repo = Repo(t)
                               /\ conts'[s] = Down \/ conts'[s].context.repo = Repo(t),
           \A r \in Repos : r = Repo(t) => Entry(r)',
           \A s \in Slots : conts'[s] # Down /\ conts'[s].context.repo = Repo(t) => Known(s)'
    PROVE  IInv'
<1>1. TypeOK /\ th[t] \in Thread /\ SoundIn(th[t], conts) /\ c \in Slot
  BY DEF IInv, TypeOK, ThreadInv, Sound, Thread, Slot
<1>2. Repo(t) \in Repos
  BY <1>1 DEF SoundIn, Repo, RepositoryContext, InCreation
<1>3. \A x \in Threads :
          /\ th'[x] \in Thread /\ SoundIn(th'[x], conts')
          /\ th'[x].outer \in {0, th[x].outer}
          /\ th'[x].cont \in {th[x].cont, th[x].outer, c}
          /\ x # t /\ (th[x].pc \in InCreation \/ th'[x].pc \in InCreation) => th'[x] = th[x]
          /\ th'[t].pc \notin InCreation
  BY <1>1, Endings
<1>4. creating' = [creating EXCEPT ![Repo(t)] = None]
  BY DEF EndCreation
<1>5. TypeOK'
  <2>1. th' \in [Threads -> Thread]
    BY <1>3 DEF EndCreation
  <2>2. creating' \in [Repos -> Threads \cup {None}]
    BY <1>1, <1>4 DEF TypeOK
  <2> QED
    BY <1>1, <2>1, <2>2 DEF TypeOK
<1>6. ThreadInv'
  BY <1>3 DEF ThreadInv, Sound
<1>7. creating[Repo(t)] = t
  BY DEF IInv, CreatorInv
<1>8. Local(t)
  <2>1. creating \in [Repos -> Threads \cup {None}]
    BY <1>1 DEF TypeOK
  <2>2. creating'[Repo(t)] = None /\ \A q \in Repos : q # Repo(t) => creating'[q] = creating[q]
    BY <1>2, <1>4, <2>1
  <2>3. \A x \in Threads : x # t /\ (th[x].pc \in InCreation \/ th'[x].pc \in InCreation) => th'[x] = th[x]
    BY <1>3
  <2> QED
    BY <2>2, <2>3 DEF Local
<1>9. CreatorInv'
  <2>1. ASSUME NEW x \in Threads, th'[x].pc \in InCreation PROVE creating'[Repo(x)'] = x
    <3>1. x # t /\ th'[x] = th[x] /\ Repo(x)' = Repo(x)
      BY <1>3, <2>1 DEF Repo
    <3>2. creating[Repo(x)] = x
      BY <2>1, <3>1 DEF IInv, CreatorInv
    <3>3. Repo(x) \in Repos
      BY <2>1, <3>1 DEF IInv, ThreadInv, Sound, SoundIn, Repo, RepositoryContext, InCreation
    <3> QED
      BY <1>1, <1>4, <1>7, <3>1, <3>2, <3>3 DEF TypeOK
  <2>2. ASSUME NEW r \in Repos, creating'[r] # None
        PROVE  th'[creating'[r]].context.repo = r /\ th'[creating'[r]].pc \in InCreation
    <3>1. r # Repo(t) /\ creating'[r] = creating[r] /\ creating[r] \in Threads
      BY <1>1, <1>4, <2>2 DEF TypeOK
    <3>2. Repo(creating[r]) = r /\ th[creating[r]].pc \in InCreation /\ creating[r] # t
      BY <2>2, <3>1 DEF IInv, CreatorInv
    <3> QED
      BY <1>3, <3>1, <3>2 DEF Repo
  <2> QED
    BY <2>1, <2>2 DEF CreatorInv, Repo
<1>10. ASSUME NEW x \in Threads, NEW y \in Threads, x # t, th[x].pc \in {"confirm", "publish", "discard"}
       PROVE  th'[y].outer # th[x].cont /\ (y # x => th'[y].cont # th[x].cont)
  <2>1. Unseen(x)
    BY <1>10 DEF IInv, StageInv, Stage
  <2>2. th[y].outer # th[x].cont /\ (y # x => th[y].cont # th[x].cont) /\ c # th[x].cont /\ 0 # th[x].cont
    BY <1>10, <2>1 DEF Unseen
  <2> QED
    BY <1>3, <2>2
<1>11. Stage(t)'
  BY <1>3 DEF Stage, InCreation
<1>12. ~Collected
  BY <1>1, <1>2, <1>7 DEF IInv, StopInv
<1> QED
  BY <1>2, <1>5, <1>6, <1>8, <1>9, <1>10, <1>11, <1>12, CreationStep

-------------------------------------------------------------------------------
\* What a creator finds: nothing of its repository, or one container.
LEMMA CreatorFacts ==
    ASSUME IInv, NEW t \in Threads, th[t].pc \in InCreation
    PROVE  /\ th[t] \in Thread /\ th[t].context \in RepositoryContext /\ Repo(t) \in Repos
           /\ creating[Repo(t)] = t /\ ~Collected
           /\ th[t].pc # "replace" => serving[Repo(t)] = 0
           /\ th[t].pc \in {"check", "build"} =>
                  retiring[Repo(t)] = 0
                  /\ \A c \in Slots : conts[c] # Down => conts[c].context.repo # Repo(t)
           /\ th[t].pc \in {"drain", "draining", "confirm", "publish", "discard"} =>
                  /\ th[t].cont \in Slots /\ conts[th[t].cont] # Down
                  /\ conts[th[t].cont] \in Container
                  /\ conts[th[t].cont].context \in RepositoryContext
                  /\ conts[th[t].cont].context.repo = Repo(t)
                  /\ \A c \in Slots : conts[c] # Down /\ conts[c].context.repo = Repo(t)
                                      => c = th[t].cont
<1>1. th[t] \in Thread /\ th[t].context \in RepositoryContext
  BY DEF IInv, TypeOK, ThreadInv, Sound, SoundIn, InCreation
<1>2. Repo(t) \in Repos
  BY <1>1 DEF Repo, RepositoryContext
<1>3. creating[Repo(t)] = t /\ Stage(t) /\ Entry(Repo(t))
  BY <1>2 DEF IInv, CreatorInv, StageInv, DictionaryInv
<1>4. ~Collected
  BY <1>2, <1>3 DEF IInv, StopInv
<1>5. th[t].pc # "replace" => serving[Repo(t)] = 0
  BY <1>3 DEF Stage
<1>6. ASSUME th[t].pc \in {"check", "build"}
      PROVE  /\ retiring[Repo(t)] = 0
             /\ \A c \in Slots : conts[c] # Down => conts[c].context.repo # Repo(t)
  <2>1. retiring[Repo(t)] = 0
    BY <1>3, <1>6 DEF Stage
  <2>2. ASSUME NEW c \in Slots, conts[c] # Down, conts[c].context.repo = Repo(t) PROVE FALSE
    <3>1. Known(c) /\ c # 0
      BY <1>4, <2>2 DEF IInv, OpenInv
    <3> QED
      BY <1>3, <1>5, <1>6, <2>1, <2>2, <3>1 DEF Known
  <2> QED
    BY <2>1, <2>2
<1>7. ASSUME th[t].pc \in {"drain", "draining", "confirm", "publish", "discard"}
      PROVE  /\ th[t].cont \in Slots /\ conts[th[t].cont] # Down
             /\ conts[th[t].cont].context.repo = Repo(t)
  <2>1. CASE th[t].pc \in {"drain", "draining"}
    BY <1>1, <1>3, <1>4, <2>1 DEF Stage, Entry, OpenFor, Thread, Slot
  <2>2. CASE th[t].pc \in {"confirm", "publish", "discard"}
    BY <1>1, <1>3, <2>2 DEF Stage, Unseen, Thread, Slot, Repo
  <2> QED
    BY <1>7, <2>1, <2>2
<1>8. ASSUME th[t].pc \in {"drain", "draining", "confirm", "publish", "discard"}
      PROVE  /\ conts[th[t].cont] \in Container
             /\ conts[th[t].cont].context \in RepositoryContext
             /\ \A c \in Slots : conts[c] # Down /\ conts[c].context.repo = Repo(t)
                                 => c = th[t].cont
  BY <1>7, <1>8, OpenContainer DEF IInv, OneStore, Slot
<1> QED
  BY <1>1, <1>2, <1>3, <1>4, <1>5, <1>6, <1>7, <1>8

\* A step within a creation, from what it does to the repository's entries.
LEMMA Advance ==
    ASSUME IInv, NEW t \in Threads, th[t].pc \in InCreation \cup {"lock"}, ~Collected,
           Repo(t) \in Repos, th[t].pc = "lock" => creating[Repo(t)] = None,
           NEW new \in Thread, th' = [th EXCEPT ![t] = new], new.pc \in InCreation,
           new.context = th[t].context, new.outer = th[t].outer,
           new.cont \in {0, th[t].cont} \cup FreeSlots \/ OpenFor(new.cont, Repo(t)),
           creating' = [creating EXCEPT ![Repo(t)] = t],
           UNCHANGED <<posted, stop, events, changes>>,
           RegistryTypes', conts' \in [Slots -> Container \cup {Down}],
           serving' \in [Repos -> Slot], retiring' \in [Repos -> Slot],
           Kept,
           \A q \in Repos : q # Repo(t) => serving'[q] = serving[q] /\ retiring'[q] = retiring[q],
           \A s \in Slots : \/ conts'[s] = conts[s]
                            \/ /\ conts[s] = Down \/ conts[s].context.repo = Repo(t)
                               /\ conts'[s] = Down \/ conts'[s].context.repo = Repo(t),
           Stage(t)',
           \A r \in Repos : r = Repo(t) => Entry(r)',
           \A s \in Slots : conts'[s] # Down /\ conts'[s].context.repo = Repo(t) => Known(s)'
    PROVE  IInv'
<1>1. TypeOK
  BY DEF IInv
<1>2. th'[t] = new /\ th' \in [Threads -> Thread] /\ \A x \in Threads : x # t => th'[x] = th[x]
  BY <1>1 DEF TypeOK
<1>3. /\ creating' \in [Repos -> Threads \cup {None}] /\ creating'[Repo(t)] = t
      /\ \A q \in Repos : q # Repo(t) => creating'[q] = creating[q]
  BY <1>1 DEF TypeOK
<1>4. TypeOK'
  BY <1>1, <1>2, <1>3 DEF TypeOK
<1>5. Local(t)
  BY <1>2, <1>3 DEF Local
<1>6. UNCHANGED stop /\ th' = [th EXCEPT ![t] = th'[t]]
  BY <1>2
<1> HIDE DEF Local, Kept, Stage, Entry, Known
<1> QED
  BY <1>2, <1>3, <1>4, <1>5, <1>6, InnerStep

\* The thread as it goes on to stage p with container c.
Onward(thread, p, c) == [thread EXCEPT !.pc = p, !.cont = c]

LEMMA MoveOn ==
    ASSUME NEW thread \in Thread, NEW p \in InCreation, NEW c \in Slot
    PROVE  /\ Onward(thread, p, c) \in Thread
           /\ Onward(thread, p, c).pc = p
           /\ Onward(thread, p, c).cont = c
           /\ Onward(thread, p, c).context = thread.context
           /\ Onward(thread, p, c).outer = thread.outer
BY DEF Thread, Onward

LEMMA GoOn ==
    ASSUME NEW thread \in Thread, NEW p
    PROVE  [thread EXCEPT !.pc = p] = Onward(thread, p, thread.cont)
BY DEF Thread, Onward

\* The old container gives way.
LEMMA Replacements ==
    ASSUME IInv, NEW t \in Threads, BeginCreation(t) \/ Replace(t) \/ Drain(t) \/ Drained(t)
    PROVE  IInv'
<1>1. /\ TypeOK /\ th[t] \in Thread /\ conts \in [Slots -> Container \cup {Down}]
      /\ serving \in [Repos -> Slot] /\ retiring \in [Repos -> Slot]
      /\ creating \in [Repos -> Threads \cup {None}]
  BY DEF IInv, TypeOK
<1>2. UNCHANGED <<installed, registry>> => RegistryTypes'
  BY <1>1 DEF TypeOK, RegistryTypes, registry
<1>3. th[t].cont \in Slot
  BY <1>1 DEF Thread
<1>4. CASE BeginCreation(t)
  <2> DEFINE new == Onward(th[t], "replace", th[t].cont)
  <2>1. th[t].pc = "lock" /\ creating[Repo(t)] = None /\ stop.pc = "no"
        /\ creating' = [creating EXCEPT ![Repo(t)] = t]
        /\ UNCHANGED <<installed, registry, conts, serving, retiring, posted, stop, events, changes>>
    BY <1>4 DEF BeginCreation
  <2>2. Repo(t) \in Repos
    BY <1>1, <2>1 DEF IInv, ThreadInv, Sound, SoundIn, Repo, RepositoryContext
  <2>3. "replace" \in InCreation
    BY DEF InCreation
  <2>4. /\ new \in Thread /\ new.pc = "replace" /\ new.cont = th[t].cont
        /\ new.context = th[t].context /\ new.outer = th[t].outer
    BY <1>1, <1>3, <2>3, MoveOn
  <2>. th' = [th EXCEPT ![t] = new]
    BY <1>1, <1>4, GoOn DEF BeginCreation, Go
  <2> HIDE DEF new
  <2>5. th'[t] = new
    BY <1>1, <2>4 DEF TypeOK
  <2>6. Stage(t)'
    BY <2>4, <2>5 DEF Stage, InCreation
  <2>7. ~Collected
    BY <2>1 DEF Collected
  <2>8. \A r \in Repos : r = Repo(t) => Entry(r)'
    BY <2>1, <2>7 DEF IInv, DictionaryInv, Entry, OpenFor, Collected
  <2>9. \A s \in Slots : conts'[s] # Down /\ conts'[s].context.repo = Repo(t) => Known(s)'
    BY <2>1, <2>7 DEF IInv, OpenInv, Known
  <2>10. Kept
    BY <2>1 DEF Kept
  <2> HIDE DEF Stage, Entry, Known, Kept
  <2> QED
    BY <1>1, <1>2, <2>1, <2>2, <2>3, <2>4, <2>6, <2>7, <2>8, <2>9, <2>10, Advance, ZenonT(60)
<1>5. ASSUME th[t].pc \in InCreation
      PROVE  /\ th[t].pc # "lock" /\ Repo(t) \in Repos /\ ~Collected /\ creating[Repo(t)] = t
             /\ UNCHANGED creating => creating' = [creating EXCEPT ![Repo(t)] = t]
  BY <1>1, <1>5, CreatorFacts DEF InCreation
<1>6. CASE Replace(t)
  <2> DEFINE r == Repo(t)
             old == IF serving[r] # 0 THEN serving[r] ELSE retiring[r]
             p == IF old # 0 THEN "drain" ELSE "check"
             new == Onward(th[t], p, old)
  <2>1. /\ th[t].pc = "replace" /\ serving' = [serving EXCEPT ![r] = 0]
        /\ retiring' = [retiring EXCEPT ![r] = old] /\ th' = [th EXCEPT ![t] = new]
        /\ UNCHANGED <<installed, registry, conts, creating, posted, stop, events, changes>>
    BY <1>6 DEF Replace, Onward
  <2>2. th[t].pc \in InCreation /\ p \in InCreation /\ p \in {"drain", "check"}
    BY <2>1 DEF InCreation
  <2>3. /\ r \in Repos /\ ~Collected /\ creating[r] = t /\ th[t].pc # "lock"
        /\ creating' = [creating EXCEPT ![r] = t]
    BY <1>5, <2>1, <2>2
  <2>4. Entry(r) /\ old \in Slot /\ (old # 0 => OpenFor(old, r))
    BY <1>1, <2>3 DEF IInv, DictionaryInv, Entry
  <2>5. /\ new \in Thread /\ new.pc = p /\ new.cont = old
        /\ new.context = th[t].context /\ new.outer = th[t].outer
    BY <1>1, <2>2, <2>4, MoveOn
  <2> HIDE DEF new
  <2>6. th'[t] = new
    BY <1>1, <2>1, <2>5 DEF TypeOK
  <2>7. /\ serving'[r] = 0 /\ retiring'[r] = old /\ serving' \in [Repos -> Slot]
        /\ retiring' \in [Repos -> Slot]
        /\ \A q \in Repos : q # r => serving'[q] = serving[q] /\ retiring'[q] = retiring[q]
    BY <1>1, <2>1, <2>3, <2>4 DEF Slot
  <2>8. Stage(t)'
    BY <2>3, <2>5, <2>6, <2>7 DEF Stage, Repo
  <2>9. \A q \in Repos : q = r => Entry(q)'
    BY <2>1, <2>4, <2>7 DEF Entry, OpenFor, Slot
  <2>10. ASSUME NEW s \in Slots, conts'[s] # Down, conts'[s].context.repo = r PROVE Known(s)'
    <3>1. Known(s) /\ s # 0
      BY <2>1, <2>3, <2>10 DEF IInv, OpenInv
    <3>2. old = s
      BY <2>1, <2>3, <2>4, <2>10, <3>1 DEF Known, Entry
    <3> QED
      BY <2>1, <2>7, <2>10, <3>2 DEF Known
  <2>11. Kept
    BY <2>1 DEF Kept
  <2>12. new.cont \in {0, th[t].cont} \cup FreeSlots \/ OpenFor(new.cont, r)
    BY <2>4, <2>5
  <2>13. new.pc \in InCreation
    BY <2>2, <2>5
  <2> HIDE DEF Stage, Entry, Known, Kept, old, p, OpenFor
  <2> QED
    BY <1>1, <1>2, <2>1, <2>2, <2>3, <2>5, <2>7, <2>8, <2>9, <2>10, <2>11, <2>12, <2>13, Advance
<1>7. CASE Drain(t)
  <2> DEFINE r == Repo(t)
             c == th[t].cont
             new == Onward(th[t], "draining", c)
  <2>1. /\ th[t].pc = "drain" /\ conts' = [conts EXCEPT ![c].closed = TRUE]
        /\ UNCHANGED <<installed, registry, serving, retiring, creating, posted, stop, events, changes>>
    BY <1>7 DEF Drain, manager
  <2>2. th[t].pc \in InCreation /\ "draining" \in InCreation
    BY <2>1 DEF InCreation
  <2>3. /\ r \in Repos /\ ~Collected /\ creating[r] = t /\ th[t].pc # "lock"
        /\ creating' = [creating EXCEPT ![r] = t]
    BY <1>5, <2>1, <2>2
  <2>4. /\ c \in Slots /\ conts[c] # Down /\ conts[c] \in Container
        /\ conts[c].context \in RepositoryContext /\ conts[c].context.repo = r
        /\ serving[r] = 0
        /\ \A s \in Slots : conts[s] # Down /\ conts[s].context.repo = r => s = c
    BY <2>1, <2>2, CreatorFacts
  <2>5. retiring[r] = c /\ c # 0
    BY <2>1 DEF IInv, StageInv, Stage
  <2>6. /\ new \in Thread /\ new.pc = "draining" /\ new.cont = c
        /\ new.context = th[t].context /\ new.outer = th[t].outer
    BY <1>1, <1>3, <2>2, MoveOn
  <2>. th' = [th EXCEPT ![t] = new]
    BY <1>1, <1>7, GoOn DEF Drain, Go
  <2> HIDE DEF new
  <2>7. th'[t] = new
    BY <1>1, <2>6 DEF TypeOK
  <2>8. /\ conts'[c] # Down /\ conts'[c].context = conts[c].context /\ conts'[c] \in Container
        /\ \A s \in Slots : s # c => conts'[s] = conts[s]
        /\ conts' \in [Slots -> Container \cup {Down}]
    <3> DEFINE old == [conts[c] EXCEPT !.closed = TRUE]
    <3>1. old \in Container /\ old.context = conts[c].context
      BY <2>4 DEF Container
    <3>2. conts' = [conts EXCEPT ![c] = old]
      BY <2>1
    <3> HIDE DEF old
    <3>3. old # Down
      BY <2>4, <3>1 DEF Down
    <3> QED
      BY <1>1, <2>4, <3>1, <3>2, <3>3
  <2>9. Stage(t)'
    BY <2>1, <2>4, <2>5, <2>6, <2>7 DEF Stage, Repo
  <2>10. \A q \in Repos : q = r => Entry(q)'
    BY <2>1, <2>4, <2>5, <2>8 DEF Entry, OpenFor
  <2>11. \A s \in Slots : conts'[s] # Down /\ conts'[s].context.repo = r => Known(s)'
    BY <2>1, <2>4, <2>5, <2>8 DEF Known
  <2>12. Kept
    BY <2>8 DEF Kept
  <2>13. \A s \in Slots : \/ conts'[s] = conts[s]
                          \/ /\ conts[s] = Down \/ conts[s].context.repo = r
                             /\ conts'[s] = Down \/ conts'[s].context.repo = r
    BY <2>4, <2>8
  <2>14. new.pc \in InCreation /\ new.cont = th[t].cont
    BY <2>2, <2>6
  <2>15. RegistryTypes' /\ UNCHANGED <<posted, stop, events, changes>>
         /\ serving' \in [Repos -> Slot] /\ retiring' \in [Repos -> Slot]
         /\ \A q \in Repos : q # r => serving'[q] = serving[q] /\ retiring'[q] = retiring[q]
    BY <1>1, <1>2, <2>1
  <2> HIDE DEF Stage, Entry, Known, Kept, r, c
  <2> QED
    BY <2>2, <2>3, <2>6, <2>8, <2>9, <2>10, <2>11, <2>12, <2>13, <2>14, <2>15, Advance DEF r
<1>8. CASE Drained(t)
  <2> DEFINE r == Repo(t)
             c == th[t].cont
             new == Onward(th[t], "check", 0)
  <2>1. /\ th[t].pc = "draining" /\ conts' = [conts EXCEPT ![c] = Down] /\ HasEnded(c)
        /\ retiring' = [retiring EXCEPT ![r] = 0]
        /\ UNCHANGED <<installed, registry, serving, creating, posted, stop, events, changes>>
    BY <1>8 DEF Drained
  <2>2. th[t].pc \in InCreation /\ "check" \in InCreation /\ 0 \in Slot
    BY <2>1 DEF InCreation, Slot
  <2>3. /\ r \in Repos /\ ~Collected /\ creating[r] = t /\ th[t].pc # "lock"
        /\ creating' = [creating EXCEPT ![r] = t]
    BY <1>5, <2>1, <2>2
  <2>4. /\ c \in Slots /\ conts[c].context.repo = r /\ serving[r] = 0
        /\ \A s \in Slots : conts[s] # Down /\ conts[s].context.repo = r => s = c
    BY <2>1, <2>2, CreatorFacts
  <2>5. /\ new \in Thread /\ new.pc = "check" /\ new.cont = 0
        /\ new.context = th[t].context /\ new.outer = th[t].outer
    BY <1>1, <2>2, MoveOn
  <2>6. th' = [th EXCEPT ![t] = new]
    BY <1>8 DEF Drained, Onward
  <2> HIDE DEF new
  <2>7. th'[t] = new
    BY <1>1, <2>6 DEF TypeOK
  <2>8. /\ conts'[c] = Down /\ \A s \in Slots : s # c => conts'[s] = conts[s]
        /\ conts' \in [Slots -> Container \cup {Down}]
    BY <1>1, <2>1, <2>4
  <2>9. /\ retiring'[r] = 0 /\ retiring' \in [Repos -> Slot]
        /\ \A q \in Repos : q # r => retiring'[q] = retiring[q]
    BY <1>1, <2>1, <2>2, <2>3
  <2>10. Stage(t)'
    BY <2>1, <2>4, <2>5, <2>7, <2>9 DEF Stage, Repo
  <2>11. \A q \in Repos : q = r => Entry(q)'
    BY <2>1, <2>4, <2>9 DEF Entry
  <2>12. \A s \in Slots : conts'[s] # Down /\ conts'[s].context.repo = r => Known(s)'
    BY <2>4, <2>8
  <2>13. Kept
    BY <2>1, <2>8 DEF Kept
  <2>14. \A s \in Slots : \/ conts'[s] = conts[s]
                          \/ /\ conts[s] = Down \/ conts[s].context.repo = r
                             /\ conts'[s] = Down \/ conts'[s].context.repo = r
    BY <2>4, <2>8
  <2>15. new.pc \in InCreation /\ new.cont = 0
    BY <2>2, <2>5
  <2>16. RegistryTypes' /\ UNCHANGED <<posted, stop, events, changes>>
         /\ serving' \in [Repos -> Slot]
         /\ \A q \in Repos : q # r => serving'[q] = serving[q] /\ retiring'[q] = retiring[q]
    BY <1>1, <1>2, <2>1, <2>9
  <2> HIDE DEF Stage, Entry, Known, Kept, r, c
  <2> QED
    BY <2>2, <2>3, <2>5, <2>6, <2>8, <2>9, <2>10, <2>11, <2>12, <2>13, <2>14, <2>15, <2>16,
       Advance DEF r
<1> QED
  BY <1>4, <1>6, <1>7, <1>8

\* A step within a creation, or the end of one, after which nothing is open of
\* the repository.
LEMMA StillNothing ==
    ASSUME IInv, NEW t \in Threads, th[t].pc \in {"check", "build"},
           UNCHANGED <<installed, conts, serving, retiring, posted, stop, events, changes>>,
           RegistryTypes',
           \/ Go(t, "build") /\ UNCHANGED creating
           \/ EndCreation(t, 0)
    PROVE  IInv'
<1>1. /\ TypeOK /\ th[t] \in Thread /\ conts \in [Slots -> Container \cup {Down}]
      /\ serving \in [Repos -> Slot] /\ retiring \in [Repos -> Slot]
      /\ creating \in [Repos -> Threads \cup {None}]
  BY DEF IInv, TypeOK
<1>2. th[t].pc \in InCreation /\ th[t].pc \notin {"replace", "lock"} /\ "build" \in InCreation
  BY DEF InCreation
<1>3. /\ Repo(t) \in Repos /\ ~Collected /\ creating[Repo(t)] = t
      /\ serving[Repo(t)] = 0 /\ retiring[Repo(t)] = 0
      /\ \A c \in Slots : conts[c] # Down => conts[c].context.repo # Repo(t)
  BY <1>2, CreatorFacts
<1>4. Kept
  BY DEF Kept
<1>5. \A r \in Repos : r = Repo(t) => Entry(r)'
  BY <1>3 DEF Entry
<1>6. \A s \in Slots : conts'[s] # Down /\ conts'[s].context.repo = Repo(t) => Known(s)'
  BY <1>3
<1>7. \A s \in Slots : conts'[s] = conts[s]
  OBVIOUS
<1>8. /\ conts' \in [Slots -> Container \cup {Down}]
      /\ serving' \in [Repos -> Slot] /\ retiring' \in [Repos -> Slot]
      /\ \A q \in Repos : q # Repo(t) => serving'[q] = serving[q] /\ retiring'[q] = retiring[q]
  BY <1>1
<1>9. CASE EndCreation(t, 0)
  <2> HIDE DEF Entry, Known, Kept
  <2> QED
    BY <1>2, <1>4, <1>5, <1>6, <1>7, <1>8, <1>9, EndStep
<1>10. CASE Go(t, "build") /\ UNCHANGED creating
  <2> DEFINE new == Onward(th[t], "build", th[t].cont)
  <2>1. /\ new \in Thread /\ new.pc = "build" /\ new.cont = th[t].cont
        /\ new.context = th[t].context /\ new.outer = th[t].outer
    BY <1>1, <1>2, MoveOn DEF Thread
  <2>2. th' = [th EXCEPT ![t] = new]
    BY <1>1, <1>10, GoOn DEF Go
  <2> HIDE DEF new
  <2>3. th'[t] = new
    BY <1>1, <2>2 DEF TypeOK
  <2>4. Stage(t)'
    BY <1>3, <2>1, <2>3 DEF Stage, Repo
  <2>5. creating' = [creating EXCEPT ![Repo(t)] = t]
    BY <1>1, <1>3, <1>10
  <2> HIDE DEF Stage, Entry, Known, Kept
  <2> QED
    BY <1>2, <1>3, <1>4, <1>5, <1>6, <1>7, <1>8, <2>1, <2>2, <2>4, <2>5, Advance
<1> QED
  BY <1>9, <1>10

\* A creator holds its new container, and publishes it or is about to discard it.
LEMMA Decisions ==
    ASSUME IInv, NEW t \in Threads, th[t].pc \in {"confirm", "publish"},
           UNCHANGED <<installed, conts, serving, creating, posted, stop, events, changes>>,
           RegistryTypes',
           \/ th[t].pc = "confirm" /\ Go(t, "publish") /\ UNCHANGED retiring
           \/ Unpublished(t)
    PROVE  IInv'
<1> DEFINE r == Repo(t)
           c == th[t].cont
           p == IF Unpublished(t) THEN "discard" ELSE "publish"
           new == Onward(th[t], p, c)
<1>1. /\ TypeOK /\ th[t] \in Thread /\ conts \in [Slots -> Container \cup {Down}]
      /\ serving \in [Repos -> Slot] /\ retiring \in [Repos -> Slot]
      /\ creating \in [Repos -> Threads \cup {None}]
  BY DEF IInv, TypeOK
<1>2. th[t].pc \in InCreation /\ th[t].pc \notin {"replace", "lock"} /\ p \in InCreation
      /\ p \in {"publish", "discard"}
  BY DEF InCreation
<1>3. /\ r \in Repos /\ ~Collected /\ creating[r] = t /\ serving[r] = 0
      /\ c \in Slots /\ conts[c] # Down /\ conts[c].context.repo = r
      /\ \A s \in Slots : conts[s] # Down /\ conts[s].context.repo = r => s = c
  BY <1>2, CreatorFacts
<1>4. Unseen(t) /\ (th[t].pc = "confirm" => retiring[r] = 0)
  BY DEF IInv, StageInv, Stage
<1>5. c \in Slot /\ c # 0
  BY <1>3 DEF Slot
<1>6. /\ new \in Thread /\ new.pc = p /\ new.cont = c
      /\ new.context = th[t].context /\ new.outer = th[t].outer
  BY <1>1, <1>2, <1>5, MoveOn
<1>7. th' = [th EXCEPT ![t] = new]
  <2>1. Go(t, p)
    BY DEF Unpublished
  <2> QED
    BY <1>1, <2>1, GoOn DEF Go
<1>8. /\ retiring'[r] = IF p = "discard" THEN c ELSE retiring[r]
      /\ retiring' \in [Repos -> Slot]
      /\ \A q \in Repos : q # r => serving'[q] = serving[q] /\ retiring'[q] = retiring[q]
  BY <1>1, <1>3, <1>5 DEF Unpublished
<1>9. p = "publish" => retiring[r] = 0
  BY <1>4
<1> HIDE DEF new, p
<1>10. th'[t] = new /\ \A x \in Threads : x # t => th'[x] = th[x]
  BY <1>1, <1>7 DEF TypeOK
<1>11. Unseen(t)'
  BY <1>4, <1>5, <1>6, <1>10 DEF Unseen
<1>12. Stage(t)'
  BY <1>2, <1>3, <1>5, <1>6, <1>8, <1>9, <1>10, <1>11 DEF Stage, Repo
<1>13. \A q \in Repos : q = r => Entry(q)'
  BY <1>2, <1>3, <1>5, <1>8, <1>9 DEF Entry, OpenFor
<1>14. \A s \in Slots : conts'[s] # Down /\ conts'[s].context.repo = r => Known(s)'
  <2> SUFFICES ASSUME NEW s \in Slots, conts'[s] # Down, conts'[s].context.repo = r
               PROVE  Known(s)'
    OBVIOUS
  <2>1. s = c
    BY <1>3
  <2>2. CASE p = "discard"
    BY <1>3, <1>8, <2>1, <2>2 DEF Known
  <2>3. CASE p = "publish"
    <3>1. creating'[r] = t /\ t # None /\ th'[t].cont = c /\ th'[t].pc = "publish"
      BY <1>3, <1>6, <1>10, <2>3
    <3> QED
      BY <1>3, <2>1, <3>1 DEF Known
  <2> QED
    BY <1>2, <2>2, <2>3
<1>15. Kept /\ \A s \in Slots : conts'[s] = conts[s]
  BY DEF Kept
<1>16. creating' = [creating EXCEPT ![r] = t]
  BY <1>1, <1>3
<1>17. /\ conts' \in [Slots -> Container \cup {Down}] /\ serving' \in [Repos -> Slot]
       /\ UNCHANGED <<posted, stop, events, changes>>
  BY <1>1
<1> HIDE DEF Stage, Entry, Known, Kept, r, c
<1> QED
  BY <1>2, <1>3, <1>6, <1>7, <1>8, <1>12, <1>13, <1>14, <1>15, <1>16, <1>17, Advance DEF r, c

LEMMA Building ==
    ASSUME IInv, NEW t \in Threads, Build(t)
    PROVE  IInv'
<1> DEFINE r == Repo(t)
           record == [context |-> th[t].context, closed |-> FALSE, failed |-> FALSE]
<1>1. /\ TypeOK /\ th[t] \in Thread /\ conts \in [Slots -> Container \cup {Down}]
      /\ serving \in [Repos -> Slot] /\ retiring \in [Repos -> Slot]
      /\ creating \in [Repos -> Threads \cup {None}]
  BY DEF IInv, TypeOK
<1>2. th[t].pc = "build" /\ th[t].pc \in InCreation /\ "confirm" \in InCreation
  BY DEF Build, InCreation
<1>3. /\ r \in Repos /\ ~Collected /\ creating[r] = t /\ serving[r] = 0 /\ retiring[r] = 0
      /\ th[t].context \in RepositoryContext
      /\ \A s \in Slots : conts[s] # Down => conts[s].context.repo # r
  BY <1>2, CreatorFacts
<1>4. PICK c \in FreeSlots :
          /\ conts' = [conts EXCEPT ![c] = record]
          /\ th' = [th EXCEPT ![t].pc = "confirm", ![t].cont = c]
  BY DEF Build
<1>5. /\ UNCHANGED <<installed, registry, serving, retiring, creating, posted, stop, events, changes>>
  BY DEF Build, manager
<1> DEFINE new == Onward(th[t], "confirm", c)
<1>6. /\ c \in Slots /\ c # 0 /\ c \in Slot /\ conts[c] = Down
      /\ \A x \in Threads : c \notin {th[x].cont, th[x].outer}
  BY <1>4 DEF FreeSlots, Slot
<1>7. /\ record \in Container /\ record.context = th[t].context /\ record # Down
      /\ record.context.repo = r
  BY <1>3 DEF Container, Down, Repo
<1> HIDE DEF record
<1>8. /\ conts'[c] = record /\ \A s \in Slots : s # c => conts'[s] = conts[s]
      /\ conts' \in [Slots -> Container \cup {Down}]
  BY <1>1, <1>4, <1>6, <1>7
<1>9. /\ new \in Thread /\ new.pc = "confirm" /\ new.cont = c
      /\ new.context = th[t].context /\ new.outer = th[t].outer
  BY <1>1, <1>2, <1>6, MoveOn
<1>10. th' = [th EXCEPT ![t] = new]
  BY <1>4 DEF Onward
<1> HIDE DEF new
<1>11. th'[t] = new /\ \A x \in Threads : x # t => th'[x] = th[x]
  BY <1>1, <1>10 DEF TypeOK
<1>12. Unseen(t)'
  BY <1>6, <1>7, <1>8, <1>9, <1>11 DEF Unseen
<1>13. Stage(t)'
  BY <1>3, <1>5, <1>9, <1>11, <1>12 DEF Stage, Repo
<1>14. \A q \in Repos : q = r => Entry(q)'
  BY <1>3, <1>5 DEF Entry
<1>15. \A s \in Slots : conts'[s] # Down /\ conts'[s].context.repo = r => Known(s)'
  <2> SUFFICES ASSUME NEW s \in Slots, conts'[s] # Down, conts'[s].context.repo = r
               PROVE  Known(s)'
    OBVIOUS
  <2>1. s = c
    BY <1>3, <1>8
  <2>2. creating'[r] = t /\ t # None /\ th'[t].cont = c /\ th'[t].pc = "confirm"
    BY <1>3, <1>5, <1>9, <1>11
  <2> QED
    BY <2>1, <2>2 DEF Known
<1>16. Kept
  BY <1>6, <1>8 DEF Kept
<1>17. \A s \in Slots : \/ conts'[s] = conts[s]
                        \/ /\ conts[s] = Down \/ conts[s].context.repo = r
                           /\ conts'[s] = Down \/ conts'[s].context.repo = r
  BY <1>6, <1>7, <1>8
<1>18. creating' = [creating EXCEPT ![r] = t]
  BY <1>1, <1>3, <1>5
<1>19. /\ RegistryTypes' /\ serving' \in [Repos -> Slot] /\ retiring' \in [Repos -> Slot]
       /\ \A q \in Repos : q # r => serving'[q] = serving[q] /\ retiring'[q] = retiring[q]
       /\ UNCHANGED <<posted, stop, events, changes>>
  BY <1>1, <1>5 DEF TypeOK, RegistryTypes, registry
<1>20. new.cont \in {0, th[t].cont} \cup FreeSlots /\ new.pc \in InCreation /\ th[t].pc # "lock"
  BY <1>2, <1>4, <1>9
<1> HIDE DEF Stage, Entry, Known, Kept, r
<1> QED
  BY <1>2, <1>3, <1>8, <1>9, <1>10, <1>13, <1>14, <1>15, <1>16, <1>17, <1>18, <1>19, <1>20,
     Advance DEF r

LEMMA CreationFrame ==
    ASSUME IInv, NEW t \in Threads, th[t].pc # "idle", NEW ok, UNCHANGED installed,
           RequireCurrent(th[t].context, ok)
    PROVE  RegistryTypes'
<1>1. th[t].context \in RepositoryContext
  BY DEF IInv, ThreadInv, Sound, SoundIn
<1> QED
  BY <1>1, RequireTypes DEF IInv, TypeOK

LEMMA Constructions ==
    ASSUME IInv, NEW t \in Threads, Check(t) \/ BuildFails(t) \/ Confirm(t) \/ PublishTooLate(t)
    PROVE  IInv'
<1>1. UNCHANGED <<installed, registry>> => RegistryTypes'
  BY DEF IInv, TypeOK, RegistryTypes, registry
<1>2. CASE Check(t)
  <2>1. PICK ok \in BOOLEAN :
            /\ RequireCurrent(th[t].context, ok)
            /\ IF ok THEN Go(t, "build") /\ UNCHANGED creating ELSE EndCreation(t, 0)
    BY <1>2 DEF Check
  <2>2. th[t].pc = "check"
        /\ UNCHANGED <<installed, conts, serving, retiring, posted, stop, events, changes>>
    BY <1>2 DEF Check
  <2>3. RegistryTypes'
    BY <2>1, <2>2, CreationFrame
  <2> QED
    BY <2>1, <2>2, <2>3, StillNothing
<1>3. CASE BuildFails(t)
  <2>1. th[t].pc = "build" /\ EndCreation(t, 0)
        /\ UNCHANGED <<installed, registry, conts, serving, retiring, posted, stop, events, changes>>
    BY <1>3 DEF BuildFails
  <2> QED
    BY <1>1, <2>1, StillNothing
<1>4. CASE Confirm(t)
  <2>1. PICK ok \in BOOLEAN :
            /\ RequireCurrent(th[t].context, ok)
            /\ IF ok THEN Go(t, "publish") /\ UNCHANGED retiring ELSE Unpublished(t)
    BY <1>4 DEF Confirm
  <2>2. th[t].pc = "confirm"
        /\ UNCHANGED <<installed, conts, serving, creating, posted, stop, events, changes>>
    BY <1>4 DEF Confirm
  <2>3. RegistryTypes'
    BY <2>1, <2>2, CreationFrame
  <2> QED
    BY <2>1, <2>2, <2>3, Decisions
<1>5. CASE PublishTooLate(t)
  <2>1. th[t].pc = "publish" /\ Unpublished(t)
        /\ UNCHANGED <<installed, registry, conts, serving, creating, posted, stop, events, changes>>
    BY <1>5 DEF PublishTooLate
  <2> QED
    BY <1>1, <2>1, Decisions
<1> QED
  BY <1>2, <1>3, <1>4, <1>5

\* A creation ends, and leaves of its container what the slot says.
LEMMA Completion ==
    ASSUME IInv, NEW t \in Threads, th[t].pc \in {"drain", "draining", "publish", "discard"},
           NEW k \in {0, th[t].cont}, EndCreation(t, k),
           UNCHANGED <<installed, registry, posted, stop, events, changes>>,
           NEW slot \in Container \cup {Down}, conts' = [conts EXCEPT ![th[t].cont] = slot],
           slot = Down => HasEnded(th[t].cont) /\ k = 0,
           slot # Down => slot.context = conts[th[t].cont].context,
           k # 0 => slot.context = th[t].context,
           serving' = [serving EXCEPT ![Repo(t)] = k],
           retiring' = [retiring EXCEPT ![Repo(t)] =
                            IF slot = Down \/ k # 0 THEN 0 ELSE th[t].cont]
    PROVE  IInv'
<1> DEFINE r == Repo(t)
           c == th[t].cont
           rest == IF slot = Down \/ k # 0 THEN 0 ELSE c
<1>1. /\ TypeOK /\ th[t] \in Thread /\ conts \in [Slots -> Container \cup {Down}]
      /\ serving \in [Repos -> Slot] /\ retiring \in [Repos -> Slot]
  BY DEF IInv, TypeOK
<1>2. th[t].pc \in InCreation /\ th[t].pc # "replace"
  BY DEF InCreation
<1>3. /\ r \in Repos /\ ~Collected /\ creating[r] = t /\ serving[r] = 0
      /\ c \in Slots /\ conts[c] # Down /\ conts[c].context.repo = r
      /\ \A s \in Slots : conts[s] # Down /\ conts[s].context.repo = r => s = c
  BY <1>2, CreatorFacts
<1>4. c \in Slot /\ c # 0 /\ k \in Slot /\ rest \in Slot
  BY <1>3 DEF Slot
<1>5. /\ conts'[c] = slot /\ \A s \in Slots : s # c => conts'[s] = conts[s]
      /\ conts' \in [Slots -> Container \cup {Down}]
  BY <1>1, <1>3
<1>6. /\ serving'[r] = k /\ retiring'[r] = rest
      /\ serving' \in [Repos -> Slot] /\ retiring' \in [Repos -> Slot]
      /\ \A q \in Repos : q # r => serving'[q] = serving[q] /\ retiring'[q] = retiring[q]
  BY <1>1, <1>3, <1>4
<1>7. slot # Down => slot.context.repo = r
  BY <1>3
<1>8. Kept
  BY <1>3, <1>5 DEF Kept
<1>9. \A q \in Repos : q = r => Entry(q)'
  BY <1>3, <1>4, <1>5, <1>6, <1>7 DEF Entry, OpenFor
<1>10. \A s \in Slots : conts'[s] # Down /\ conts'[s].context.repo = r => Known(s)'
  <2> SUFFICES ASSUME NEW s \in Slots, conts'[s] # Down, conts'[s].context.repo = r
               PROVE  Known(s)'
    OBVIOUS
  <2>1. s = c
    BY <1>3, <1>5
  <2>2. slot # Down
    BY <1>5, <2>1
  <2> QED
    BY <1>6, <2>1, <2>2 DEF Known
<1>11. \A s \in Slots : \/ conts'[s] = conts[s]
                        \/ /\ conts[s] = Down \/ conts[s].context.repo = r
                           /\ conts'[s] = Down \/ conts'[s].context.repo = r
  BY <1>3, <1>5, <1>7
<1>12. k # 0 => conts'[k].context = th[t].context
  BY <1>5
<1>13. RegistryTypes' /\ UNCHANGED <<posted, stop, events, changes>>
  BY <1>1 DEF TypeOK, RegistryTypes, registry
<1> HIDE DEF Stage, Entry, Known, Kept, r, rest
<1> QED
  BY <1>2, <1>5, <1>6, <1>8, <1>9, <1>10, <1>11, <1>12, <1>13, EndStep, ZenonT(60) DEF r

LEMMA Completions ==
    ASSUME IInv, NEW t \in Threads, DrainFails(t) \/ Publish(t) \/ Discard(t)
    PROVE  IInv'
<1> DEFINE r == Repo(t)
           c == th[t].cont
<1>1. /\ TypeOK /\ th[t] \in Thread /\ conts \in [Slots -> Container \cup {Down}]
      /\ serving \in [Repos -> Slot] /\ retiring \in [Repos -> Slot]
      /\ th[t].pc \in {"drain", "draining", "publish", "discard"}
      /\ UNCHANGED <<installed, registry, posted, stop, events, changes>>
  BY DEF IInv, TypeOK, DrainFails, Publish, Discard
<1>2. th[t].pc \in InCreation /\ th[t].pc # "replace"
  BY <1>1 DEF InCreation
<1>3. /\ r \in Repos /\ serving[r] = 0 /\ c \in Slots /\ conts[c] \in Container /\ conts[c] # Down
      /\ conts[c].context \in RepositoryContext
  BY <1>1, <1>2, CreatorFacts
<1>4. c # 0 /\ serving = [serving EXCEPT ![r] = 0] /\ conts = [conts EXCEPT ![c] = conts[c]]
  BY <1>1, <1>3
<1>5. retiring = [retiring EXCEPT ![r] = retiring[r]]
  BY <1>1, <1>3
<1>6. th[t].pc \in {"drain", "draining", "discard"} => retiring[r] = c
  BY DEF IInv, StageInv, Stage
<1>7. CASE DrainFails(t)
  <2>1. EndCreation(t, 0) /\ UNCHANGED <<serving, retiring>> /\ th[t].pc \in {"drain", "draining"}
    BY <1>7 DEF DrainFails
  <2>2. CASE conts' = [conts EXCEPT ![c].failed = TRUE]
    <3> DEFINE slot == [conts[c] EXCEPT !.failed = TRUE]
    <3>1. slot \in Container /\ slot.context = conts[c].context
      BY <1>3 DEF Container
    <3>2. slot # Down
      BY <1>3, <3>1 DEF Down
    <3>3. conts' = [conts EXCEPT ![c] = slot]
      BY <2>2
    <3> HIDE DEF slot
    <3> QED
      BY <1>1, <1>4, <1>5, <1>6, <2>1, <3>1, <3>2, <3>3, Completion
  <2>3. CASE UNCHANGED conts
    BY <1>1, <1>3, <1>4, <1>5, <1>6, <2>1, <2>3, Completion
  <2> QED
    BY <1>7, <2>2, <2>3 DEF DrainFails
<1>8. CASE Publish(t)
  <2>1. /\ th[t].pc = "publish" /\ EndCreation(t, c) /\ UNCHANGED <<conts, retiring>>
        /\ serving' = [serving EXCEPT ![r] = c]
    BY <1>8 DEF Publish
  <2>2. retiring[r] = 0 /\ conts[c].context = th[t].context
    BY <2>1 DEF IInv, StageInv, Stage, Unseen
  <2> QED
    BY <1>1, <1>3, <1>4, <1>5, <2>1, <2>2, Completion
<1>9. CASE Discard(t)
  <2>1. th[t].pc = "discard" /\ EndCreation(t, 0) /\ UNCHANGED serving
    BY <1>9 DEF Discard
  <2>2. CASE conts' = [conts EXCEPT ![c] = Down] /\ retiring' = [retiring EXCEPT ![r] = 0]
    <3>1. Unseen(t)
      BY <2>1 DEF IInv, StageInv, Stage
    <3>2. HasEnded(c)
      BY <2>1, <3>1 DEF HasEnded, Operations, Unseen, InOperation
    <3> QED
      BY <1>1, <1>4, <2>1, <2>2, <3>2, Completion
  <2>3. CASE /\ conts' = [conts EXCEPT ![c].closed = TRUE, ![c].failed = TRUE]
             /\ UNCHANGED retiring
    <3> DEFINE slot == [conts[c] EXCEPT !.closed = TRUE, !.failed = TRUE]
    <3>1. slot \in Container /\ slot.context = conts[c].context
      BY <1>3 DEF Container
    <3>2. slot # Down
      BY <1>3, <3>1 DEF Down
    <3>3. conts' = [conts EXCEPT ![c] = slot]
      BY <1>1, <1>3, <2>3
    <3> HIDE DEF slot
    <3> QED
      BY <1>1, <1>4, <1>5, <1>6, <2>1, <2>3, <3>1, <3>2, <3>3, Completion
  <2> QED
    BY <1>9, <2>2, <2>3 DEF Discard
<1> QED
  BY <1>7, <1>8, <1>9

-------------------------------------------------------------------------------
\* The shutdown: once it has collected nobody creates, and stores only close.
LEMMA NobodyCreates ==
    ASSUME IInv, \A r \in Repos : creating[r] = None
    PROVE  \A t \in Threads : th[t].pc \notin InCreation
<1> SUFFICES ASSUME NEW t \in Threads, th[t].pc \in InCreation PROVE FALSE
  OBVIOUS
<1>1. creating[Repo(t)] = t /\ Repo(t) \in Repos
  BY CreatorFacts
<1> QED
  BY <1>1

LEMMA Shutdown ==
    ASSUME IInv, TypeOK', StopInv', \A r \in Repos : creating[r] = None, Collected',
           UNCHANGED <<th, retiring, creating>>, \A r \in Repos : serving'[r] = 0, Kept,
           \A c \in Slots : conts'[c] # Down =>
               /\ conts[c] # Down /\ conts'[c].context = conts[c].context
               /\ c \in stop'.left
    PROVE  IInv'
<1>1. ThreadInv'
  BY SoundKept DEF ThreadInv, Sound
<1>2. \A t \in Threads : th[t].pc \notin InCreation
  BY NobodyCreates
<1>3. CreatorInv' /\ StageInv'
  BY <1>2 DEF CreatorInv, StageInv, Stage, InCreation
<1>4. DictionaryInv' /\ OpenInv' /\ OneStore'
  BY DEF IInv, DictionaryInv, Entry, OpenInv, OneStore, Collected
<1> QED
  BY <1>1, <1>3, <1>4 DEF IInv

LEMMA Stops ==
    ASSUME IInv, StopBegin \/ Stop
    PROVE  IInv'
<1>1. /\ TypeOK /\ RegistryTypes /\ conts \in [Slots -> Container \cup {Down}]
      /\ serving \in [Repos -> Slot] /\ retiring \in [Repos -> Slot]
      /\ stop.left \subseteq Slots /\ stop.cont \in Slot
      /\ stop \in [pc : {"no", "waiting", "closing", "draining", "released", "failed"},
                   left : SUBSET Slots, cont : Slot]
  BY DEF IInv, TypeOK
<1>2. UNCHANGED <<installed, registry>> => RegistryTypes'
  BY <1>1 DEF RegistryTypes, registry
<1>3. Collected => /\ \A r \in Repos : serving[r] = 0 /\ creating[r] = None
                   /\ \A c \in stop.left : conts[c] # Down
  BY DEF IInv, StopInv
<1>4. ASSUME Collected, NEW c \in stop.left
      PROVE  /\ c \in Slots /\ c \in Slot /\ conts[c] # Down /\ conts[c] \in Container
             /\ conts[c].context \in RepositoryContext
  BY <1>1, <1>3, <1>4, OpenContainer DEF Slot
<1>5. CASE StopBegin
  <2>1. /\ stop.pc = "no" /\ stop' = [stop EXCEPT !.pc = "waiting"]
        /\ UNCHANGED <<installed, registry, conts, serving, retiring, creating, th, posted, events, changes>>
    BY <1>5 DEF StopBegin, manager
  <2>2. stop'.pc = "waiting" /\ stop' \in [pc : {"no", "waiting", "closing", "draining", "released", "failed"},
                                           left : SUBSET Slots, cont : Slot]
    BY <1>1, <2>1
  <2>3. TypeOK'
    BY <1>1, <1>2, <2>1, <2>2 DEF TypeOK
  <2>4. ~Collected /\ ~Collected'
    BY <2>1, <2>2 DEF Collected
  <2>5. /\ ThreadInv' /\ CreatorInv' /\ StageInv' /\ OneStore'
    BY <2>1 DEF IInv, ThreadInv, Sound, SoundIn, CreatorInv, Repo, StageInv, Stage, Unseen, OneStore
  <2>6. DictionaryInv' /\ OpenInv'
    BY <2>1, <2>4 DEF IInv, DictionaryInv, Entry, OpenFor, OpenInv, Known
  <2>7. StopInv'
    BY <2>2, <2>4 DEF StopInv
  <2> QED
    BY <2>3, <2>5, <2>6, <2>7 DEF IInv
<1>6. CASE StopCollect
  <2> DEFINE held == ({serving[r] : r \in Repos} \cup {retiring[r] : r \in Repos}) \ {0}
  <2>1. /\ stop.pc = "waiting" /\ \A r \in Repos : creating[r] = None
        /\ stop' = [stop EXCEPT !.pc = "closing", !.left = held]
        /\ serving' = [r \in Repos |-> 0]
        /\ UNCHANGED <<installed, registry, conts, retiring, creating, th, posted, events, changes>>
    BY <1>6 DEF StopCollect, AllCreated
  <2>2. held \subseteq Slots
    BY <1>1 DEF Slot
  <2> HIDE DEF held
  <2>3. stop'.pc = "closing" /\ stop'.left = held
        /\ stop' \in [pc : {"no", "waiting", "closing", "draining", "released", "failed"},
                      left : SUBSET Slots, cont : Slot]
    BY <1>1, <2>1, <2>2
  <2>4. TypeOK'
    BY <1>1, <1>2, <2>1, <2>3 DEF TypeOK, Slot
  <2>5. ~Collected /\ Collected'
    BY <2>1, <2>3 DEF Collected
  <2>6. StopInv'
    <3>1. \A c \in held : conts[c] # Down
      BY <2>5 DEF held, IInv, DictionaryInv, Entry, OpenFor
    <3> QED
      BY <2>1, <2>3, <3>1 DEF StopInv
  <2>7. ASSUME NEW c \in Slots, conts[c] # Down PROVE c \in held
    <3>1. Known(c)
      BY <2>5, <2>7 DEF IInv, OpenInv
    <3>2. conts[c].context.repo \in Repos /\ c # 0
      BY <1>1, <2>7, OpenContainer DEF Slot
    <3> QED
      BY <2>1, <3>1, <3>2 DEF Known, held
  <2>8. Kept
    BY <2>1 DEF Kept
  <2> HIDE DEF Kept, StopInv
  <2> QED
    BY <2>1, <2>3, <2>4, <2>5, <2>6, <2>7, <2>8, Shutdown
<1>7. CASE StopClose
  <2>1. /\ stop.pc = "closing"
        /\ UNCHANGED <<installed, registry, serving, retiring, creating, th, posted, events, changes>>
    BY <1>7 DEF StopClose, manager
  <2>2. PICK c \in stop.left :
           \/ /\ conts' = [conts EXCEPT ![c].closed = TRUE]
              /\ stop' = [stop EXCEPT !.pc = "draining", !.cont = c]
           \/ /\ stop' = [stop EXCEPT !.pc = "failed"]
              /\ UNCHANGED conts
    BY <1>7 DEF StopClose
  <2>3. /\ c \in Slots /\ c \in Slot /\ conts[c] # Down /\ conts[c] \in Container
        /\ conts[c].context \in RepositoryContext
    BY <1>4, <2>1, <2>2 DEF Collected
  <2>4. /\ stop'.pc \in {"draining", "failed"} /\ stop'.left = stop.left
        /\ stop'.pc = "draining" => stop'.cont = c
        /\ stop' \in [pc : {"no", "waiting", "closing", "draining", "released", "failed"},
                      left : SUBSET Slots, cont : Slot]
    BY <1>1, <2>2, <2>3
  <2>5. Collected /\ Collected'
    BY <2>1, <2>4 DEF Collected
  <2>7. /\ conts' \in [Slots -> Container \cup {Down}]
        /\ \A s \in Slots : conts'[s] = conts[s] \/ (conts'[s] # Down /\ conts[s] # Down
                                                     /\ conts'[s].context = conts[s].context)
    <3>1. CASE UNCHANGED conts
      BY <1>1, <3>1
    <3>2. CASE conts' = [conts EXCEPT ![c].closed = TRUE]
      <4> DEFINE slot == [conts[c] EXCEPT !.closed = TRUE]
      <4>1. slot \in Container /\ slot.context = conts[c].context
        BY <2>3 DEF Container
      <4>2. conts' = [conts EXCEPT ![c] = slot]
        BY <3>2
      <4> HIDE DEF slot
      <4>3. slot # Down
        BY <2>3, <4>1 DEF Down
      <4> QED
        BY <1>1, <2>3, <4>1, <4>2, <4>3
    <3> QED
      BY <2>2, <3>1, <3>2
  <2>6. StopInv'
    BY <1>1, <1>3, <2>1, <2>2, <2>4, <2>5, <2>7 DEF StopInv
  <2>8. TypeOK'
    BY <1>1, <1>2, <2>1, <2>4, <2>7 DEF TypeOK
  <2>9. Kept
    BY <2>7 DEF Kept
  <2>10. \A s \in Slots : conts[s] # Down => s \in stop.left
    BY <2>5 DEF IInv, OpenInv
  <2> HIDE DEF Kept, StopInv
  <2> QED
    BY <1>3, <2>1, <2>4, <2>5, <2>6, <2>7, <2>8, <2>9, <2>10, Shutdown
<1>8. CASE StopDrained
  <2> DEFINE c == stop.cont
  <2>1. /\ stop.pc = "draining" /\ HasEnded(c)
        /\ UNCHANGED <<installed, registry, serving, retiring, creating, th, posted, events, changes>>
    BY <1>8 DEF StopDrained, manager
  <2>2. Collected /\ c \in stop.left
    BY <2>1 DEF Collected, IInv, StopInv
  <2>3. /\ c \in Slots /\ conts[c] # Down /\ conts[c] \in Container
        /\ conts[c].context \in RepositoryContext
        /\ \A s \in Slots : conts[s] # Down => s \in stop.left
    BY <1>4, <2>2 DEF IInv, OpenInv
  <2>4. CASE /\ conts' = [conts EXCEPT ![c] = Down]
             /\ stop' = [pc |-> "closing", left |-> stop.left \ {c}, cont |-> 0]
    <3>1. /\ conts'[c] = Down /\ \A s \in Slots : s # c => conts'[s] = conts[s]
          /\ conts' \in [Slots -> Container \cup {Down}]
      BY <1>1, <2>3, <2>4
    <3>2. stop'.pc = "closing" /\ stop'.left = stop.left \ {c}
          /\ stop' \in [pc : {"no", "waiting", "closing", "draining", "released", "failed"},
                        left : SUBSET Slots, cont : Slot]
      BY <1>1, <2>4 DEF Slot
    <3>3. Collected' /\ StopInv'
      BY <1>3, <2>1, <2>2, <3>1, <3>2 DEF Collected, StopInv
    <3>4. TypeOK'
      BY <1>1, <1>2, <2>1, <3>1, <3>2 DEF TypeOK
    <3>5. Kept
      BY <2>1, <3>1 DEF Kept
    <3> HIDE DEF Kept, StopInv, Collected
    <3> QED
      BY <1>3, <2>1, <2>2, <2>3, <3>1, <3>2, <3>3, <3>4, <3>5, Shutdown
  <2>5. CASE /\ conts' = [conts EXCEPT ![c].failed = TRUE]
             /\ stop' = [stop EXCEPT !.pc = "failed"]
    <3> DEFINE slot == [conts[c] EXCEPT !.failed = TRUE]
    <3>1. conts' = [conts EXCEPT ![c] = slot]
      BY <2>5
    <3>2. slot \in Container /\ slot.context = conts[c].context
      BY <2>3 DEF Container
    <3> HIDE DEF slot
    <3>3. slot # Down
      BY <2>3, <3>2 DEF Down
    <3>4. /\ conts'[c] = slot /\ \A s \in Slots : s # c => conts'[s] = conts[s]
          /\ conts' \in [Slots -> Container \cup {Down}]
      BY <1>1, <2>3, <3>1, <3>2
    <3>5. stop'.pc = "failed" /\ stop'.left = stop.left
          /\ stop' \in [pc : {"no", "waiting", "closing", "draining", "released", "failed"},
                        left : SUBSET Slots, cont : Slot]
      BY <1>1, <2>5
    <3>6. Collected' /\ StopInv'
      BY <1>1, <1>3, <2>1, <2>2, <3>3, <3>4, <3>5 DEF Collected, StopInv
    <3>7. TypeOK'
      BY <1>1, <1>2, <2>1, <3>4, <3>5 DEF TypeOK
    <3>8. Kept
      BY <3>2, <3>3, <3>4 DEF Kept
    <3> HIDE DEF Kept, StopInv, Collected
    <3> QED
      BY <1>3, <2>1, <2>2, <2>3, <3>2, <3>4, <3>5, <3>6, <3>7, <3>8, Shutdown
  <2> QED
    BY <1>8, <2>4, <2>5 DEF StopDrained
<1>9. CASE StopRelease
  <2>1. /\ stop.pc = "closing" /\ stop.left = {} /\ stop' = [stop EXCEPT !.pc = "released"]
        /\ cache' = [r \in Repos |-> None] /\ denied' = {}
        /\ UNCHANGED <<installed, row, conts, serving, retiring, creating, th, posted, events, changes>>
    BY <1>9 DEF StopRelease, manager
  <2>2. RegistryTypes'
    BY <1>1, <2>1 DEF RegistryTypes
  <2>3. stop'.pc = "released" /\ stop'.left = {}
        /\ stop' \in [pc : {"no", "waiting", "closing", "draining", "released", "failed"},
                      left : SUBSET Slots, cont : Slot]
    BY <1>1, <2>1
  <2>4. TypeOK'
    BY <1>1, <2>1, <2>2, <2>3 DEF TypeOK
  <2>5. Collected /\ Collected' /\ StopInv'
    BY <1>3, <2>1, <2>3 DEF Collected, StopInv
  <2>6. \A s \in Slots : conts[s] = Down
    BY <2>1, <2>5 DEF IInv, OpenInv
  <2>7. Kept
    BY <2>1 DEF Kept
  <2> HIDE DEF Kept, StopInv, Collected
  <2> QED
    BY <1>3, <2>1, <2>4, <2>5, <2>6, <2>7, Shutdown
<1> QED
  BY <1>5, <1>6, <1>7, <1>8, <1>9 DEF Stop

-------------------------------------------------------------------------------
LEMMA Surroundings ==
    ASSUME IInv, NEW r \in Repos, Reinstall(r) \/ Forget(r)
    PROVE  IInv'
<1>1. TypeOK /\ RegistryTypes
  BY DEF IInv, TypeOK
<1>2. CASE Reinstall(r)
  <2>1. PICK i \in Installations \cup {None} :
            /\ installed' = [installed EXCEPT ![r] = i]
            /\ events' = IF i = None THEN events ELSE events \cup {<<r, NameOf[i]>>}
    BY <1>2 DEF Reinstall
  <2>2. RegistryTypes'
    BY <1>1, <1>2, <2>1 DEF Reinstall, RegistryTypes, registry
  <2>3. events' \subseteq Repos \X Names
    BY <1>1, <2>1 DEF TypeOK
  <2>4. Frame /\ UNCHANGED th
    BY <1>1, <1>2, <2>2, <2>3 DEF Reinstall, Frame, TypeOK
  <2> QED
    BY <2>4, Elsewhere
<1>3. CASE Forget(r)
  <2>1. RegistryTypes'
    BY <1>1, <1>3 DEF Forget, Expire, RegistryTypes
  <2>2. Frame /\ UNCHANGED th
    BY <1>1, <1>3, <2>1 DEF Forget, Frame, TypeOK
  <2> QED
    BY <2>2, Elsewhere
<1> QED
  BY <1>2, <1>3

\* The gateway starts without containers.
LEMMA Starts ==
    ASSUME Init
    PROVE  IInv
<1>1. Idle \in Thread /\ Idle.pc = "idle" /\ Idle.outer = 0 /\ Idle.cont = 0
  BY DEF Idle, Thread, Slot
<1>2. RegistryTypes
  BY DEF Init, RegistryInit, RegistryTypes
<1>3. TypeOK
  <2>1. events \subseteq Repos \X Names
    BY DEF Init, RegistryInit
  <2>2. Idle \in Thread /\ 0 \in Slot /\ {} \subseteq Slots
    BY <1>1 DEF Slot
  <2>3. stop \in [pc : {"no", "waiting", "closing", "draining", "released", "failed"},
                  left : SUBSET Slots, cont : Slot]
    BY <2>2 DEF Init
  <2> QED
    BY <1>2, <2>1, <2>2, <2>3 DEF Init, TypeOK
<1>4. \A t \in Threads : th[t] = Idle
  BY DEF Init
<1>5. \A c \in Slots : conts[c] = Down
  BY DEF Init
<1>6. ThreadInv /\ CreatorInv /\ StageInv
  BY <1>1, <1>4 DEF Init, ThreadInv, Sound, SoundIn, InOperation, CreatorInv, InCreation, StageInv, Stage
<1>7. DictionaryInv /\ OpenInv /\ StopInv /\ OneStore
  BY <1>5 DEF Init, DictionaryInv, Entry, OpenInv, StopInv, Collected, OneStore
<1> QED
  BY <1>3, <1>6, <1>7 DEF IInv

LEMMA Inductive ==
    ASSUME IInv, [Next]_vars
    PROVE  IInv'
<1>1. ASSUME NEW t \in Threads, Arrive(t) PROVE IInv'
  BY <1>1, Arrivals
<1>2. ASSUME NEW t \in Threads, Step(t) PROVE IInv'
  <2>1. CASE Lookup(t)
    BY <2>1, Lookups, Replacements DEF Lookup
  <2>2. CASE Create(t)
    BY <2>2, Replacements, Building, Constructions, Completions DEF Create
  <2>3. CASE Operate(t)
    BY <2>3, OperationSteps
  <2> QED
    BY <1>2, <2>1, <2>2, <2>3 DEF Step
<1>3. CASE StopBegin \/ Stop
  BY <1>3, Stops
<1>4. ASSUME NEW r \in Repos, Reinstall(r) \/ Forget(r) PROVE IInv'
  BY <1>4, Surroundings
<1>5. CASE UNCHANGED vars
  <2>1. /\ UNCHANGED <<installed, registry, conts, manager, th, posted, stop, events, changes>>
    BY <1>5 DEF vars
  <2>2. posted \in [Repos -> Nat]
    BY DEF IInv, TypeOK
  <2>3. Frame
    BY <2>1, <2>2, QuietFrame
  <2> QED
    BY <2>1, <2>3, Elsewhere
<1> QED
  BY <1>1, <1>2, <1>3, <1>4, <1>5 DEF Next

LEMMA Invariant == Spec => []IInv
<1>1. Init => IInv
  BY Starts
<1>2. IInv /\ [Next]_vars => IInv'
  BY Inductive
<1> QED
  BY <1>1, <1>2, PTL DEF Spec

-------------------------------------------------------------------------------
\* Every variable keeps its type.
THEOREM TypeCorrect == Spec => []TypeOK
<1>1. IInv => TypeOK
  BY DEF IInv
<1> QED
  BY <1>1, Invariant, PTL

\* At most one container of a repository has its store open, in whatever order
\* requests, changes of the registration, failures and the shutdown come.
THEOREM OneStoreOnly == Spec => []OneStore
<1>1. IInv => OneStore
  BY DEF IInv
<1> QED
  BY <1>1, Invariant, PTL

\* A container that is shut down has waited for the operations it was asked for,
\* the ones a request has left behind to read a peer among them.
THEOREM StoresKept == Spec => []OperationsKeepStores
<1>1. IInv => OperationsKeepStores
  <2> SUFFICES ASSUME IInv, NEW c \in Slots, NEW t \in Threads,
                      (th[t].cont = c /\ th[t].pc \in InOperation) \/ th[t].outer = c
               PROVE  conts[c] # Down
    BY DEF OperationsKeepStores, Operations
  <2>1. Sound(th[t]) /\ c # 0
    BY DEF IInv, ThreadInv
  <2> QED
    BY <2>1 DEF Sound, SoundIn
<1> QED
  BY <1>1, Invariant, PTL

\* The lock of the data directory is not released before every store is closed.
THEOREM Released == Spec => []ReleasedIsClosed
<1>1. IInv => ReleasedIsClosed
  BY DEF IInv, OpenInv, StopInv, Collected, ReleasedIsClosed
<1> QED
  BY <1>1, Invariant, PTL

-------------------------------------------------------------------------------
\* Generations: none is used twice, and they publish in order.

\* The generation of a repository's registration.
Gen(rows, r) == IF rows[r] = None THEN 0 ELSE rows[r].generation

\* What may still publish in this context is not older than what has.
InOrder(context, done, rows) ==
    done[context.repo] <= context.generation /\ context.generation <= Gen(rows, context.repo)

OrderInv ==
    /\ \A r \in Repos : posted[r] <= Gen(row, r)
    /\ \A c \in Slots : conts[c] # Down => InOrder(conts[c].context, posted, row)
    /\ \A t \in Threads : th[t].pc = "build" => InOrder(th[t].context, posted, row)

\* A row changes its installation only with its generation, which never goes back,
\* and the cache is given what the row has.
SameOrNewer(q) ==
    /\ Gen(row, q) <= Gen(row', q)
    /\ row[q] # None =>
           /\ row'[q] # None
           /\ row'[q].generation = row[q].generation => row'[q].installation = row[q].installation
    /\ \/ cache'[q] \in {None, cache[q]}
       \/ row'[q] # None /\ cache'[q] = Context(q, row'[q])
Ascending == \A q \in Repos : SameOrNewer(q)

-------------------------------------------------------------------------------
\* No call of the registry takes a generation back.
LEMMA GenTypes ==
    ASSUME RegistryTypes, NEW r \in Repos
    PROVE  Gen(row, r) \in Nat
BY DEF RegistryTypes, Gen, Row

LEMMA ActivationAscends ==
    ASSUME RegistryTypes, NEW r \in Repos, installed[r] # None, Activate(r)
    PROVE  Ascending /\ row'[r] # None /\ row'[r].generation = cache'[r].generation
<1> DEFINE changed == row[r].installation # installed[r] \/ ~row[r].active
           record == IF row[r] = None
                     THEN [generation |-> 1, installation |-> installed[r], active |-> TRUE]
                     ELSE [generation |-> row[r].generation + (IF changed THEN 1 ELSE 0),
                           installation |-> installed[r], active |-> TRUE]
<1>1. record \in Row /\ record # None
  <2>1. record \in Row
    BY DEF RegistryTypes, Row
  <2> HIDE DEF record
  <2> QED
    BY <2>1
<1>2. Gen(row, r) <= record.generation
      /\ (row[r] # None => (record.generation = row[r].generation => record.installation = row[r].installation))
  BY DEF RegistryTypes, Row, Gen
<1>3. Context(r, record).generation = record.generation
  BY DEF Context
<1>4. row' = [row EXCEPT ![r] = record] /\ cache' = [cache EXCEPT ![r] = Context(r, record)]
  BY DEF Activate
<1> HIDE DEF record
<1>5. row'[r] = record /\ cache'[r] = Context(r, record) /\ \A q \in Repos : q # r => row'[q] = row[q] /\ cache'[q] = cache[q]
  BY <1>4 DEF RegistryTypes
<1>6. ASSUME NEW q \in Repos PROVE SameOrNewer(q)
  <2>1. Gen(row, q) \in Nat
    BY GenTypes
  <2>2. CASE q = r
    BY <1>1, <1>2, <1>5, <2>2 DEF SameOrNewer, Gen
  <2>3. CASE q # r
    BY <1>5, <2>1, <2>3 DEF SameOrNewer, Gen
  <2> QED
    BY <2>2, <2>3
<1> QED
  BY <1>1, <1>3, <1>5, <1>6 DEF Ascending

LEMMA NoChangeAscends ==
    ASSUME RegistryTypes, UNCHANGED row, \A q \in Repos : cache'[q] \in {None, cache[q]}
    PROVE  Ascending
BY GenTypes DEF Ascending, SameOrNewer, Gen

LEMMA RetirementAscends ==
    ASSUME RegistryTypes, NEW r \in Repos, Retire(r)
    PROVE  Ascending
<1> \A q \in Repos : cache'[q] \in {None, cache[q]}
  BY DEF RegistryTypes, Retire
<1>1. CASE Stored(r) = None
  BY <1>1, NoChangeAscends DEF Retire
<1>2. CASE Stored(r) # None
  <2> DEFINE record == [row[r] EXCEPT !.active = FALSE, !.generation = @ + 1]
  <2>1. row[r] \in Row /\ row[r] # None
    BY <1>2 DEF Stored, RegistryTypes
  <2>2. row'[r] = record /\ \A q \in Repos : q # r => row'[q] = row[q]
    BY <1>2 DEF Retire, RegistryTypes
  <2>3. record.generation = row[r].generation + 1 /\ record \in Row
    <3> DEFINE one == [row[r] EXCEPT !.active = FALSE]
    <3>1. one \in Row /\ one.generation = row[r].generation
      BY <2>1 DEF Row
    <3> HIDE DEF one
    <3>2. /\ [one EXCEPT !.generation = row[r].generation + 1] \in Row
          /\ [one EXCEPT !.generation = row[r].generation + 1].generation = row[r].generation + 1
      BY <2>1, <3>1 DEF Row
    <3> QED
      BY <3>1, <3>2 DEF one
  <2> HIDE DEF record
  <2>4. ASSUME NEW q \in Repos PROVE SameOrNewer(q)
    <3>1. Gen(row, q) \in Nat
      BY GenTypes
    <3>2. CASE q = r
      BY <2>1, <2>2, <2>3, <3>1, <3>2 DEF SameOrNewer, Gen, Row
    <3>3. CASE q # r
      BY <2>2, <3>1, <3>3 DEF SameOrNewer, Gen
    <3> QED
      BY <3>2, <3>3
  <2> QED
    BY <2>4 DEF Ascending
<1> QED
  BY <1>1, <1>2

LEMMA ResolveAscends ==
    ASSUME RegistryTypes, NEW r \in Repos, NEW found, Resolve(r, found)
    PROVE  Ascending
BY ActivationAscends, RetirementAscends, NoChangeAscends DEF Resolve, Confirmed, NoChange, registry

LEMMA RegisterAscends ==
    ASSUME RegistryTypes, NEW r \in Repos, NEW name, NEW found, Register(r, name, found)
    PROVE  Ascending
BY ActivationAscends, RetirementAscends, NoChangeAscends DEF Register, Confirmed, NoChange, registry

\* A context that passes for the current one has the generation of the row.
LEMMA RequireAscends ==
    ASSUME RegistryTypes, NEW context \in RepositoryContext, NEW ok \in BOOLEAN, RequireCurrent(context, ok)
    PROVE  Ascending /\ (ok => Gen(row', context.repo) = context.generation)
<1> DEFINE r == context.repo
<1>1. r \in Repos
  BY DEF RepositoryContext
<1>2. CASE NoChange /\ ~ok
  BY <1>2, NoChangeAscends DEF NoChange, registry
<1>3. CASE NoChange /\ Stored(r) = context
  <2>1. row[r] # None /\ context = Context(r, row[r])
    BY <1>3 DEF Stored
  <2> HIDE DEF r
  <2>2. context.generation = row[r].generation /\ row' = row /\ cache' = cache
    BY <1>3, <2>1 DEF NoChange, registry, Context
  <2>3. Gen(row', r) = context.generation
    BY <2>1, <2>2 DEF Gen
  <2> QED
    BY <2>2, <2>3, NoChangeAscends DEF r
<1>4. CASE ~Fresh(r) /\ \E found \in BOOLEAN : Resolve(r, found) /\ ok = (found /\ cache'[r] = context)
  <2>1. PICK found \in BOOLEAN : Resolve(r, found) /\ ok = (found /\ cache'[r] = context)
    BY <1>4
  <2>2. Ascending
    BY <1>1, <2>1, ResolveAscends
  <2>3. ASSUME ok PROVE Gen(row', r) = context.generation
    <3>1. found /\ cache'[r] = context
      BY <2>1, <2>3
    <3>2. Activate(r) /\ installed[r] # None
      BY <1>4, <2>1, <3>1 DEF Resolve, Confirmed
    <3>3. row'[r] # None /\ row'[r].generation = cache'[r].generation
      BY <1>1, <3>2, ActivationAscends
    <3> QED
      BY <3>1, <3>3 DEF Gen
  <2> QED
    BY <2>2, <2>3
<1> QED
  BY <1>2, <1>3, <1>4 DEF RequireCurrent

-------------------------------------------------------------------------------
\* No step takes a generation back.
LEMMA RowsAscend ==
    ASSUME IInv, [Next]_vars
    PROVE  Ascending
<1>1. RegistryTypes
  BY DEF IInv, TypeOK
<1>2. ASSUME UNCHANGED row, \A q \in Repos : cache'[q] \in {None, cache[q]} PROVE Ascending
  BY <1>1, <1>2, NoChangeAscends
<1>3. ASSUME NEW t \in Threads, th[t].pc # "idle", NEW ok \in BOOLEAN, RequireCurrent(th[t].context, ok)
      PROVE  Ascending
  <2>1. th[t].context \in RepositoryContext
    BY <1>3 DEF IInv, ThreadInv, Sound, SoundIn
  <2> QED
    BY <1>1, <1>3, <2>1, RequireAscends
<1>4. ASSUME NEW t \in Threads, Arrive(t) PROVE Ascending
  <2>1. CASE Visit(t)
    BY <1>1, <2>1, ResolveAscends DEF Visit
  <2>2. CASE Event(t)
    <3>1. PICK e \in events, found \in BOOLEAN : Register(e[1], e[2], found)
      BY <2>2 DEF Event
    <3>2. e[1] \in Repos
      BY DEF IInv, TypeOK
    <3> QED
      BY <1>1, <3>1, <3>2, RegisterAscends
  <2>3. CASE Tick(t)
    BY <1>2, <2>3 DEF Tick, registry
  <2> QED
    BY <1>4, <2>1, <2>2, <2>3 DEF Arrive
<1>5. ASSUME NEW t \in Threads, Lookup(t) PROVE Ascending
  <2>1. CASE Want(t)
    BY <1>3, <2>1 DEF Want
  <2>2. CASE Told(t)
    BY <1>3, <2>2 DEF Told
  <2>3. CASE Find(t) \/ BeginCreation(t) \/ Wait(t) \/ Refuse(t)
    BY <1>2, <2>3 DEF Find, BeginCreation, Wait, Refuse, registry
  <2> QED
    BY <1>5, <2>1, <2>2, <2>3 DEF Lookup
<1>6. ASSUME NEW t \in Threads, Create(t) PROVE Ascending
  <2>1. CASE Check(t)
    BY <1>3, <2>1 DEF Check
  <2>2. CASE Confirm(t)
    BY <1>3, <2>2 DEF Confirm
  <2>3. CASE \/ Replace(t) \/ Drain(t) \/ Drained(t) \/ DrainFails(t) \/ Build(t) \/ BuildFails(t)
             \/ Publish(t) \/ PublishTooLate(t) \/ Discard(t)
    BY <1>2, <2>3 DEF Replace, Drain, Drained, DrainFails, Build, BuildFails, Publish, PublishTooLate,
                      Discard, registry
  <2> QED
    BY <1>6, <2>1, <2>2, <2>3 DEF Create
<1>7. ASSUME NEW t \in Threads, Operate(t) PROVE Ascending
  <2>1. CASE Open(t) \/ Leave(t)
    BY <1>2, <1>3, <2>1 DEF Open, Leave, NoChange, registry
  <2>2. CASE Guard(t) \/ ReadPeers(t)
    BY <1>3, <2>2 DEF Guard, ReadPeers
  <2>3. CASE ResolvePeer(t)
    <3>1. ASSUME NEW context \in Registered PROVE context.repo \in Repos
      BY <1>1, <3>1 DEF Registered, Stored, Context
    <3> QED
      BY <1>1, <1>2, <2>3, <3>1, ResolveAscends DEF ResolvePeer, NoChange, registry
  <2>4. CASE Enter(t) \/ Post(t)
    BY <1>2, <2>4 DEF Enter, Post, registry
  <2> QED
    BY <1>7, <2>1, <2>2, <2>3, <2>4 DEF Operate
<1>8. CASE StopBegin \/ Stop
  BY <1>2, <1>8 DEF Stop, StopBegin, StopCollect, StopClose, StopDrained, StopRelease, registry
<1>9. ASSUME NEW r \in Repos, Reinstall(r) \/ Forget(r) PROVE Ascending
  BY <1>1, <1>2, <1>9 DEF Reinstall, Forget, Expire, registry, RegistryTypes
<1>10. CASE UNCHANGED vars
  BY <1>2, <1>10 DEF vars, registry
<1> QED
  BY <1>4, <1>5, <1>6, <1>7, <1>8, <1>9, <1>10 DEF Next, Step

-------------------------------------------------------------------------------
\* Which threads are about to build, and which containers are open.
BuildKept ==
    \A x \in Threads : th'[x].pc = "build" => th[x].pc = "build" /\ th'[x].context = th[x].context
ContsKept ==
    \A c \in Slots : conts'[c] # Down => conts[c] # Down /\ conts'[c].context = conts[c].context

LEMMA BuildOne ==
    ASSUME TypeOK, NEW t \in Threads, NEW new, new.pc # "build", th' = [th EXCEPT ![t] = new]
    PROVE  BuildKept
BY DEF TypeOK, BuildKept

LEMMA BuildGo ==
    ASSUME TypeOK, NEW t \in Threads, NEW p, p # "build", Go(t, p)
    PROVE  BuildKept
<1> DEFINE new == [th[t] EXCEPT !.pc = p]
<1>1. new.pc = p
  BY DEF TypeOK, Thread
<1>2. th' = [th EXCEPT ![t] = new]
  BY DEF Go
<1> HIDE DEF new
<1> QED
  BY <1>1, <1>2, BuildOne

LEMMA BuildGive ==
    ASSUME IInv, NEW t \in Threads, Give(t)
    PROVE  BuildKept
BY BuildOne, ThroughFacts DEF IInv, Give

LEMMA BuildEnd ==
    ASSUME IInv, NEW t \in Threads, NEW c \in Slot, EndCreation(t, c)
    PROVE  BuildKept
<1> SUFFICES ASSUME NEW x \in Threads, th'[x].pc = "build" PROVE th'[x] = th[x]
  BY DEF BuildKept
<1>1. th[x] \in Thread /\ th[t] \in Thread
  BY DEF IInv, TypeOK
<1>2. Through(th[x]).pc # "build"
  BY ThroughFacts DEF IInv
<1>3. /\ [th[t] EXCEPT !.pc = "enter", !.cont = c].pc = "enter"
      /\ [th[x] EXCEPT !.pc = "want"].pc = "want"
      /\ [th[x] EXCEPT !.pc = "told", !.cont = c].pc = "told"
  BY <1>1 DEF Thread
<1> QED
  BY <1>2, <1>3 DEF EndCreation

LEMMA BuildersKept ==
    ASSUME IInv, NEW t \in Threads, Arrive(t) \/ Lookup(t) \/ Create(t) \/ Operate(t), ~Check(t)
    PROVE  BuildKept
<1>1. TypeOK /\ th[t] \in Thread /\ 0 \in Slot /\ th[t].cont \in Slot
  BY DEF IInv, TypeOK, Thread, Slot
<1>2. ASSUME UNCHANGED th PROVE BuildKept
  BY <1>2 DEF BuildKept
<1>3. \A kind, context : Start(kind, context).pc = "want"
  BY DEF Start, Idle
<1>4. CASE Arrive(t)
  <2>1. \/ UNCHANGED th
        \/ \E kind, context : th' = [th EXCEPT ![t] = Start(kind, context)]
    BY <1>1, <1>4 DEF Arrive, Visit, Event, Tick, TypeOK
  <2> QED
    BY <1>1, <1>2, <1>3, <2>1, BuildOne
<1>5. CASE Lookup(t)
  <2>1. CASE Want(t) \/ BeginCreation(t) \/ Wait(t) \/ Refuse(t) \/ Told(t)
    BY <1>1, <2>1, BuildGo, BuildGive DEF Want, BeginCreation, Wait, Refuse, Told
  <2>2. CASE Find(t)
    <3> DEFINE new == [th[t] EXCEPT !.pc = "enter", !.cont = serving[Repo(t)]]
    <3>1. new.pc = "enter"
      BY <1>1 DEF Thread
    <3>2. th' = [th EXCEPT ![t] = new]
      BY <2>2 DEF Find
    <3> HIDE DEF new
    <3> QED
      BY <1>1, <3>1, <3>2, BuildOne
  <2> QED
    BY <1>5, <2>1, <2>2 DEF Lookup
<1>6. CASE Create(t)
  <2>1. CASE Drain(t) \/ Confirm(t) \/ PublishTooLate(t)
    BY <1>1, <2>1, BuildGo DEF Drain, Confirm, PublishTooLate, Unpublished
  <2>2. CASE DrainFails(t) \/ BuildFails(t) \/ Publish(t) \/ Discard(t)
    BY <1>1, <2>2, BuildEnd DEF DrainFails, BuildFails, Publish, Discard
  <2>3. ASSUME NEW p, p # "build", NEW c, th' = [th EXCEPT ![t].pc = p, ![t].cont = c]
        PROVE  BuildKept
    <3>1. Onward(th[t], p, c).pc = p
      BY <1>1 DEF Onward, Thread
    <3>2. th' = [th EXCEPT ![t] = Onward(th[t], p, c)]
      BY <2>3 DEF Onward
    <3> QED
      BY <1>1, <2>3, <3>1, <3>2, BuildOne
  <2>4. CASE Replace(t) \/ Drained(t) \/ Build(t)
    BY <2>3, <2>4 DEF Replace, Drained, Build
  <2> QED
    BY <1>6, <2>1, <2>2, <2>4 DEF Create
<1>7. CASE Operate(t)
  <2>1. CASE Enter(t) \/ Open(t) \/ Guard(t) \/ Post(t) \/ Leave(t)
    BY <1>1, <2>1, BuildGo, BuildGive DEF Enter, Open, Guard, Post, Leave
  <2>2. CASE ReadPeers(t)
    <3>1. PICK p \in {"peers", "leaving"} : th' = [th EXCEPT ![t].pc = p, ![t].read = TRUE]
      BY <2>2 DEF ReadPeers
    <3> DEFINE new == [th[t] EXCEPT !.pc = p, !.read = TRUE]
    <3>2. new.pc = p
      BY <1>1 DEF Thread
    <3>3. th' = [th EXCEPT ![t] = new]
      BY <3>1
    <3> HIDE DEF new
    <3> QED
      BY <1>1, <3>1, <3>2, <3>3, BuildOne
  <2>3. CASE ResolvePeer(t)
    <3>1. CASE Go(t, "leaving")
      BY <1>1, <3>1, BuildGo
    <3>2. ASSUME NEW found \in BOOLEAN, NEW context,
                 th' = [th EXCEPT ![t] =
                           IF found THEN [@ EXCEPT !.pc = "want", !.context = context,
                                                   !.cont = 0, !.outer = th[t].cont]
                           ELSE [@ EXCEPT !.pc = "leaving"]]
          PROVE  BuildKept
      <4> DEFINE new == IF found THEN [th[t] EXCEPT !.pc = "want", !.context = context,
                                                    !.cont = 0, !.outer = th[t].cont]
                        ELSE [th[t] EXCEPT !.pc = "leaving"]
      <4>1. new.pc \in {"want", "leaving"}
        BY <1>1 DEF Thread
      <4>2. th' = [th EXCEPT ![t] = new]
        BY <3>2
      <4> HIDE DEF new
      <4> QED
        BY <1>1, <4>1, <4>2, BuildOne
    <3> QED
      BY <2>3, <3>1, <3>2 DEF ResolvePeer
  <2> QED
    BY <1>7, <2>1, <2>2, <2>3 DEF Operate
<1> QED
  BY <1>4, <1>5, <1>6, <1>7

LEMMA ContainersKept ==
    ASSUME IInv, [Next]_vars, \A t \in Threads : ~Build(t)
    PROVE  ContsKept
<1>1. conts \in [Slots -> Container \cup {Down}]
  BY DEF IInv, TypeOK
<1>2. ASSUME UNCHANGED conts PROVE ContsKept
  BY <1>2 DEF ContsKept
<1>3. ASSUME NEW c, conts' = [conts EXCEPT ![c] = Down] PROVE ContsKept
  BY <1>1, <1>3 DEF ContsKept
<1>4. ASSUME NEW c, conts[c] # Down, c \in Slots, NEW slot, slot.context = conts[c].context,
             conts' = [conts EXCEPT ![c] = slot]
      PROVE  ContsKept
  BY <1>1, <1>4 DEF ContsKept
<1>5. ASSUME NEW c \in Slots, conts[c] # Down
      PROVE  /\ conts' = [conts EXCEPT ![c].closed = TRUE] => ContsKept
             /\ conts' = [conts EXCEPT ![c].failed = TRUE] => ContsKept
             /\ conts' = [conts EXCEPT ![c].closed = TRUE, ![c].failed = TRUE] => ContsKept
  <2>1. conts[c] \in Container
    BY <1>1, <1>5
  <2>2. /\ [conts[c] EXCEPT !.closed = TRUE].context = conts[c].context
        /\ [conts[c] EXCEPT !.failed = TRUE].context = conts[c].context
        /\ [conts[c] EXCEPT !.closed = TRUE, !.failed = TRUE].context = conts[c].context
    BY <2>1 DEF Container
  <2>3. CASE conts' = [conts EXCEPT ![c].closed = TRUE]
    BY <1>4, <1>5, <2>2, <2>3
  <2>4. CASE conts' = [conts EXCEPT ![c].failed = TRUE]
    BY <1>4, <1>5, <2>2, <2>4
  <2>5. CASE conts' = [conts EXCEPT ![c].closed = TRUE, ![c].failed = TRUE]
    <3> DEFINE slot == [conts[c] EXCEPT !.closed = TRUE, !.failed = TRUE]
    <3>1. conts' = [conts EXCEPT ![c] = slot]
      BY <1>1, <1>5, <2>5
    <3>2. slot.context = conts[c].context
      BY <2>2
    <3> HIDE DEF slot
    <3> QED
      BY <1>4, <1>5, <3>1, <3>2
  <2> QED
    BY <2>3, <2>4, <2>5
<1>6. ASSUME NEW t \in Threads, Create(t) PROVE ContsKept
  <2>1. th[t].pc \in {"drain", "draining", "discard"} => th[t].cont \in Slots /\ conts[th[t].cont] # Down
    BY CreatorFacts DEF InCreation
  <2>2. CASE Drain(t) \/ Drained(t) \/ DrainFails(t) \/ Discard(t)
    BY <1>2, <1>3, <1>5, <2>1, <2>2 DEF Drain, Drained, DrainFails, Discard
  <2>3. CASE Replace(t) \/ Check(t) \/ BuildFails(t) \/ Confirm(t) \/ Publish(t) \/ PublishTooLate(t)
    BY <1>2, <2>3 DEF Replace, Check, BuildFails, Confirm, Publish, PublishTooLate
  <2> QED
    BY <1>6, <2>2, <2>3 DEF Create
<1>7. CASE Stop
  <2>1. Collected => \A c \in stop.left : c \in Slots /\ conts[c] # Down
    BY DEF IInv, StopInv, TypeOK
  <2>2. CASE StopClose
    BY <1>2, <1>5, <2>1, <2>2 DEF StopClose, Collected
  <2>3. CASE StopDrained
    <3>1. stop.cont \in Slots /\ conts[stop.cont] # Down
      BY <2>1, <2>3 DEF IInv, StopInv, StopDrained, Collected
    <3> QED
      BY <1>3, <1>5, <2>3, <3>1 DEF StopDrained
  <2>4. CASE StopCollect \/ StopRelease
    BY <1>2, <2>4 DEF StopCollect, StopRelease
  <2> QED
    BY <1>7, <2>2, <2>3, <2>4 DEF Stop
<1>8. ASSUME NEW t \in Threads, Arrive(t) \/ Lookup(t) \/ Operate(t) PROVE UNCHANGED conts
  <2>1. CASE Arrive(t)
    BY <2>1 DEF Arrive, Visit, Event, Tick
  <2>2. CASE Lookup(t)
    BY <2>2 DEF Lookup, Want, Find, BeginCreation, Wait, Refuse, Told
  <2>3. CASE Operate(t)
    BY <2>3 DEF Operate, Enter, Open, Guard, Post, ReadPeers, ResolvePeer, Leave
  <2> QED
    BY <1>8, <2>1, <2>2, <2>3
<1>9. StopBegin \/ (\E r \in Repos : Reinstall(r) \/ Forget(r)) \/ UNCHANGED vars => UNCHANGED conts
  BY DEF StopBegin, Reinstall, Forget, vars
<1> QED
  BY <1>2, <1>6, <1>7, <1>8, <1>9 DEF Next, Step

LEMMA PostedKept ==
    ASSUME [Next]_vars, \A t \in Threads : ~Post(t)
    PROVE  UNCHANGED posted
<1>1. ASSUME NEW t \in Threads, Arrive(t) \/ Lookup(t) PROVE UNCHANGED posted
  BY <1>1 DEF Arrive, Visit, Event, Tick, Lookup, Want, Find, BeginCreation, Wait, Refuse, Told
<1>2. ASSUME NEW t \in Threads, Create(t) PROVE UNCHANGED posted
  BY <1>2 DEF Create, Replace, Drain, Drained, DrainFails, Check, Build, BuildFails, Confirm,
              Publish, PublishTooLate, Discard
<1>3. ASSUME NEW t \in Threads, Operate(t) PROVE UNCHANGED posted
  BY <1>3 DEF Operate, Enter, Open, Guard, ReadPeers, ResolvePeer, Leave
<1>4. StopBegin \/ Stop => UNCHANGED posted
  BY DEF StopBegin, Stop, StopCollect, StopClose, StopDrained, StopRelease
<1>5. (\E r \in Repos : Reinstall(r) \/ Forget(r)) \/ UNCHANGED vars => UNCHANGED posted
  BY DEF Reinstall, Forget, vars
<1> QED
  BY <1>1, <1>2, <1>3, <1>4, <1>5 DEF Next, Step

-------------------------------------------------------------------------------
\* What is in order stays so while nobody publishes.
LEMMA StaysInOrder ==
    ASSUME IInv, Ascending, UNCHANGED posted, RegistryTypes',
           NEW context \in RepositoryContext, InOrder(context, posted, row)
    PROVE  InOrder(context, posted', row')
<1>1. context.repo \in Repos /\ context.generation \in Nat
  BY DEF RepositoryContext
<1>2. Gen(row, context.repo) \in Nat /\ Gen(row', context.repo) \in Nat
  BY <1>1 DEF IInv, TypeOK, RegistryTypes, Row, Gen
<1>3. Gen(row, context.repo) <= Gen(row', context.repo)
  BY <1>1 DEF Ascending, SameOrNewer
<1> QED
  BY <1>1, <1>2, <1>3 DEF InOrder

\* Every container and every builder was in order, or is up to date.
LEMMA OrderKept ==
    ASSUME IInv, IInv', OrderInv, Ascending, UNCHANGED posted,
           \A c \in Slots : conts'[c] # Down =>
               \/ conts[c] # Down /\ conts'[c].context = conts[c].context
               \/ \E t \in Threads : th[t].pc = "build" /\ conts'[c].context = th[t].context,
           \A t \in Threads : th'[t].pc = "build" =>
               \/ th[t].pc = "build" /\ th'[t].context = th[t].context
               \/ Gen(row', th'[t].context.repo) = th'[t].context.generation
    PROVE  OrderInv'
<1>1. RegistryTypes /\ RegistryTypes' /\ posted \in [Repos -> Nat]
  BY DEF IInv, TypeOK
<1>2. ASSUME NEW r \in Repos PROVE posted'[r] <= Gen(row', r)
  <2>1. posted[r] \in Nat /\ posted[r] <= Gen(row, r) /\ Gen(row, r) <= Gen(row', r)
    BY <1>1 DEF OrderInv, Ascending, SameOrNewer
  <2>2. Gen(row, r) \in Nat /\ Gen(row', r) \in Nat
    BY <1>1 DEF RegistryTypes, Row, Gen
  <2> QED
    BY <2>1, <2>2
<1>3. ASSUME NEW t \in Threads, th[t].pc = "build"
      PROVE  th[t].context \in RepositoryContext /\ InOrder(th[t].context, posted, row)
  BY <1>3 DEF OrderInv, IInv, ThreadInv, Sound, SoundIn
<1>4. ASSUME NEW c \in Slots, conts'[c] # Down PROVE InOrder(conts'[c].context, posted', row')
  <2>1. CASE conts[c] # Down /\ conts'[c].context = conts[c].context
    <3>1. conts[c].context \in RepositoryContext /\ InOrder(conts[c].context, posted, row)
      BY <2>1, OpenContainer DEF OrderInv, IInv, Slot
    <3> QED
      BY <1>1, <2>1, <3>1, StaysInOrder
  <2>2. CASE \E t \in Threads : th[t].pc = "build" /\ conts'[c].context = th[t].context
    BY <1>1, <1>3, <2>2, StaysInOrder
  <2> QED
    BY <1>4, <2>1, <2>2
<1>5. ASSUME NEW t \in Threads, th'[t].pc = "build" PROVE InOrder(th'[t].context, posted', row')
  <2>1. CASE th[t].pc = "build" /\ th'[t].context = th[t].context
    BY <1>1, <1>3, <2>1, StaysInOrder
  <2>2. CASE Gen(row', th'[t].context.repo) = th'[t].context.generation
    <3>1. th'[t].context \in RepositoryContext
      BY <1>5 DEF IInv, ThreadInv, Sound, SoundIn
    <3>2. th'[t].context.repo \in Repos /\ th'[t].context.generation \in Nat
      BY <3>1 DEF RepositoryContext
    <3>3. posted'[th'[t].context.repo] <= Gen(row', th'[t].context.repo)
      BY <1>2, <3>2
    <3> QED
      BY <2>2, <3>2, <3>3 DEF InOrder
  <2> QED
    BY <1>5, <2>1, <2>2
<1> QED
  BY <1>2, <1>4, <1>5 DEF OrderInv

LEMMA BuildInOrder ==
    ASSUME IInv, IInv', OrderInv, NEW t \in Threads, Build(t)
    PROVE  OrderInv'
<1>1. Ascending
  BY NoChangeAscends DEF IInv, TypeOK, Build, registry
<1>2. PICK c \in FreeSlots :
          /\ conts' = [conts EXCEPT ![c] = [context |-> th[t].context, closed |-> FALSE,
                                            failed |-> FALSE]]
          /\ th' = [th EXCEPT ![t].pc = "confirm", ![t].cont = c]
  BY DEF Build
<1>3. conts \in [Slots -> Container \cup {Down}] /\ c \in Slots /\ th[t] \in Thread
  BY DEF IInv, TypeOK, FreeSlots
<1>4. ASSUME NEW s \in Slots, conts'[s] # Down
      PROVE  \/ conts[s] # Down /\ conts'[s].context = conts[s].context
             \/ \E x \in Threads : th[x].pc = "build" /\ conts'[s].context = th[x].context
  BY <1>2, <1>3, <1>4 DEF Build
<1>5. BuildKept
  <2>1. Onward(th[t], "confirm", c).pc = "confirm"
    BY <1>3 DEF Onward, Thread
  <2>2. th' = [th EXCEPT ![t] = Onward(th[t], "confirm", c)]
    BY <1>2 DEF Onward
  <2> QED
    BY <2>1, <2>2, BuildOne DEF IInv
<1>6. UNCHANGED posted
  BY DEF Build
<1> QED
  BY <1>1, <1>4, <1>5, <1>6, OrderKept DEF BuildKept

LEMMA CheckInOrder ==
    ASSUME IInv, IInv', OrderInv, NEW t \in Threads, Check(t)
    PROVE  OrderInv'
<1>1. PICK ok \in BOOLEAN :
          /\ RequireCurrent(th[t].context, ok)
          /\ IF ok THEN Go(t, "build") /\ UNCHANGED creating ELSE EndCreation(t, 0)
  BY DEF Check
<1>2. th[t].context \in RepositoryContext /\ th[t] \in Thread /\ RegistryTypes /\ TypeOK
  BY DEF Check, IInv, TypeOK, ThreadInv, Sound, SoundIn
<1>3. Ascending /\ (ok => Gen(row', th[t].context.repo) = th[t].context.generation)
  BY <1>1, <1>2, RequireAscends
<1>4. UNCHANGED <<conts, posted>>
  BY DEF Check
<1>5. CASE ~ok
  <2>1. BuildKept
    BY <1>1, <1>5, BuildEnd DEF Slot
  <2> QED
    BY <1>3, <1>4, <2>1, OrderKept DEF BuildKept
<1>6. CASE ok
  <2>1. ASSUME NEW x \in Threads, th'[x].pc = "build"
        PROVE  \/ th[x].pc = "build" /\ th'[x].context = th[x].context
               \/ Gen(row', th'[x].context.repo) = th'[x].context.generation
    <3>1. CASE x = t
      <4>1. th'[t].context = th[t].context
        BY <1>1, <1>2, <1>6 DEF Go, TypeOK, Thread
      <4> QED
        BY <1>3, <1>6, <3>1, <4>1
    <3>2. CASE x # t
      BY <1>1, <1>2, <1>6, <2>1, <3>2 DEF Go, TypeOK
    <3> QED
      BY <3>1, <3>2
  <2> QED
    BY <1>3, <1>4, <2>1, OrderKept
<1> QED
  BY <1>5, <1>6

\* The container of a post is the only one of its repository, and nobody builds one.
LEMMA PostInOrder ==
    ASSUME IInv, IInv', OrderInv, NEW t \in Threads, Post(t)
    PROVE  OrderInv' /\ \A r \in Repos : posted'[r] >= posted[r]
<1> DEFINE r == Repo(t)
           g == th[t].context.generation
           c == th[t].cont
<1>1. /\ UNCHANGED <<row, conts>> /\ posted' = [posted EXCEPT ![r] = g] /\ th[t].pc = "posting"
      /\ Go(t, "leaving")
  BY DEF Post, registry
<1>2. /\ th[t] \in Thread /\ th[t].context \in RepositoryContext /\ c \in Slots /\ conts[c] # Down
      /\ conts[c].context = th[t].context /\ posted \in [Repos -> Nat] /\ TypeOK
  BY <1>1 DEF IInv, TypeOK, ThreadInv, Sound, SoundIn, InOperation, Thread, Slot
<1>3. r \in Repos /\ g \in Nat /\ conts[c].context.repo = r /\ conts[c].context.generation = g
  BY <1>2 DEF RepositoryContext, Repo
<1>4. posted[r] <= g /\ g <= Gen(row, r)
  BY <1>2, <1>3 DEF OrderInv, InOrder
<1> HIDE DEF r, g
<1>5. posted'[r] = g /\ \A q \in Repos : q # r => posted'[q] = posted[q]
  BY <1>1, <1>2, <1>3
<1>6. BuildKept
  BY <1>1, <1>2, BuildGo
<1>7. \A q \in Repos : posted'[q] <= Gen(row', q)
  BY <1>1, <1>4, <1>5 DEF OrderInv
<1>8. ASSUME NEW d \in Slots, conts[d] # Down PROVE InOrder(conts[d].context, posted', row')
  <2>1. conts[d].context.repo \in Repos /\ InOrder(conts[d].context, posted, row)
    BY <1>2, <1>8, OpenContainer DEF OrderInv, Slot
  <2>2. CASE d = c
    BY <1>1, <1>3, <1>4, <1>5, <2>2, SMT DEF InOrder
  <2>3. CASE d # c
    <3>1. conts[d].context.repo # r
      BY <1>2, <1>3, <1>8, <2>3 DEF IInv, OneStore
    <3> QED
      BY <1>1, <1>5, <2>1, <3>1 DEF InOrder
  <2> QED
    BY <2>2, <2>3
<1>9. ASSUME NEW x \in Threads, th'[x].pc = "build" PROVE InOrder(th'[x].context, posted', row')
  <2>1. th[x].pc = "build" /\ th'[x].context = th[x].context
    BY <1>6, <1>9 DEF BuildKept
  <2>2. Repo(x) \in Repos /\ \A s \in Slots : conts[s] # Down => conts[s].context.repo # Repo(x)
    BY <2>1, CreatorFacts DEF InCreation
  <2>3. InOrder(th[x].context, posted, row) /\ Repo(x) # r
    BY <1>2, <1>3, <2>1, <2>2 DEF OrderInv
  <2> QED
    BY <1>1, <1>5, <2>1, <2>2, <2>3 DEF InOrder, Repo
<1>10. OrderInv'
  BY <1>1, <1>7, <1>8, <1>9 DEF OrderInv
<1>11. \A q \in Repos : posted'[q] >= posted[q]
  BY <1>2, <1>3, <1>4, <1>5
<1> QED
  BY <1>10, <1>11

LEMMA OrderInductive ==
    ASSUME IInv, IInv', OrderInv, [Next]_vars
    PROVE  OrderInv' /\ \A r \in Repos : posted'[r] >= posted[r]
<1>1. Ascending /\ posted \in [Repos -> Nat]
  BY RowsAscend DEF IInv, TypeOK
<1>2. CASE \E t \in Threads : Post(t)
  BY <1>2, PostInOrder
<1>3. CASE \A t \in Threads : ~Post(t)
  <2>1. UNCHANGED posted
    BY <1>3, PostedKept
  <2>2. \A r \in Repos : posted'[r] >= posted[r]
    BY <1>1, <2>1
  <2>3. CASE \E t \in Threads : Build(t)
    BY <2>2, <2>3, BuildInOrder
  <2>4. CASE \E t \in Threads : Check(t)
    BY <2>2, <2>4, CheckInOrder
  <2>5. CASE \A t \in Threads : ~Build(t) /\ ~Check(t)
    <3>1. ContsKept
      BY <2>5, ContainersKept
    <3>2. BuildKept
      <4>1. CASE UNCHANGED th
        BY <4>1 DEF BuildKept
      <4>2. CASE \E t \in Threads : Arrive(t) \/ Lookup(t) \/ Create(t) \/ Operate(t)
        BY <2>5, <4>2, BuildersKept
      <4>3. StopBegin \/ Stop \/ (\E r \in Repos : Reinstall(r) \/ Forget(r)) \/ UNCHANGED vars
            => UNCHANGED th
        BY DEF StopBegin, Stop, StopCollect, StopClose, StopDrained, StopRelease, Reinstall, Forget, vars
      <4> QED
        BY <4>1, <4>2, <4>3 DEF Next, Step
    <3>3. OrderInv'
      BY <1>1, <2>1, <3>1, <3>2, OrderKept DEF ContsKept, BuildKept
    <3> QED
      BY <2>2, <3>3
  <2> QED
    BY <2>3, <2>4, <2>5
<1> QED
  BY <1>2, <1>3

-------------------------------------------------------------------------------
\* Once a generation has published, no earlier one does: a creator builds with a
\* context that was current when nothing of the repository was open.
THEOREM PublicationsAscend == Spec => PostsInOrder
<1>1. Init => OrderInv
  BY DEF Init, RegistryInit, OrderInv, Gen, Idle
<1>2. IInv /\ IInv' /\ OrderInv /\ [Next]_vars => OrderInv'
  BY OrderInductive
<1>3. IInv /\ IInv' /\ OrderInv /\ [Next]_vars => [\A r \in Repos : posted'[r] >= posted[r]]_vars
  BY OrderInductive
<1> QED
  BY <1>1, <1>2, <1>3, Invariant, PTL DEF Spec, PostsInOrder

-------------------------------------------------------------------------------
\* A context is the one its repository has, or has an earlier generation.
Earlier(context, rows) ==
    LET record == rows[context.repo]
    IN /\ record # None
       /\ context.generation <= record.generation
       /\ context.generation = record.generation => context.installation = record.installation

UniqueInv ==
    /\ \A r \in Repos : cache[r] # None => Earlier(cache[r], row)
    /\ \A t \in Threads : th[t].context # None => Earlier(th[t].context, row)
    /\ \A c \in Slots : conts[c] # Down => Earlier(conts[c].context, row)

LEMMA StaysEarlier ==
    ASSUME RegistryTypes, RegistryTypes', Ascending,
           NEW context \in RepositoryContext, Earlier(context, row)
    PROVE  Earlier(context, row')
<1> DEFINE r == context.repo
<1>1. r \in Repos /\ context.generation \in Nat
  BY DEF RepositoryContext
<1>2. /\ row[r] # None /\ context.generation <= row[r].generation
      /\ context.generation = row[r].generation => context.installation = row[r].installation
  BY DEF Earlier
<1>3. row[r] \in Row /\ row'[r] \in Row \cup {None}
  BY <1>1, <1>2 DEF RegistryTypes
<1>4. SameOrNewer(r)
  BY <1>1 DEF Ascending
<1> HIDE DEF r
<1>5. row'[r] # None /\ row[r].generation <= row'[r].generation
      /\ (row'[r].generation = row[r].generation => row'[r].installation = row[r].installation)
  BY <1>2, <1>4 DEF SameOrNewer, Gen
<1>6. row[r].generation \in Nat /\ row'[r].generation \in Nat
  BY <1>3, <1>5 DEF Row
<1>7. /\ context.generation <= row'[r].generation
      /\ context.generation = row'[r].generation => context.installation = row'[r].installation
  BY <1>1, <1>2, <1>5, <1>6
<1> QED
  BY <1>5, <1>7 DEF Earlier, r

\* Where a thread's context comes from.
Seen(context) ==
    \/ context = None
    \/ \E t \in Threads : context = th[t].context
    \/ \E c \in Slots : conts[c] # Down /\ context = conts[c].context
    \/ \E r \in Repos : context = cache'[r] \/ (row[r] # None /\ context = Context(r, row[r]))
ContextsSeen == \A x \in Threads : Seen(th'[x].context)

LEMMA SeenOne ==
    ASSUME TypeOK, NEW t \in Threads, NEW new, Seen(new.context), th' = [th EXCEPT ![t] = new]
    PROVE  ContextsSeen
BY DEF TypeOK, ContextsSeen, Seen

LEMMA SeenSame ==
    ASSUME TypeOK, NEW t \in Threads, NEW new, new.context = th[t].context,
           th' = [th EXCEPT ![t] = new]
    PROVE  ContextsSeen
BY SeenOne DEF Seen

LEMMA SeenGo ==
    ASSUME TypeOK, NEW t \in Threads, NEW p, Go(t, p)
    PROVE  ContextsSeen
<1> DEFINE new == [th[t] EXCEPT !.pc = p]
<1>1. new.context = th[t].context
  BY DEF TypeOK, Thread
<1>2. th' = [th EXCEPT ![t] = new]
  BY DEF Go
<1> HIDE DEF new
<1> QED
  BY <1>1, <1>2, SeenSame

LEMMA SeenThrough ==
    ASSUME TypeOK, ThreadInv, NEW t \in Threads
    PROVE  Seen(Through(th[t]).context)
<1>1. th[t] \in Thread /\ Sound(th[t])
  BY DEF TypeOK, ThreadInv
<1>2. CASE th[t].outer = 0
  BY <1>2 DEF Through, Idle, Seen
<1>3. CASE th[t].outer # 0
  <2>1. th[t].outer \in Slots /\ conts[th[t].outer] # Down
    BY <1>1, <1>3 DEF Sound, SoundIn, Thread, Slot
  <2>2. Through(th[t]).context = conts[th[t].outer].context
    BY <1>1, <1>3 DEF Through, Thread
  <2> QED
    BY <2>1, <2>2 DEF Seen
<1> QED
  BY <1>2, <1>3

LEMMA SeenGive ==
    ASSUME IInv, NEW t \in Threads, Give(t)
    PROVE  ContextsSeen
BY SeenOne, SeenThrough DEF IInv, Give

LEMMA SeenEnd ==
    ASSUME IInv, NEW t \in Threads, NEW c \in Slot, EndCreation(t, c)
    PROVE  ContextsSeen
<1> SUFFICES ASSUME NEW x \in Threads PROVE Seen(th'[x].context)
  BY DEF ContextsSeen
<1>1. th[x] \in Thread /\ th[t] \in Thread
  BY DEF IInv, TypeOK
<1>2. Seen(Through(th[x]).context) /\ Seen(th[x].context)
  BY SeenThrough DEF IInv, Seen
<1>3. /\ [th[x] EXCEPT !.pc = "enter", !.cont = c].context = th[x].context
      /\ [th[x] EXCEPT !.pc = "want"].context = th[x].context
      /\ [th[x] EXCEPT !.pc = "told", !.cont = c].context = th[x].context
  BY <1>1 DEF Thread
<1>4. \/ th'[x] = Through(th[x])
      \/ th'[x].context = th[x].context
  BY <1>3 DEF EndCreation
<1> QED
  BY <1>2, <1>4

LEMMA ThreadsSeen ==
    ASSUME IInv, NEW t \in Threads, Arrive(t) \/ Lookup(t) \/ Create(t) \/ Operate(t)
    PROVE  ContextsSeen
<1>1. TypeOK /\ th[t] \in Thread /\ 0 \in Slot /\ th[t].cont \in Slot
  BY DEF IInv, TypeOK, Thread, Slot
<1>2. ASSUME UNCHANGED th PROVE ContextsSeen
  BY <1>2 DEF ContextsSeen, Seen
<1>3. ASSUME NEW kind, NEW context, Seen(context), th' = [th EXCEPT ![t] = Start(kind, context)]
      PROVE  ContextsSeen
  <2>1. Start(kind, context).context = context
    BY DEF Start, Idle
  <2> QED
    BY <1>1, <1>3, <2>1, SeenOne
<1>4. ASSUME NEW r \in Repos PROVE Seen(cache'[r])
  BY DEF Seen
<1>5. ASSUME NEW context \in Registered PROVE Seen(context) /\ context.repo \in Repos
  BY DEF Registered, Stored, Seen, Context
<1>6. CASE Arrive(t)
  <2>1. CASE Visit(t)
    <3>1. \/ UNCHANGED th
          \/ \E r \in Repos : th' = [th EXCEPT ![t] = Start("request", cache'[r])]
      BY <1>1, <2>1 DEF Visit, TypeOK
    <3> QED
      BY <1>2, <1>3, <1>4, <3>1
  <2>2. CASE Event(t)
    <3>1. \A e \in events : e[1] \in Repos
      BY <1>1 DEF TypeOK
    <3>2. \/ UNCHANGED th
          \/ \E r \in Repos : th' = [th EXCEPT ![t] = Start("request", cache'[r])]
      BY <1>1, <2>2, <3>1 DEF Event, TypeOK
    <3> QED
      BY <1>2, <1>3, <1>4, <3>2
  <2>3. CASE Tick(t)
    BY <1>3, <1>5, <2>3 DEF Tick
  <2> QED
    BY <1>6, <2>1, <2>2, <2>3 DEF Arrive
<1>7. CASE Lookup(t)
  <2>1. CASE Want(t) \/ BeginCreation(t) \/ Wait(t) \/ Refuse(t) \/ Told(t)
    BY <1>1, <2>1, SeenGo, SeenGive DEF Want, BeginCreation, Wait, Refuse, Told
  <2>2. CASE Find(t)
    <3> DEFINE new == [th[t] EXCEPT !.pc = "enter", !.cont = serving[Repo(t)]]
    <3>1. new.context = th[t].context
      BY <1>1 DEF Thread
    <3>2. th' = [th EXCEPT ![t] = new]
      BY <2>2 DEF Find
    <3> HIDE DEF new
    <3> QED
      BY <1>1, <3>1, <3>2, SeenSame
  <2> QED
    BY <1>7, <2>1, <2>2 DEF Lookup
<1>8. CASE Create(t)
  <2>1. CASE Drain(t) \/ Confirm(t) \/ PublishTooLate(t)
    BY <1>1, <2>1, SeenGo DEF Drain, Confirm, PublishTooLate, Unpublished
  <2>2. CASE DrainFails(t) \/ Check(t) \/ BuildFails(t) \/ Publish(t) \/ Discard(t)
    BY <1>1, <2>2, SeenGo, SeenEnd DEF DrainFails, Check, BuildFails, Publish, Discard
  <2>3. ASSUME NEW p, NEW c, th' = [th EXCEPT ![t].pc = p, ![t].cont = c]
        PROVE  ContextsSeen
    <3>1. Onward(th[t], p, c).context = th[t].context
      BY <1>1 DEF Onward, Thread
    <3>2. th' = [th EXCEPT ![t] = Onward(th[t], p, c)]
      BY <2>3 DEF Onward
    <3> QED
      BY <1>1, <3>1, <3>2, SeenSame
  <2>4. CASE Replace(t) \/ Drained(t) \/ Build(t)
    BY <2>3, <2>4 DEF Replace, Drained, Build
  <2> QED
    BY <1>8, <2>1, <2>2, <2>4 DEF Create
<1>9. CASE Operate(t)
  <2>1. CASE Enter(t) \/ Open(t) \/ Guard(t) \/ Post(t) \/ Leave(t)
    BY <1>1, <2>1, SeenGo, SeenGive DEF Enter, Open, Guard, Post, Leave
  <2>2. CASE ReadPeers(t)
    <3>1. PICK p \in {"peers", "leaving"} : th' = [th EXCEPT ![t].pc = p, ![t].read = TRUE]
      BY <2>2 DEF ReadPeers
    <3> DEFINE new == [th[t] EXCEPT !.pc = p, !.read = TRUE]
    <3>2. new.context = th[t].context
      BY <1>1 DEF Thread
    <3>3. th' = [th EXCEPT ![t] = new]
      BY <3>1
    <3> HIDE DEF new
    <3> QED
      BY <1>1, <3>2, <3>3, SeenSame
  <2>3. CASE ResolvePeer(t)
    <3>1. CASE Go(t, "leaving")
      BY <1>1, <3>1, SeenGo
    <3>2. ASSUME NEW found \in BOOLEAN, NEW context \in Registered,
                 th' = [th EXCEPT ![t] =
                           IF found THEN [@ EXCEPT !.pc = "want", !.context = cache'[context.repo],
                                                   !.cont = 0, !.outer = th[t].cont]
                           ELSE [@ EXCEPT !.pc = "leaving"]]
          PROVE  ContextsSeen
      <4> DEFINE new == IF found THEN [th[t] EXCEPT !.pc = "want", !.context = cache'[context.repo],
                                                    !.cont = 0, !.outer = th[t].cont]
                        ELSE [th[t] EXCEPT !.pc = "leaving"]
      <4>1. new.context \in {cache'[context.repo], th[t].context}
        BY <1>1 DEF Thread
      <4>2. th' = [th EXCEPT ![t] = new]
        BY <3>2
      <4> HIDE DEF new
      <4>3. Seen(new.context)
        BY <1>4, <1>5, <4>1 DEF Seen
      <4> QED
        BY <1>1, <4>2, <4>3, SeenOne
    <3> QED
      BY <2>3, <3>1, <3>2 DEF ResolvePeer
  <2> QED
    BY <1>9, <2>1, <2>2, <2>3 DEF Operate
<1> QED
  BY <1>6, <1>7, <1>8, <1>9

LEMMA UniqueInductive ==
    ASSUME IInv, IInv', UniqueInv, [Next]_vars
    PROVE  UniqueInv'
<1>1. Ascending /\ TypeOK /\ TypeOK' /\ RegistryTypes /\ RegistryTypes'
  BY RowsAscend DEF IInv, TypeOK
<1>2. ASSUME NEW r \in Repos, cache'[r] # None PROVE Earlier(cache'[r], row')
  <2>1. cache'[r] \in {None, cache[r]} \/ (row'[r] # None /\ cache'[r] = Context(r, row'[r]))
    BY <1>1 DEF Ascending, SameOrNewer
  <2>2. CASE cache'[r] = cache[r]
    <3>1. cache[r] \in RepositoryContext /\ Earlier(cache[r], row)
      BY <1>1, <1>2, <2>2 DEF RegistryTypes, UniqueInv
    <3> QED
      BY <1>1, <2>2, <3>1, StaysEarlier
  <2>3. CASE row'[r] # None /\ cache'[r] = Context(r, row'[r])
    <3>1. row'[r].generation \in Nat
      BY <1>1, <2>3 DEF RegistryTypes, Row
    <3> QED
      BY <2>3, <3>1 DEF Earlier, Context
  <2> QED
    BY <1>2, <2>1, <2>2, <2>3
<1>3. ASSUME NEW context \in RepositoryContext, Seen(context) PROVE Earlier(context, row')
  <2>1. CASE \E t \in Threads : context = th[t].context
    BY <1>1, <2>1, StaysEarlier DEF UniqueInv
  <2>2. CASE \E c \in Slots : conts[c] # Down /\ context = conts[c].context
    BY <1>1, <2>2, StaysEarlier DEF UniqueInv
  <2>3. CASE \E r \in Repos : context = cache'[r]
    BY <1>2, <2>3
  <2>4. CASE \E r \in Repos : row[r] # None /\ context = Context(r, row[r])
    <3>1. Earlier(context, row)
      <4>1. PICK r \in Repos : row[r] # None /\ context = Context(r, row[r])
        BY <2>4
      <4>2. row[r].generation \in Nat
        BY <1>1, <4>1 DEF RegistryTypes, Row
      <4> QED
        BY <4>1, <4>2 DEF Earlier, Context
    <3> QED
      BY <1>1, <3>1, StaysEarlier
  <2> QED
    BY <1>3, <2>1, <2>2, <2>3, <2>4 DEF Seen
<1>4. ContextsSeen
  <2>1. CASE UNCHANGED th
    BY <2>1 DEF ContextsSeen, Seen
  <2>2. CASE \E t \in Threads : Arrive(t) \/ Lookup(t) \/ Create(t) \/ Operate(t)
    BY <2>2, ThreadsSeen
  <2>3. StopBegin \/ Stop \/ (\E r \in Repos : Reinstall(r) \/ Forget(r)) \/ UNCHANGED vars
        => UNCHANGED th
    BY DEF StopBegin, Stop, StopCollect, StopClose, StopDrained, StopRelease, Reinstall, Forget, vars
  <2> QED
    BY <2>1, <2>2, <2>3 DEF Next, Step
<1>5. ASSUME NEW t \in Threads, th'[t].context # None PROVE Earlier(th'[t].context, row')
  <2>1. th'[t].context \in RepositoryContext
    BY <1>1, <1>5 DEF TypeOK, Thread
  <2> QED
    BY <1>3, <1>4, <2>1 DEF ContextsSeen
<1>6. ASSUME NEW c \in Slots, conts'[c] # Down PROVE Earlier(conts'[c].context, row')
  <2>1. conts'[c].context \in RepositoryContext
    BY <1>1, <1>6 DEF TypeOK, Container
  <2>2. Seen(conts'[c].context)
    <3>1. CASE \A t \in Threads : ~Build(t)
      BY <1>6, <3>1, ContainersKept DEF ContsKept, Seen
    <3>2. CASE \E t \in Threads : Build(t)
      <4>1. PICK t \in Threads, d \in Slots :
                conts' = [conts EXCEPT ![d] = [context |-> th[t].context, closed |-> FALSE,
                                               failed |-> FALSE]]
        BY <3>2 DEF Build, FreeSlots
      <4> QED
        BY <1>1, <1>6, <4>1 DEF TypeOK, Seen
    <3> QED
      BY <3>1, <3>2
  <2> QED
    BY <1>3, <2>1, <2>2
<1> QED
  BY <1>2, <1>5, <1>6 DEF UniqueInv

\* A generation belongs to one registration: whatever holds a context, in a thread,
\* a container or the cache, it is the row's or has an earlier generation.
THEOREM NoGenerationTwice == Spec => []GenerationsAreUnique
<1>1. Init => UniqueInv
  BY DEF Init, RegistryInit, UniqueInv, Idle
<1>2. IInv /\ IInv' /\ UniqueInv /\ [Next]_vars => UniqueInv'
  BY UniqueInductive
<1>3. IInv /\ UniqueInv => GenerationsAreUnique
  <2> SUFFICES ASSUME IInv, UniqueInv, NEW t \in Threads, th[t].context # None, Stored(Repo(t)) # None,
                      th[t].context.generation = Stored(Repo(t)).generation
               PROVE  th[t].context = Stored(Repo(t))
    BY DEF GenerationsAreUnique
  <2>1. th[t].context \in RepositoryContext /\ Earlier(th[t].context, row)
    BY DEF IInv, TypeOK, Thread, UniqueInv
  <2>2. Stored(Repo(t)) = Context(Repo(t), row[Repo(t)])
    BY DEF Stored
  <2>3. th[t].context.generation = row[Repo(t)].generation
        /\ th[t].context.installation = row[Repo(t)].installation
    BY <2>1, <2>2 DEF Earlier, Context, Repo
  <2> QED
    BY <2>1, <2>2, <2>3 DEF Context, Repo, RepositoryContext
<1> QED
  BY <1>1, <1>2, <1>3, Invariant, PTL DEF Spec
===============================================================================
