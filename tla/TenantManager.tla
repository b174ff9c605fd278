----------------------------- MODULE TenantManager -----------------------------
(***************************************************************************)
(* The gateway: threads that look up the container of a repository, create *)
(* it when there is none for the current generation, shut the old one down *)
(* before, and run operations in it; the manager's shutdown beside them.    *)
(*                                                                         *)
(* A container is the runtime of one generation on the repository's store. *)
(* A thread is a request, which may read peer repositories from within its *)
(* operation (the organization page), or a tick of the coordinator.        *)
(***************************************************************************)
EXTENDS RepositoryRegistry, FiniteSets

CONSTANTS
    Threads,
    Slots,          \* objects in memory for containers, numbered from 1
    MoreEvents,     \* whether a repository has more than one event under its name
    MayFail,        \* whether a container may fail to shut down
    MaxChanges      \* bound on the changes of installations at GitHub

ASSUME ManagerAssumption ==
    /\ None \notin Threads
    /\ Slots \subseteq Nat \ {0}
    /\ {MayFail, MoreEvents} \subseteq BOOLEAN
    /\ MaxChanges \in Nat

VARIABLES
    conts,      \* containers
    serving,    \* _containers: the slot of each repository, or 0
    retiring,   \* _retiring
    creating,   \* _creating: the thread that creates, or None
    th,         \* threads
    posted,     \* the generation each repository last published in
    stop,       \* the manager's shutdown
    events,     \* signed events on their way
    changes

manager == <<serving, retiring, creating>>
vars == <<installed, registry, conts, manager, th, posted, stop, events, changes>>

\* A slot without a container whose store is open.
Down == [context |-> None, closed |-> TRUE, failed |-> FALSE]
Container == [context : RepositoryContext, closed : BOOLEAN, failed : BOOLEAN]
Slot == Slots \cup {0}

InOperation == {"opened", "working", "posting", "peers", "leaving"}
InCreation == {"replace", "drain", "draining", "check", "build", "confirm", "publish", "discard"}

Thread == [pc : {"idle", "want", "lock", "waiting", "told", "enter"} \cup InOperation \cup InCreation,
           kind : {"request", "tick"}, context : RepositoryContext \cup {None},
           cont : Slot, outer : Slot, read : BOOLEAN]
Idle == [pc |-> "idle", kind |-> "request", context |-> None, cont |-> 0, outer |-> 0,
         read |-> FALSE]
Start(kind, context) == [Idle EXCEPT !.pc = "want", !.kind = kind, !.context = context]

TypeOK ==
    /\ RegistryTypes
    /\ conts \in [Slots -> Container \cup {Down}]
    /\ serving \in [Repos -> Slot]
    /\ retiring \in [Repos -> Slot]
    /\ creating \in [Repos -> Threads \cup {None}]
    /\ th \in [Threads -> Thread]
    /\ posted \in [Repos -> Nat]
    /\ stop \in [pc : {"no", "waiting", "closing", "draining", "released", "failed"},
                 left : SUBSET Slots, cont : Slot]
    /\ events \subseteq Repos \X Names
    /\ changes \in Nat

\* GitHub delivers an event of every repository.
Init ==
    /\ RegistryInit
    /\ conts = [c \in Slots |-> Down]
    /\ serving = [r \in Repos |-> 0]
    /\ retiring = [r \in Repos |-> 0]
    /\ creating = [r \in Repos |-> None]
    /\ th = [t \in Threads |-> Idle]
    /\ posted = [r \in Repos |-> 0]
    /\ stop = [pc |-> "no", left |-> {}, cont |-> 0]
    /\ events = {<<r, NameOf[installed[r]]>> : r \in Repos}
    /\ changes = 0

-------------------------------------------------------------------------------
\* Threads.

Repo(t) == th[t].context.repo

\* The operations a container has to wait for.
Operations(c) == {t \in Threads : \/ th[t].cont = c /\ th[t].pc \in InOperation
                                  \/ th[t].outer = c}

Go(t, pc) == th' = [th EXCEPT ![t].pc = pc]

\* A thread is through with its context: a request's own operation goes on when
\* the context was a peer's, or ends.
Through(thread) ==
    IF thread.outer = 0 THEN Idle
    ELSE [thread EXCEPT !.pc = "working", !.context = conts[thread.outer].context,
                        !.cont = thread.outer, !.outer = 0]

Give(t) == th' = [th EXCEPT ![t] = Through(@)]

\* The creation of t ends, with container c or, when c is 0, with an error.
EndCreation(t, c) ==
    /\ creating' = [creating EXCEPT ![Repo(t)] = None]
    /\ th' = [x \in Threads |->
                 IF x = t THEN IF c # 0 THEN [th[t] EXCEPT !.pc = "enter", !.cont = c]
                               ELSE Through(th[t])
                 ELSE IF th[x].pc # "waiting" \/ Repo(x) # Repo(t) THEN th[x]
                 ELSE IF th[x].context # th[t].context THEN [th[x] EXCEPT !.pc = "want"]
                 ELSE IF c # 0 THEN [th[x] EXCEPT !.pc = "told", !.cont = c]
                 ELSE Through(th[x])]

\* Requests of people and of workflow runs, by the id in their route.
Visit(t) ==
    /\ th[t] = Idle
    /\ stop.pc = "no"
    /\ \E r \in Repos, found \in BOOLEAN :
           /\ Resolve(r, found)
           /\ th' = [th EXCEPT ![t] = IF found THEN Start("request", cache'[r]) ELSE @]
    /\ UNCHANGED <<installed, conts, manager, posted, stop, events, changes>>

\* A signed event of a pull request, which registers its repository.
Event(t) ==
    /\ th[t] = Idle
    /\ stop.pc = "no"
    /\ \E e \in events, found \in BOOLEAN :
           /\ Register(e[1], e[2], found)
           /\ \/ events' = events \ {e}
              \/ MoreEvents /\ Confirmed(e[1], e[2]) /\ UNCHANGED events
           /\ th' = [th EXCEPT ![t] = IF found THEN Start("request", cache'[e[1]]) ELSE @]
    /\ UNCHANGED <<installed, conts, manager, posted, stop, changes>>

\* _schedule_context_tick: one tick of a repository at a time.
Tick(t) ==
    /\ th[t] = Idle
    /\ stop.pc = "no"
    /\ \E context \in Registered :
           /\ \A x \in Threads : th[x].kind = "tick" => Repo(x) # context.repo
           /\ th' = [th EXCEPT ![t] = Start("tick", context)]
    /\ UNCHANGED <<installed, registry, conts, manager, posted, stop, events, changes>>

-------------------------------------------------------------------------------
\* container_for_context

\* The context must be the current one, here and wherever it is used.
Want(t) ==
    /\ th[t].pc = "want"
    /\ \E ok \in BOOLEAN :
           /\ RequireCurrent(th[t].context, ok)
           /\ IF ok THEN Go(t, "lock") ELSE Give(t)
    /\ UNCHANGED <<installed, conts, manager, posted, stop, events, changes>>

\* Mutant: a nested read waits for the creation of a peer.
MayWaitAlways(t) == th[t].pc = "lock"

\* An operation that reads a peer does not wait for creations.
MayWait(t) == th[t].outer = 0

\* The container is there.
Find(t) ==
    /\ th[t].pc = "lock"
    /\ LET c == serving[Repo(t)]
       IN /\ stop.pc = "no"
          /\ creating[Repo(t)] = None
          /\ c # 0 /\ conts[c].context = th[t].context
          /\ th' = [th EXCEPT ![t].pc = "enter", ![t].cont = c]
    /\ UNCHANGED <<installed, registry, conts, manager, posted, stop, events, changes>>

IsThere(t) == serving[Repo(t)] # 0 /\ conts[serving[Repo(t)]].context = th[t].context

\* It is not, and nobody creates it.
BeginCreation(t) ==
    /\ th[t].pc = "lock"
    /\ stop.pc = "no"
    /\ creating[Repo(t)] = None
    /\ ~IsThere(t)
    /\ MayWait(t) \/ {serving[Repo(t)], retiring[Repo(t)]} = {0}
    /\ creating' = [creating EXCEPT ![Repo(t)] = t]
    /\ Go(t, "replace")
    /\ UNCHANGED <<installed, registry, conts, serving, retiring, posted, stop, events, changes>>

\* Somebody does.
Wait(t) ==
    /\ th[t].pc = "lock"
    /\ stop.pc = "no"
    /\ creating[Repo(t)] # None
    /\ MayWait(t)
    /\ Go(t, "waiting")
    /\ UNCHANGED <<installed, registry, conts, manager, posted, stop, events, changes>>

\* The gateway shuts down, or the repository is in transition.
Refuse(t) ==
    /\ th[t].pc = "lock"
    /\ \/ stop.pc # "no"
       \/ creating[Repo(t)] # None /\ ~MayWait(t)
       \/ /\ creating[Repo(t)] = None /\ ~IsThere(t) /\ ~MayWait(t)
          /\ {serving[Repo(t)], retiring[Repo(t)]} # {0}
    /\ Give(t)
    /\ UNCHANGED <<installed, registry, conts, manager, posted, stop, events, changes>>

\* A thread that waited is given the container that was created.
Told(t) ==
    /\ th[t].pc = "told"
    /\ \E ok \in BOOLEAN :
           /\ RequireCurrent(th[t].context, ok)
           /\ IF ok /\ stop.pc = "no" THEN Go(t, "enter") ELSE Give(t)
    /\ UNCHANGED <<installed, conts, manager, posted, stop, events, changes>>

-------------------------------------------------------------------------------
\* _build_and_publish_container

\* Mutant: the new container does not wait for the old one.
ReplaceAtOnce(t) ==
    /\ th[t].pc = "replace"
    /\ retiring' = [retiring EXCEPT ![Repo(t)] = serving[Repo(t)]]
    /\ serving' = [serving EXCEPT ![Repo(t)] = 0]
    /\ Go(t, "check")
    /\ UNCHANGED <<installed, registry, conts, creating, posted, stop, events, changes>>

\* The old container is taken out of service.
Replace(t) ==
    LET r == Repo(t)
        old == IF serving[r] # 0 THEN serving[r] ELSE retiring[r]
    IN /\ th[t].pc = "replace"
       /\ serving' = [serving EXCEPT ![r] = 0]
       /\ retiring' = [retiring EXCEPT ![r] = old]
       /\ th' = [th EXCEPT ![t].pc = IF old # 0 THEN "drain" ELSE "check", ![t].cont = old]
       /\ UNCHANGED <<installed, registry, conts, creating, posted, stop, events, changes>>

\* It admits no more operations.
Drain(t) ==
    /\ th[t].pc = "drain"
    /\ ~conts[th[t].cont].closed
    /\ conts' = [conts EXCEPT ![th[t].cont].closed = TRUE]
    /\ Go(t, "draining")
    /\ UNCHANGED <<installed, registry, manager, posted, stop, events, changes>>

\* The operations of a container have ended.
HasEnded(c) == Operations(c) = {}

\* Its operations have ended, and its executors and its store with them.
Drained(t) ==
    /\ th[t].pc = "draining"
    /\ HasEnded(th[t].cont)
    /\ conts' = [conts EXCEPT ![th[t].cont] = Down]
    /\ retiring' = [retiring EXCEPT ![Repo(t)] = 0]
    /\ th' = [th EXCEPT ![t].pc = "check", ![t].cont = 0]
    /\ UNCHANGED <<installed, registry, serving, creating, posted, stop, events, changes>>

\* Mutant: a container that fails to shut down is forgotten.
DrainForgets(t) ==
    /\ th[t].pc = "draining"
    /\ MayFail
    /\ HasEnded(th[t].cont)
    /\ conts' = [conts EXCEPT ![th[t].cont].failed = TRUE]
    /\ retiring' = [retiring EXCEPT ![Repo(t)] = 0]
    /\ EndCreation(t, 0)
    /\ UNCHANGED <<installed, registry, serving, posted, stop, events, changes>>

\* It fails to shut down, or has failed before, and stays where it is.
DrainFails(t) ==
    /\ \/ /\ th[t].pc = "draining"
          /\ MayFail
          /\ HasEnded(th[t].cont)
          /\ conts' = [conts EXCEPT ![th[t].cont].failed = TRUE]
       \/ /\ th[t].pc = "drain"
          /\ conts[th[t].cont].failed
          /\ UNCHANGED conts
    /\ EndCreation(t, 0)
    /\ UNCHANGED <<installed, registry, serving, retiring, posted, stop, events, changes>>

Check(t) ==
    /\ th[t].pc = "check"
    /\ \E ok \in BOOLEAN :
           /\ RequireCurrent(th[t].context, ok)
           /\ IF ok THEN Go(t, "build") /\ UNCHANGED creating ELSE EndCreation(t, 0)
    /\ UNCHANGED <<installed, conts, serving, retiring, posted, stop, events, changes>>

FreeSlots == {c \in Slots : conts[c] = Down /\ \A x \in Threads : c \notin {th[x].cont, th[x].outer}}

\* _create_container opens the store.
Build(t) ==
    /\ th[t].pc = "build"
    /\ \E c \in FreeSlots :
           /\ \A d \in FreeSlots : c <= d
           /\ conts' = [conts EXCEPT ![c] = [context |-> th[t].context, closed |-> FALSE,
                                             failed |-> FALSE]]
           /\ th' = [th EXCEPT ![t].pc = "confirm", ![t].cont = c]
    /\ UNCHANGED <<installed, registry, manager, posted, stop, events, changes>>

BuildFails(t) ==
    /\ th[t].pc = "build"
    /\ EndCreation(t, 0)
    /\ UNCHANGED <<installed, registry, conts, serving, retiring, posted, stop, events, changes>>

\* The new container is not to be published, and is retired itself.
Unpublished(t) ==
    /\ retiring' = [retiring EXCEPT ![Repo(t)] = th[t].cont]
    /\ Go(t, "discard")

Confirm(t) ==
    /\ th[t].pc = "confirm"
    /\ \E ok \in BOOLEAN :
           /\ RequireCurrent(th[t].context, ok)
           /\ IF ok THEN Go(t, "publish") /\ UNCHANGED retiring ELSE Unpublished(t)
    /\ UNCHANGED <<installed, conts, serving, creating, posted, stop, events, changes>>

MayPublish == stop.pc = "no"

Publish(t) ==
    /\ th[t].pc = "publish"
    /\ MayPublish
    /\ serving' = [serving EXCEPT ![Repo(t)] = th[t].cont]
    /\ EndCreation(t, th[t].cont)
    /\ UNCHANGED <<installed, registry, conts, retiring, posted, stop, events, changes>>

PublishTooLate(t) ==
    /\ th[t].pc = "publish"
    /\ ~MayPublish
    /\ Unpublished(t)
    /\ UNCHANGED <<installed, registry, conts, serving, creating, posted, stop, events, changes>>

\* Nobody has used it, so that it has no operations to wait for.
Discard(t) ==
    /\ th[t].pc = "discard"
    /\ \/ /\ conts' = [conts EXCEPT ![th[t].cont] = Down]
          /\ retiring' = [retiring EXCEPT ![Repo(t)] = 0]
       \/ /\ MayFail
          /\ conts' = [conts EXCEPT ![th[t].cont].closed = TRUE, ![th[t].cont].failed = TRUE]
          /\ UNCHANGED retiring
    /\ EndCreation(t, 0)
    /\ UNCHANGED <<installed, registry, serving, posted, stop, events, changes>>

-------------------------------------------------------------------------------
\* Operations of a container.

Admits(c) == ~conts[c].closed

\* _operation counts the thread in.
Enter(t) ==
    /\ th[t].pc = "enter"
    /\ IF Admits(th[t].cont) THEN Go(t, "opened") ELSE Give(t)
    /\ UNCHANGED <<installed, registry, conts, manager, posted, stop, events, changes>>

\* _require_open
Open(t) ==
    /\ th[t].pc = "opened"
    /\ \/ conts[th[t].cont].closed /\ Give(t) /\ NoChange
       \/ /\ ~conts[th[t].cont].closed
          /\ \E ok \in BOOLEAN :
                 /\ RequireCurrent(th[t].context, ok)
                 /\ IF ok THEN Go(t, "working") ELSE Give(t)
    /\ UNCHANGED <<installed, conts, manager, posted, stop, events, changes>>

\* The guard before a call of GitHub that changes something.
Guard(t) ==
    /\ th[t].pc = "working"
    /\ th[t].outer = 0
    /\ \E ok \in BOOLEAN :
           /\ RequireCurrent(th[t].context, ok)
           /\ IF ok THEN Go(t, "posting") ELSE Give(t)
    /\ UNCHANGED <<installed, conts, manager, posted, stop, events, changes>>

\* The call: a status, a comment, a dispatch.
Post(t) ==
    /\ th[t].pc = "posting"
    /\ posted' = [posted EXCEPT ![Repo(t)] = th[t].context.generation]
    /\ Go(t, "leaving")
    /\ UNCHANGED <<installed, registry, conts, manager, stop, events, changes>>

\* The organization page asks for its own context first.
ReadPeers(t) ==
    /\ th[t].pc = "working"
    /\ th[t].kind = "request" /\ th[t].outer = 0 /\ ~th[t].read
    /\ \E ok \in BOOLEAN :
           /\ RequireCurrent(th[t].context, ok)
           /\ th' = [th EXCEPT ![t].pc = IF ok THEN "peers" ELSE "leaving", ![t].read = TRUE]
    /\ UNCHANGED <<installed, conts, manager, posted, stop, events, changes>>

\* One of the registered repositories, its own among them.
ResolvePeer(t) ==
    /\ th[t].pc = "peers"
    /\ \/ \E context \in Registered, found \in BOOLEAN :
              /\ Resolve(context.repo, found)
              /\ th' = [th EXCEPT ![t] =
                           IF found THEN [@ EXCEPT !.pc = "want", !.context = cache'[context.repo],
                                                   !.cont = 0, !.outer = th[t].cont]
                           ELSE [@ EXCEPT !.pc = "leaving"]]
       \/ Registered = {} /\ NoChange /\ Go(t, "leaving")
    /\ UNCHANGED <<installed, conts, manager, posted, stop, events, changes>>

\* The operation ends; an answer is given only if its context is still current.
Leave(t) ==
    /\ th[t].pc \in {"working", "leaving"}
    /\ \/ (th[t].kind = "tick" \/ conts[th[t].cont].closed) /\ NoChange
       \/ /\ th[t].kind = "request" /\ ~conts[th[t].cont].closed
          /\ \E ok \in BOOLEAN : RequireCurrent(th[t].context, ok)
    /\ Give(t)
    /\ UNCHANGED <<installed, conts, manager, posted, stop, events, changes>>

-------------------------------------------------------------------------------
\* shutdown of the manager

StopBegin ==
    /\ stop.pc = "no"
    /\ stop' = [stop EXCEPT !.pc = "waiting"]
    /\ UNCHANGED <<installed, registry, conts, manager, th, posted, events, changes>>

Ticking == \E t \in Threads : th[t].kind = "tick"

\* Mutant: the creations that are on their way are not waited for.
AllTicked == ~Ticking

\* _wait_for_creations, and the executor's shutdown
AllCreated == ~Ticking /\ \A r \in Repos : creating[r] = None

StopCollect ==
    /\ stop.pc = "waiting"
    /\ AllCreated
    /\ stop' = [stop EXCEPT !.pc = "closing",
                            !.left = ({serving[r] : r \in Repos} \cup {retiring[r] : r \in Repos}) \ {0}]
    /\ serving' = [r \in Repos |-> 0]
    /\ UNCHANGED <<installed, registry, conts, retiring, creating, th, posted, events, changes>>

\* Containers that have failed to shut down come last, and fail again.
StopClose ==
    /\ stop.pc = "closing"
    /\ \E c \in stop.left :
           \/ /\ ~conts[c].failed
              /\ conts' = [conts EXCEPT ![c].closed = TRUE]
              /\ stop' = [stop EXCEPT !.pc = "draining", !.cont = c]
           \/ /\ \A d \in stop.left : conts[d].failed
              /\ stop' = [stop EXCEPT !.pc = "failed"]
              /\ UNCHANGED conts
    /\ UNCHANGED <<installed, registry, manager, th, posted, events, changes>>

StopDrained ==
    /\ stop.pc = "draining"
    /\ HasEnded(stop.cont)
    /\ \/ /\ conts' = [conts EXCEPT ![stop.cont] = Down]
          /\ stop' = [pc |-> "closing", left |-> stop.left \ {stop.cont}, cont |-> 0]
       \/ /\ MayFail
          /\ conts' = [conts EXCEPT ![stop.cont].failed = TRUE]
          /\ stop' = [stop EXCEPT !.pc = "failed"]
    /\ UNCHANGED <<installed, registry, manager, th, posted, events, changes>>

\* The registry forgets its caches, and the lock of the data directory is released.
StopRelease ==
    /\ stop.pc = "closing"
    /\ stop.left = {}
    /\ stop' = [stop EXCEPT !.pc = "released"]
    /\ cache' = [r \in Repos |-> None]
    /\ denied' = {}
    /\ UNCHANGED <<installed, row, conts, manager, th, posted, events, changes>>

-------------------------------------------------------------------------------
\* The App is installed, removed, or installed again; the repository gets
\* another name; an event is signed with the name it has then.
Reinstall(r) ==
    /\ changes < MaxChanges
    /\ changes' = changes + 1
    /\ \E i \in (Installations \cup {None}) \ {installed[r]} :
           /\ installed' = [installed EXCEPT ![r] = i]
           /\ events' = IF i = None THEN events ELSE events \cup {<<r, NameOf[i]>>}
    /\ UNCHANGED <<registry, conts, manager, th, posted, stop>>

Forget(r) ==
    /\ Expire(r)
    /\ UNCHANGED <<installed, conts, manager, th, posted, stop, events, changes>>

-------------------------------------------------------------------------------
Arrive(t) == Visit(t) \/ Event(t) \/ Tick(t)
Lookup(t) == \/ Want(t)
             \/ Find(t)
             \/ BeginCreation(t)
             \/ Wait(t)
             \/ Refuse(t)
             \/ Told(t)
Create(t) == \/ Replace(t)
             \/ Drain(t)
             \/ Drained(t)
             \/ DrainFails(t)
             \/ Check(t)
             \/ Build(t)
             \/ BuildFails(t)
             \/ Confirm(t)
             \/ Publish(t)
             \/ PublishTooLate(t)
             \/ Discard(t)
Operate(t) == \/ Enter(t)
              \/ Open(t)
              \/ Guard(t)
              \/ Post(t)
              \/ ReadPeers(t)
              \/ ResolvePeer(t)
              \/ Leave(t)
Step(t) == Lookup(t) \/ Create(t) \/ Operate(t)
Stop == StopCollect \/ StopClose \/ StopDrained \/ StopRelease

Next == \/ \E t \in Threads : Arrive(t) \/ Step(t)
        \/ StopBegin \/ Stop
        \/ \E r \in Repos : Reinstall(r) \/ Forget(r)

Spec == Init /\ [][Next]_vars

\* Threads run, and calls of GitHub return or time out.  Nobody has to come,
\* and the manager need never be shut down.
FairSpec == Spec /\ (\A t \in Threads : WF_vars(Step(t))) /\ WF_vars(Stop)

-------------------------------------------------------------------------------
\* At most one container of a repository has its store open, whatever becomes of
\* the old one and of the creations that fail.
OneStore ==
    \A c, d \in Slots : conts[c] # Down /\ conts[d] # Down
                        /\ conts[c].context.repo = conts[d].context.repo => c = d

\* An operation has the container it was let into until it ends.
OperationsKeepStores ==
    \A c \in Slots : Operations(c) # {} => conts[c] # Down

\* When the lock of the data directory is released, no store is open.
ReleasedIsClosed == stop.pc = "released" => \A c \in Slots : conts[c] = Down

\* A generation belongs to one registration: a context that a thread holds from
\* before never passes for another one.
GenerationsAreUnique ==
    \A t \in Threads : th[t].context # None /\ Stored(Repo(t)) # None
                       /\ th[t].context.generation = Stored(Repo(t)).generation
                       => th[t].context = Stored(Repo(t))

\* Once a generation has published, no earlier one does, not even with a call
\* that was on its way when the registration changed.
PostsInOrder == [][\A r \in Repos : posted'[r] >= posted[r]]_vars

\* A container is taken out of service only when its context is no longer current.
Superseded ==
    \A r \in Repos : serving[r] # 0 /\ serving'[r] # serving[r] /\ stop'.pc = "no"
                     => Stored(r) # conts[serving[r]].context
OnlySupersededRetired == [][Superseded]_vars

\* Every request and every tick gets its answer.
RequestsEnd == \A t \in Threads : th[t] # Idle ~> th[t] = Idle

\* The manager's shutdown comes to its end.
StopEnds == stop.pc # "no" ~> stop.pc \in {"released", "failed"}
===============================================================================
