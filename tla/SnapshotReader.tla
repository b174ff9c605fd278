----------------------------- MODULE SnapshotReader -----------------------------
(***************************************************************************)
(* How a snapshot of a pull request is read (server/snapshot.py): a look   *)
(* at it, the pull requests with its head, its files, a fetch into a cache *)
(* that all reads of the repository share, the diff, and a second look.    *)
(* People push, rewrite, retarget, edit and close in between, and GitHub   *)
(* moves refs/pull/N/head some time after the head.  The lock of the       *)
(* service lets one read run at a time.                                    *)
(***************************************************************************)
EXTENDS Naturals, FiniteSets

CONSTANTS
    Prs, Heads, Bases, Texts,  \* a text stands for title, body, labels and author
    Shape,                     \* of each head: its files and line counts
    TooLarge,                  \* heads beyond 200 files or 10000 lines
    Supported,                 \* bases on the branch of the workflow
    Nothing,
    MaxChanges, MaxReads       \* bounds

ASSUME ReaderAssumption ==
    /\ TooLarge \subseteq Heads /\ Supported \subseteq Bases
    /\ DOMAIN Shape = Heads
    /\ MaxChanges \in Nat /\ MaxReads \in Nat
    /\ Nothing \notin Prs \cup Heads

VARIABLES
    pull,           \* GitHub: what it shows of each pull request
    ref,            \* GitHub: refs/pull/N/head
    cache,          \* the cache: refs/tlh/pr/N
    step,           \* what the read does next, or how the last one ended
    pr,             \* the pull request it reads
    first,          \* its first look at it
    files,          \* the shape of the files it was sent
    content,        \* what it made of the cache
    taken,          \* the snapshot last returned for each pull request
    moved,          \* whether the pull request or its ref changed since the first look
    alone,          \* whether no other open one had that head, at some moment since
    changes, reads  \* counters of what is bounded

remote == <<pull, ref>>
local == <<cache, taken>>
look == <<pr, first, files, content>>
history == <<moved, alone, changes, reads>>
vars == <<pull, ref, cache, step, pr, first, files, content, taken, moved, alone, changes, reads>>

Shows == [head : Heads, base : Bases, text : Texts, open : BOOLEAN]
Content == [diff : Bases \X Heads, policy : Bases, structure : Heads]
Snapshot == [head : Heads, base : Bases, text : Texts, diff : Bases \X Heads,
             policy : Bases, structure : Heads]

Steps == {"head", "files", "fetch", "build", "second"}
Outcomes == {"idle", "taken", "changed", "unsupported", "failed"}
Reading == step \in Steps

\* Open pull requests other than p that show the head.
Sharing(pulls, p, head) == {q \in Prs \ {p} : pulls[q].open /\ pulls[q].head = head}

\* A pull request nobody changes is one whose ref GitHub has moved.
Settled(p) == ref[p] = pull[p].head

-------------------------------------------------------------------------------
Init ==
    /\ \E text \in Texts : pull \in [Prs -> [head : Heads, base : Supported, text : {text}, open : BOOLEAN]]
    /\ ref = [p \in Prs |-> pull[p].head]
    /\ cache = [p \in Prs |-> Nothing]
    /\ step = "idle"
    /\ pr = Nothing /\ first = Nothing /\ files = Nothing /\ content = Nothing
    /\ taken = [p \in Prs |-> Nothing]
    /\ moved = FALSE /\ alone = FALSE
    /\ changes = 0 /\ reads = 0

\* How the read goes on or ends, everything it found so far kept.
Continue(next) == step' = next /\ UNCHANGED <<remote, history>>

\* read, its first look: merge queues and other branches are refused.
FirstLook(p) ==
    /\ ~Reading
    /\ reads < MaxReads
    /\ reads' = reads + 1
    /\ pr' = p
    /\ first' = pull[p]
    /\ files' = Nothing /\ content' = Nothing
    /\ step' = IF pull[p].base \notin Supported THEN "unsupported"
               ELSE IF pull[p].open THEN "head" ELSE "files"
    /\ moved' = ~Settled(p)
    /\ alone' = (Sharing(pull, p, pull[p].head) = {})
    /\ UNCHANGED <<remote, local, changes>>

\* Bug: the head is the one the pull request has by now.
HeadIsSharedNow == Sharing(pull, pr, pull[pr].head) # {}

\* An open pull request must be the only one with its head.
HeadIsShared == Sharing(pull, pr, first.head) # {}

CheckHead ==
    /\ step = "head"
    /\ Continue(IF HeadIsShared THEN "unsupported" ELSE "files")
    /\ UNCHANGED <<local, look>>

\* The limits, then the files the pull request has by now, as many as it said.
ReadFiles ==
    /\ step = "files"
    /\ IF first.head \in TooLarge
       THEN Continue("unsupported") /\ UNCHANGED files
       ELSE /\ files' = Shape[pull[pr].head]
            /\ Continue(IF files' = Shape[first.head] THEN "fetch" ELSE "changed")
    /\ UNCHANGED <<local, pr, first, content>>

\* Bug: without the plus sign a rewritten head is not fetched.
FetchedUnforced == IF cache[pr] = Nothing THEN ref[pr] ELSE cache[pr]

\* The forced fetch moves the ref of the cache, whatever an earlier read left.
Fetched == ref[pr]

\* _prepare_cache and _fetch_refs: the remote is removed and added on each read.
Fetch ==
    /\ step = "fetch"
    /\ cache' = [cache EXCEPT ![pr] = Fetched]
    /\ Continue("build")
    /\ UNCHANGED <<taken, look>>

\* Bug: the commit that was fetched is not compared.
FetchedIsAny == TRUE

\* What was fetched is the head of the first look, or the read ends.
FetchedIsFirst == cache[pr] = first.head

\* rev-parse and diff, compared with what GitHub said; the policy and the
\* owners of the base, and the structure of the tree under the ref.
Build ==
    /\ step = "build"
    /\ IF FetchedIsFirst /\ Shape[cache[pr]] = files
       THEN /\ content' = [diff |-> <<first.base, cache[pr]>>, policy |-> first.base,
                           structure |-> cache[pr]]
            /\ Continue("second")
       ELSE Continue("changed") /\ UNCHANGED content
    /\ UNCHANGED <<local, pr, first, files>>

\* _PullData.fingerprint, in which the state is not.
Fingerprint(shown) == <<shown.head, shown.base, shown.text>>

\* The second look, the score with its text, and the snapshot.
SecondLook ==
    /\ step = "second"
    /\ LET latest == pull[pr]
       IN  IF Fingerprint(latest) = Fingerprint(first)
           THEN /\ taken' = [taken EXCEPT ![pr] =
                      [head |-> latest.head, base |-> latest.base, text |-> latest.text,
                       diff |-> content.diff, policy |-> content.policy,
                       structure |-> content.structure]]
                /\ Continue("taken")
           ELSE Continue("changed") /\ UNCHANGED taken
    /\ UNCHANGED <<cache, look>>

\* GitHub or git refuses or times out, a file is of a kind that is not
\* supported, or the process dies; a fetch may have moved the ref before.
Fail ==
    /\ Reading
    /\ \/ UNCHANGED cache
       \/ step = "fetch" /\ cache' = [cache EXCEPT ![pr] = ref[pr]]
    /\ Continue("failed")
    /\ UNCHANGED <<taken, look>>

-------------------------------------------------------------------------------
\* People push, retarget, edit, close and reopen a pull request.
Edited(shown) ==
    {[shown EXCEPT !.head = head] : head \in Heads}
        \cup {[shown EXCEPT !.base = base] : base \in Bases}
        \cup {[shown EXCEPT !.text = text] : text \in Texts}
        \cup {[shown EXCEPT !.open = ~@]}

Change(p) ==
    /\ changes < MaxChanges
    /\ changes' = changes + 1
    /\ \E shown \in Edited(pull[p]) \ {pull[p]} : pull' = [pull EXCEPT ![p] = shown]
    /\ moved' = (moved \/ p = pr)
    /\ alone' = (alone \/ (pr # Nothing /\ Sharing(pull', pr, first.head) = {}))
    /\ UNCHANGED <<ref, local, look, step, reads>>

\* GitHub moves the ref of a pull request after its head.
MoveRef(p) ==
    /\ ~Settled(p)
    /\ ref' = [ref EXCEPT ![p] = pull[p].head]
    /\ moved' = (moved \/ p = pr)
    /\ UNCHANGED <<pull, local, look, step, alone, changes, reads>>

Read == CheckHead \/ ReadFiles \/ Fetch \/ Build \/ SecondLook \/ Fail

Done == ~Reading /\ reads = MaxReads /\ UNCHANGED vars

Next ==
    \/ Read
    \/ \E p \in Prs : FirstLook(p) \/ Change(p) \/ MoveRef(p)
    \/ Done

Spec == Init /\ [][Next]_vars

-------------------------------------------------------------------------------
TypeOK ==
    /\ pull \in [Prs -> Shows]
    /\ ref \in [Prs -> Heads]
    /\ cache \in [Prs -> Heads \cup {Nothing}]
    /\ step \in Steps \cup Outcomes
    /\ pr \in Prs \cup {Nothing}
    /\ first \in Shows \cup {Nothing}
    /\ content \in Content \cup {Nothing}
    /\ taken \in [Prs -> Snapshot \cup {Nothing}]
    /\ moved \in BOOLEAN /\ alone \in BOOLEAN
    /\ changes \in 0..MaxChanges /\ reads \in 0..MaxReads

\* A snapshot is all of one moment: however the pull request is changed during
\* the read, and changed back, the snapshot that read returns is the photograph
\* of what GitHub shows when it is returned, the diff and the policy included.
Camera == INSTANCE AtomicSnapshot
ImplementsAtomicSnapshot == Camera!Spec

\* A read of a pull request that nobody touches is never given up as changed:
\* neither a head that was rewritten between two reads nor what an interrupted
\* read left in the cache stands in the way of the next one.
OnlyMovedIsChanged == step = "changed" => moved

\* The status of a commit is all its pull requests', so a snapshot of an open
\* one is returned only if its head was its own at some moment of the read.
AloneOnItsHead == step = "taken" /\ first.open => alone
===============================================================================
