-------------------------- MODULE SnapshotReaderProofs --------------------------
(***************************************************************************)
(* SnapshotReader takes photographs, never takes stillness for change, and *)
(* returns an open pull request only with a head of its own, for all       *)
(* pull requests, heads, bases, texts and bounds.                          *)
(***************************************************************************)
EXTENDS SnapshotReader, TLAPS

\* A read, and how it ended, goes with the first look it had.
LookInv == step # "idle" \/ pr # Nothing => pr \in Prs /\ first \in Shows

\* What was made of the cache is made of the commit of the first look.
ContentInv ==
    step = "second" =>
        content = [diff |-> <<first.base, first.head>>, policy |-> first.base,
                   structure |-> first.head]

\* As long as nothing moved, what was read so far is what would be read now.
StillInv ==
    Reading /\ ~moved =>
        /\ ref[pr] = pull[pr].head
        /\ pull[pr] = first
        /\ step \in {"fetch", "build"} => files = Shape[first.head]
        /\ step = "build" => cache[pr] = first.head

\* No moment without another pull request of that head is missed, and the
\* reads of open pull requests that are past the comparison had one.
MomentInv == pr # Nothing /\ Sharing(pull, pr, first.head) = {} => alone
PastInv ==
    step \in {"files", "fetch", "build", "second", "taken"} /\ first.open => alone

ReaderInv == TypeOK /\ LookInv /\ ContentInv /\ StillInv /\ OnlyMovedIsChanged /\ MomentInv /\ PastInv

-------------------------------------------------------------------------------
\* An edit of what a pull request shows is something it can show.
LEMMA EditedShows == \A shown \in Shows : Edited(shown) \subseteq Shows
BY ZenonT(60) DEF Edited, Shows

\* The invariant holds before the first read.
LEMMA ReaderInit == Init => ReaderInv
<1> SUFFICES ASSUME Init PROVE ReaderInv
    OBVIOUS
<1> USE ReaderAssumption DEF Init, Steps, Outcomes, Reading
<1>1. PICK text \in Texts :
        pull \in [Prs -> [head : Heads, base : Supported, text : {text}, open : BOOLEAN]]
    OBVIOUS
<1>2. pull \in [Prs -> Shows] /\ ref \in [Prs -> Heads]
    BY <1>1 DEF Shows
<1>3. cache \in [Prs -> Heads \cup {Nothing}] /\ taken \in [Prs -> Snapshot \cup {Nothing}]
    OBVIOUS
<1>4. TypeOK
  <2>1. changes \in 0..MaxChanges /\ reads \in 0..MaxReads
    OBVIOUS
  <2>2. moved \in BOOLEAN /\ alone \in BOOLEAN /\ step \in Steps \cup Outcomes
    OBVIOUS
  <2>3. pr \in Prs \cup {Nothing} /\ first \in Shows \cup {Nothing} /\ content \in Content \cup {Nothing}
    OBVIOUS
  <2> QED
    BY <1>2, <1>3, <2>1, <2>2, <2>3 DEF TypeOK
<1>5. LookInv /\ MomentInv
    BY DEF LookInv, MomentInv
<1>6. ContentInv /\ StillInv /\ OnlyMovedIsChanged /\ PastInv
    BY DEF ContentInv, StillInv, OnlyMovedIsChanged, PastInv
<1> QED
    BY <1>4, <1>5, <1>6 DEF ReaderInv

\* Every step of a read, of a person and of GitHub keeps the invariant.
LEMMA ReaderStep == ReaderInv /\ [Next]_vars => ReaderInv'
<1> SUFFICES ASSUME ReaderInv, [Next]_vars PROVE ReaderInv'
    OBVIOUS
<1> USE ReaderAssumption DEF ReaderInv, TypeOK, LookInv, ContentInv, StillInv, OnlyMovedIsChanged,
        MomentInv, PastInv, Reading, Steps, Outcomes, remote, local, look, history, Continue, Settled
<1>1. ASSUME NEW p \in Prs, FirstLook(p) PROVE ReaderInv'
  <2>1. TypeOK'
    BY <1>1 DEF FirstLook, Shows
  <2>2. MomentInv' /\ PastInv'
    BY <1>1 DEF FirstLook, Shows
  <2>3. LookInv' /\ ContentInv' /\ StillInv' /\ OnlyMovedIsChanged'
    BY <1>1 DEF FirstLook, Shows
  <2> QED
    BY <2>1, <2>2, <2>3
<1>2. CASE CheckHead
    BY <1>2 DEF CheckHead, HeadIsShared
<1>3. CASE ReadFiles
    BY <1>3 DEF ReadFiles
<1>4. CASE Fetch
    BY <1>4 DEF Fetch, Fetched
<1>5. CASE Build
    BY <1>5 DEF Build, FetchedIsFirst, Content, Shows
<1>6. CASE SecondLook
    BY <1>6 DEF SecondLook, Fingerprint, Snapshot, Content, Shows
<1>7. CASE Fail
    BY <1>7 DEF Fail
<1>8. ASSUME NEW p \in Prs, Change(p) PROVE ReaderInv'
  <2>1. PICK shown \in Shows : pull' = [pull EXCEPT ![p] = shown]
    BY <1>8, EditedShows DEF Change
  <2>2. TypeOK' /\ LookInv' /\ ContentInv' /\ OnlyMovedIsChanged'
    BY <1>8, <2>1 DEF Change
  <2>3. StillInv'
    BY <1>8, <2>1 DEF Change
  <2>4. MomentInv' /\ PastInv'
    BY <1>8 DEF Change
  <2> QED
    BY <2>2, <2>3, <2>4
<1>9. ASSUME NEW p \in Prs, MoveRef(p) PROVE ReaderInv'
    BY <1>9 DEF MoveRef, Shows
<1>10. CASE UNCHANGED vars
    BY <1>10 DEF vars
<1> QED
    BY <1>1, <1>2, <1>3, <1>4, <1>5, <1>6, <1>7, <1>8, <1>9, <1>10 DEF Next, Read, Done

\* ReaderInv is an invariant.
LEMMA ReaderInvariant == Spec => []ReaderInv
BY ReaderInit, ReaderStep, PTL DEF Spec

\* Every variable keeps its type: what GitHub shows, the ref of the cache, what
\* a read holds and what it returned (SnapshotReader.read).
THEOREM TypeCorrect == Spec => []TypeOK
<1>1. ReaderInv => TypeOK
    BY DEF ReaderInv
<1> QED
    BY <1>1, ReaderInvariant, PTL

\* A read that is given up because the pull request changed was right about it.
THEOREM OnlyMovedChanged == Spec => []OnlyMovedIsChanged
<1>1. ReaderInv => OnlyMovedIsChanged
    BY DEF ReaderInv
<1> QED
    BY <1>1, ReaderInvariant, PTL

\* An open pull request whose snapshot is returned had its head to itself.
THEOREM AloneOnHead == Spec => []AloneOnItsHead
<1>1. ReaderInv => AloneOnItsHead
    BY DEF ReaderInv, PastInv, AloneOnItsHead
<1> QED
    BY <1>1, ReaderInvariant, PTL

-------------------------------------------------------------------------------
\* A step of the reader is a step of the camera or none at all: only the second
\* look takes a photograph, and what it takes is there to be seen.
LEMMA CameraStep == ReaderInv /\ [Next]_vars => [Camera!Next]_<<pull, taken>>
<1> SUFFICES ASSUME ReaderInv, [Next]_vars PROVE [Camera!Next]_<<pull, taken>>
    OBVIOUS
<1> USE DEF remote, local, look, history, Continue
<1>1. CASE SecondLook
  <2>1. CASE Fingerprint(pull[pr]) = Fingerprint(first)
    <3>1. pr \in Prs /\ content = [diff |-> <<first.base, first.head>>, policy |-> first.base,
                                   structure |-> first.head]
        BY <1>1 DEF SecondLook, ReaderInv, LookInv, ContentInv
    <3>2. first.head = pull[pr].head /\ first.base = pull[pr].base
        BY <2>1 DEF Fingerprint
    <3>3. taken' = [taken EXCEPT ![pr] = Camera!Photograph(pull[pr])] /\ UNCHANGED pull
        BY <1>1, <2>1, <3>1, <3>2 DEF SecondLook, Camera!Photograph
    <3> QED
        BY <3>1, <3>3 DEF Camera!Next, Camera!Take
  <2>2. CASE Fingerprint(pull[pr]) # Fingerprint(first)
    BY <1>1, <2>2 DEF SecondLook
  <2> QED
    BY <2>1, <2>2
<1>2. ASSUME NEW p \in Prs, Change(p) PROVE Camera!Next
  <2>1. PICK shown \in Shows : pull' = [pull EXCEPT ![p] = shown]
    BY <1>2, EditedShows DEF Change, ReaderInv, TypeOK
  <2>2. UNCHANGED taken
    BY <1>2 DEF Change
  <2> QED
    BY <2>1, <2>2 DEF Camera!Next, Camera!Change, Camera!Shows, Shows
<1>3. ASSUME NEW p \in Prs, FirstLook(p) \/ MoveRef(p) PROVE UNCHANGED <<pull, taken>>
    BY <1>3 DEF FirstLook, MoveRef
<1>4. CASE CheckHead \/ ReadFiles \/ Fetch \/ Build \/ Fail
    BY <1>4 DEF CheckHead, ReadFiles, Fetch, Build, Fail
<1>5. CASE UNCHANGED vars
    BY <1>5 DEF vars
<1> QED
    BY <1>1, <1>2, <1>3, <1>4, <1>5 DEF Next, Read, Done

\* The reader implements the camera: however many looks and commands a read
\* takes, its snapshot is of one moment, that of its second look.
THEOREM ReaderIsCamera == Spec => ImplementsAtomicSnapshot
<1>1. Init => Camera!Init
  <2> SUFFICES ASSUME Init PROVE Camera!Init
    OBVIOUS
  <2>1. pull \in [Prs -> Shows]
    BY ReaderInit DEF ReaderInv, TypeOK
  <2> QED
    BY <2>1 DEF Init, Camera!Init, Camera!Shows, Shows
<1> QED
    BY <1>1, CameraStep, ReaderInvariant, PTL DEF Spec, ImplementsAtomicSnapshot, Camera!Spec
===============================================================================
