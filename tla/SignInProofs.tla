------------------------------ MODULE SignInProofs ------------------------------
(***************************************************************************)
(* Theorems about SignIn, for any number of browsers, people and requests  *)
(* and for tables of any size: types and limits, that a browser's session  *)
(* comes from its own sign-in, that a state makes one session, and that    *)
(* only what was used longest ago makes room.                              *)
(***************************************************************************)
EXTENDS SignIn, TLAPS

-------------------------------------------------------------------------------
(* Tables.                                                                   *)

\* What removing an entry leaves: the others, in their order.
LEMMA RemovedEntry ==
    ASSUME NEW T, NEW t \in Seq(T), NEW i \in DOMAIN t
    PROVE  /\ RemoveAt(t, i) \in Seq(T)
           /\ Len(RemoveAt(t, i)) = Len(t) - 1
           /\ \A j \in DOMAIN RemoveAt(t, i) :
                 RemoveAt(t, i)[j] = IF j < i THEN t[j] ELSE t[j + 1]
<1>1. Len(t) \in Nat /\ i \in 1..Len(t)
  OBVIOUS
<1>2. /\ SubSeq(t, 1, i - 1) \in Seq(T)
      /\ Len(SubSeq(t, 1, i - 1)) = i - 1
      /\ \A j \in 1..(i - 1) : SubSeq(t, 1, i - 1)[j] = t[j]
  BY <1>1
<1>3. /\ SubSeq(t, i + 1, Len(t)) \in Seq(T)
      /\ Len(SubSeq(t, i + 1, Len(t))) = Len(t) - i
      /\ \A j \in 1..(Len(t) - i) : SubSeq(t, i + 1, Len(t))[j] = t[j + i]
  BY <1>1
<1> DEFINE front == SubSeq(t, 1, i - 1)
           back == SubSeq(t, i + 1, Len(t))
<1>a. /\ front \in Seq(T) /\ back \in Seq(T)
      /\ Len(front) = i - 1 /\ Len(back) = Len(t) - i
  BY <1>2, <1>3
<1>4. front \o back \in Seq(T) /\ Len(front \o back) = Len(t) - 1
  <2> HIDE DEF front, back
  <2> QED  BY <1>1, <1>a
<1>5. ASSUME NEW j \in 1..(Len(t) - 1)
      PROVE  (front \o back)[j] = IF j < i THEN t[j] ELSE t[j + 1]
  <2> HIDE DEF front, back
  <2>2. (front \o back)[j] = IF j <= Len(front) THEN front[j] ELSE back[j - Len(front)]
    BY <1>1, <1>a
  <2>3. CASE j < i
    BY <1>1, <1>2, <1>a, <2>2, <2>3 DEF front
  <2>4. CASE ~(j < i)
    <3>1. j - (i - 1) \in 1..(Len(t) - i) /\ (j - (i - 1)) + i = j + 1
      BY <1>1, <2>4
    <3>2. back[j - (i - 1)] = t[(j - (i - 1)) + i]
      BY <1>3, <3>1 DEF back
    <3>3. Len(front) = i - 1 /\ ~(j <= i - 1)
      BY <1>1, <1>a, <2>4
    <3>4. (front \o back)[j] = back[j - (i - 1)]
      BY <2>2, <3>3
    <3> QED  BY <2>4, <3>1, <3>2, <3>4
  <2> QED  BY <2>3, <2>4
<1>6. RemoveAt(t, i) = front \o back
  BY DEF RemoveAt
<1> HIDE DEF front, back
<1>7. DOMAIN RemoveAt(t, i) = 1..(Len(t) - 1)
  BY <1>4, <1>6
<1> QED  BY <1>4, <1>5, <1>6, <1>7

\* n is t with e after it, less its first k entries.
Joined(n, t, e, k) ==
    /\ Len(n) = Len(t) + 1 - k
    /\ \A j \in DOMAIN n : /\ j + k \in 1..(Len(t) + 1)
                          /\ n[j] = IF j + k = Len(t) + 1 THEN e ELSE t[j + k]

\* What adding an entry leaves: all of it, or all but the first.
LEMMA AddedEntry ==
    ASSUME NEW T, NEW t \in Seq(T), NEW e \in T, NEW limit \in Nat \ {0}, Len(t) <= limit
    PROVE  /\ Trimmed(Append(t, e), limit) \in Seq(T)
           /\ Len(Trimmed(Append(t, e), limit)) <= limit
           /\ \E k \in {0, 1} : Joined(Trimmed(Append(t, e), limit), t, e, k)
<1> DEFINE longer == Append(t, e)
<1>1. /\ longer \in Seq(T) /\ Len(longer) = Len(t) + 1 /\ Len(t) \in Nat
      /\ \A j \in 1..(Len(t) + 1) : longer[j] = IF j = Len(t) + 1 THEN e ELSE t[j]
  OBVIOUS
<1>2. CASE Len(longer) > limit
  <2>1. Trimmed(longer, limit) = Tail(longer)
    BY <1>2 DEF Trimmed
  <2>2. /\ Tail(longer) \in Seq(T) /\ Len(Tail(longer)) = Len(t)
        /\ \A j \in 1..Len(t) : Tail(longer)[j] = longer[j + 1]
    BY <1>1
  <2>3. Joined(Tail(longer), t, e, 1)
    BY <2>2, <1>1 DEF Joined
  <2> QED  BY <1>1, <1>2, <2>1, <2>2, <2>3
<1>3. CASE ~(Len(longer) > limit)
  <2>1. Trimmed(longer, limit) = longer
    BY <1>3 DEF Trimmed
  <2>2. Joined(longer, t, e, 0)
    BY <1>1 DEF Joined
  <2> QED  BY <1>1, <1>3, <2>1, <2>2
<1> QED  BY <1>2, <1>3

Entries(table) == {table[i] : i \in DOMAIN table}
Distinct(table) == \A i, j \in DOMAIN table : table[i].sid = table[j].sid => i = j
SessionsOK(table) == table \in Seq(Session) /\ Len(table) <= MaxSessions /\ Distinct(table)

\* Without a session, the others are as they were.
LEMMA OthersStay ==
    ASSUME SessionsOK(sessions), NEW sid
    PROVE  /\ SessionsOK(Without(sid))
           /\ Entries(Without(sid)) \subseteq {e \in Entries(sessions) : e.sid # sid}
           /\ Holds(sid) => Len(Without(sid)) < Len(sessions)
<1> DEFINE i == Position(sid)
           rest == Without(sid)
<1>1. sessions \in Seq(Session) /\ Len(sessions) \in Nat /\ Len(sessions) <= MaxSessions
      /\ MaxSessions \in Nat /\ DOMAIN sessions = 1..Len(sessions)
  BY SignInAssumption DEF SessionsOK
<1>2. CASE Holds(sid)
  <2>1. i \in DOMAIN sessions /\ sessions[i].sid = sid
    BY <1>2 DEF Holds, Sids, Position
  <2>2. rest = RemoveAt(sessions, i)
    BY <1>2 DEF Without
  <2> HIDE DEF i, rest
  <2>3. /\ rest \in Seq(Session) /\ Len(rest) = Len(sessions) - 1
        /\ \A j \in DOMAIN rest : rest[j] = IF j < i THEN sessions[j] ELSE sessions[j + 1]
    BY <1>1, <2>1, <2>2, RemovedEntry
  <2>4. DOMAIN rest = 1..(Len(sessions) - 1)
    BY <1>1, <2>3
  <2>5. ASSUME NEW j \in DOMAIN rest
        PROVE  \E k \in DOMAIN sessions : k = (IF j < i THEN j ELSE j + 1) /\ k # i /\ rest[j] = sessions[k]
    BY <1>1, <2>1, <2>3, <2>4
  <2>6. Distinct(rest)
    <3> SUFFICES ASSUME NEW j \in DOMAIN rest, NEW k \in DOMAIN rest, rest[j].sid = rest[k].sid
                 PROVE  j = k
      BY DEF Distinct
    <3>1. PICK a \in DOMAIN sessions : a = (IF j < i THEN j ELSE j + 1) /\ rest[j] = sessions[a]
      BY <2>5
    <3>2. PICK b \in DOMAIN sessions : b = (IF k < i THEN k ELSE k + 1) /\ rest[k] = sessions[b]
      BY <2>5
    <3>3. a = b
      BY <3>1, <3>2 DEF SessionsOK, Distinct
    <3> QED  BY <1>1, <2>1, <2>4, <3>1, <3>2, <3>3
  <2>7. \A j \in DOMAIN rest : rest[j] \in Entries(sessions) /\ rest[j].sid # sid
    BY <2>1, <2>5 DEF Entries, SessionsOK, Distinct
  <2>8. Entries(rest) \subseteq {e \in Entries(sessions) : e.sid # sid}
    BY <2>7 DEF Entries
  <2> QED  BY <1>1, <2>3, <2>6, <2>8 DEF SessionsOK, rest
<1>3. CASE ~Holds(sid)
  <2>1. rest = sessions
    BY <1>3 DEF Without
  <2>2. \A e \in Entries(sessions) : e.sid # sid
    BY <1>3 DEF Holds, Sids, Entries
  <2> QED  BY <1>3, <2>1, <2>2
<1> QED  BY <1>2, <1>3

\* A new session joins the others, and no session is held twice.
LEMMA SessionJoins ==
    ASSUME NEW t, SessionsOK(t), NEW e \in Session, \A o \in Entries(t) : o.sid # e.sid
    PROVE  SessionsOK(WithSession(t, e)) /\ Entries(WithSession(t, e)) \subseteq Entries(t) \cup {e}
<1> DEFINE n == WithSession(t, e)
<1>1. t \in Seq(Session) /\ Len(t) \in Nat /\ Len(t) <= MaxSessions
      /\ MaxSessions \in Nat \ {0} /\ DOMAIN t = 1..Len(t)
  BY SignInAssumption DEF SessionsOK
<1>2. n \in Seq(Session) /\ Len(n) <= MaxSessions /\ \E k \in {0, 1} : Joined(n, t, e, k)
  <2>1. n = Trimmed(Append(t, e), MaxSessions)
    BY DEF WithSession
  <2>2. /\ Trimmed(Append(t, e), MaxSessions) \in Seq(Session)
        /\ Len(Trimmed(Append(t, e), MaxSessions)) <= MaxSessions
        /\ \E k \in {0, 1} : Joined(Trimmed(Append(t, e), MaxSessions), t, e, k)
    <3>1. MaxSessions \in Nat \ {0}
      BY <1>1
    <3>2. t \in Seq(Session)
      BY <1>1
    <3>3. Len(t) <= MaxSessions
      BY <1>1
    <3> QED  BY ONLY <3>1, <3>2, <3>3, e \in Session, AddedEntry
  <2> QED  BY <2>1, <2>2, Zenon
<1> HIDE DEF n
<1>3. PICK k \in {0, 1} : Joined(n, t, e, k)
  BY <1>2
<1>4. DOMAIN n = 1..(Len(t) + 1 - k)
  BY <1>2, <1>3 DEF Joined
<1>5. ASSUME NEW j \in DOMAIN n
      PROVE  \/ j + k = Len(t) + 1 /\ n[j] = e
             \/ j + k \in DOMAIN t /\ n[j] = t[j + k]
  BY <1>1, <1>3, <1>4 DEF Joined
<1>6. ASSUME NEW i \in DOMAIN n, NEW j \in DOMAIN n, n[i].sid = n[j].sid
      PROVE  i = j
  <2>1. i \in Nat /\ j \in Nat /\ k \in Nat
    BY <1>1, <1>4
  <2>2. \A l \in DOMAIN t : t[l].sid # e.sid
    BY DEF Entries
  <2>3. \A l, m \in DOMAIN t : t[l].sid = t[m].sid => l = m
    BY DEF SessionsOK, Distinct
  <2>4. i + k = j + k
    BY <1>5, <1>6, <2>2, <2>3
  <2> QED  BY <2>1, <2>4
<1>7. \A j \in DOMAIN n : n[j] \in Entries(t) \cup {e}
  BY <1>5 DEF Entries
<1>8. Entries(n) \subseteq Entries(t) \cup {e}
  BY <1>7 DEF Entries
<1> QED  BY <1>2, <1>6, <1>8 DEF SessionsOK, Distinct, n

OneEach(table) == \A i, j \in DOMAIN table : table[i].state = table[j].state => i = j
StatesOK(table) == table \in Seq(PendingState) /\ Len(table) <= MaxStates /\ OneEach(table)

\* A state that is consumed is gone, and the others are as they were.
LEMMA StateIsTaken ==
    ASSUME StatesOK(states), NEW i \in DOMAIN states
    PROVE  /\ StatesOK(Remaining(i))
           /\ Entries(Remaining(i)) \subseteq {p \in Entries(states) : p.state # states[i].state}
<1> DEFINE rest == Remaining(i)
<1>1. states \in Seq(PendingState) /\ Len(states) \in Nat /\ Len(states) <= MaxStates
      /\ MaxStates \in Nat /\ DOMAIN states = 1..Len(states)
  BY SignInAssumption DEF StatesOK
<1>2. rest = RemoveAt(states, i)
  BY DEF Remaining
<1> HIDE DEF rest
<1>3. /\ rest \in Seq(PendingState) /\ Len(rest) = Len(states) - 1
      /\ \A j \in DOMAIN rest : rest[j] = IF j < i THEN states[j] ELSE states[j + 1]
  BY <1>1, <1>2, RemovedEntry
<1>4. DOMAIN rest = 1..(Len(states) - 1)
  BY <1>1, <1>3
<1>5. ASSUME NEW j \in DOMAIN rest
      PROVE  \E k \in DOMAIN states : k = (IF j < i THEN j ELSE j + 1) /\ k # i /\ rest[j] = states[k]
  BY <1>1, <1>3, <1>4
<1>6. OneEach(rest)
  <2> SUFFICES ASSUME NEW j \in DOMAIN rest, NEW k \in DOMAIN rest, rest[j].state = rest[k].state
               PROVE  j = k
    BY DEF OneEach
  <2>1. PICK a \in DOMAIN states : a = (IF j < i THEN j ELSE j + 1) /\ rest[j] = states[a]
    BY <1>5
  <2>2. PICK b \in DOMAIN states : b = (IF k < i THEN k ELSE k + 1) /\ rest[k] = states[b]
    BY <1>5
  <2>3. a = b
    BY <2>1, <2>2 DEF StatesOK, OneEach
  <2> QED  BY <1>1, <1>4, <2>1, <2>2, <2>3
<1>7. \A j \in DOMAIN rest : rest[j] \in Entries(states) /\ rest[j].state # states[i].state
  BY <1>5 DEF Entries, StatesOK, OneEach
<1>8. Entries(rest) \subseteq {p \in Entries(states) : p.state # states[i].state}
  BY <1>7 DEF Entries
<1> QED  BY <1>1, <1>3, <1>6, <1>8 DEF StatesOK, rest

\* The state that expires first is gone, and the others are as they were.
LEMMA StateExpires ==
    ASSUME StatesOK(states), states # <<>>
    PROVE  StatesOK(Tail(states)) /\ Entries(Tail(states)) \subseteq Entries(states)
<1> DEFINE rest == Tail(states)
<1>1. states \in Seq(PendingState) /\ Len(states) \in Nat /\ Len(states) <= MaxStates
      /\ MaxStates \in Nat /\ DOMAIN states = 1..Len(states)
  BY SignInAssumption DEF StatesOK
<1>2. /\ rest \in Seq(PendingState) /\ Len(rest) = Len(states) - 1
      /\ DOMAIN rest = 1..(Len(states) - 1)
      /\ \A j \in DOMAIN rest : j + 1 \in DOMAIN states /\ rest[j] = states[j + 1]
  BY <1>1
<1> HIDE DEF rest
<1>3. ASSUME NEW i \in DOMAIN rest, NEW j \in DOMAIN rest, rest[i].state = rest[j].state
      PROVE  i = j
  <2>1. i + 1 = j + 1
    BY <1>2, <1>3 DEF StatesOK, OneEach
  <2> QED  BY <1>1, <1>2, <2>1
<1> QED  BY <1>1, <1>2, <1>3 DEF StatesOK, OneEach, Entries, rest

\* A new state joins the others, and no state is held twice.
LEMMA StateJoins ==
    ASSUME StatesOK(states), NEW e \in PendingState, \A p \in Entries(states) : p.state # e.state
    PROVE  /\ StatesOK(Trimmed(Append(states, e), MaxStates))
           /\ Entries(Trimmed(Append(states, e), MaxStates)) \subseteq Entries(states) \cup {e}
<1> DEFINE n == Trimmed(Append(states, e), MaxStates)
<1>1. MaxStates \in Nat \ {0}
  BY SignInAssumption
<1>2. states \in Seq(PendingState)
  BY DEF StatesOK
<1>3. Len(states) <= MaxStates
  BY DEF StatesOK
<1>4. n \in Seq(PendingState) /\ Len(n) <= MaxStates /\ \E k \in {0, 1} : Joined(n, states, e, k)
  BY ONLY <1>1, <1>2, <1>3, e \in PendingState, AddedEntry
<1> HIDE DEF n
<1>5. PICK k \in {0, 1} : Joined(n, states, e, k)
  BY <1>4
<1>6. DOMAIN n = 1..(Len(states) + 1 - k) /\ DOMAIN states = 1..Len(states) /\ Len(states) \in Nat
  BY <1>2, <1>4, <1>5 DEF Joined
<1>7. ASSUME NEW j \in DOMAIN n
      PROVE  \/ j + k = Len(states) + 1 /\ n[j] = e
             \/ j + k \in DOMAIN states /\ n[j] = states[j + k]
  BY <1>5, <1>6 DEF Joined
<1>8. ASSUME NEW i \in DOMAIN n, NEW j \in DOMAIN n, n[i].state = n[j].state
      PROVE  i = j
  <2>1. i \in Nat /\ j \in Nat /\ k \in Nat
    BY <1>6
  <2>2. \A l \in DOMAIN states : states[l].state # e.state
    BY DEF Entries
  <2>3. \A l, m \in DOMAIN states : states[l].state = states[m].state => l = m
    BY DEF StatesOK, OneEach
  <2>4. i + k = j + k
    BY <1>7, <1>8, <2>2, <2>3
  <2> QED  BY <2>1, <2>4
<1>9. \A j \in DOMAIN n : n[j] \in Entries(states) \cup {e}
  BY <1>7 DEF Entries
<1>10. Entries(n) \subseteq Entries(states) \cup {e}
  BY <1>9 DEF Entries
<1> QED  BY <1>4, <1>8, <1>10 DEF StatesOK, OneEach, n

-------------------------------------------------------------------------------
(* The invariant.                                                            *)

RequestType ==
    [at : Stages, browser : Browsers \cup {Nobody}, sid : 0..MaxTokens, state : 0..MaxTokens,
     by : Browsers \cup {Nobody}]

\* The types, of the requests and of what was spent as well.
TypeInv ==
    /\ SessionsOK(sessions) /\ StatesOK(states)
    /\ request \in [Requests -> RequestType]
    /\ cookie \in [Browsers -> 0..MaxTokens]
    /\ links \subseteq 1..MaxTokens
    /\ tokens \in 0..MaxTokens
    /\ spent \in Seq(0..MaxTokens)

\* Whatever token is about was made, so that the next one is new everywhere.
MadeInv ==
    /\ \A e \in Entries(sessions) : e.sid <= tokens
    /\ \A p \in Entries(states) : p.sid <= tokens /\ p.state <= tokens
    /\ \A r \in Requests :
          /\ request[r].sid <= tokens /\ request[r].state <= tokens
          /\ request[r].at = "begun" => request[r].state # 0
    /\ \A b \in Browsers : cookie[b] <= tokens
    /\ \A i \in DOMAIN spent : spent[i] <= tokens

\* A request that is signing in, in the browser in which the sign-in began.
SigningIn(q) ==
    \/ q.at \in {"register", "begun", "exchange"}
    \/ q.at = "answer" /\ q.sid # 0

\* home says of every session token in which browser it was made: whatever
\* carries the token, the table, a state, a request or a cookie, agrees.
Agree(home) ==
    /\ \A e \in Entries(sessions) : home[e.sid] = e.by
    /\ \A p \in Entries(states) : home[p.sid] = p.by
    /\ \A r \in Requests : SigningIn(request[r]) => home[request[r].sid] = request[r].by
    /\ \A b \in Browsers : cookie[b] # 0 => home[cookie[b]] = b
HomeInv ==
    /\ \A r \in Requests : SigningIn(request[r]) =>
          /\ request[r].sid # 0
          /\ request[r].by \in Browsers /\ request[r].browser = request[r].by
    /\ \E home \in [1..MaxTokens -> Browsers \cup {Nobody}] : Agree(home)

\* A state is in the table, or with one request that exchanges it, or spent.
Exchanging(r) == request[r].at = "exchange"
StateInv ==
    /\ \A r \in Requests : Exchanging(r) =>
          /\ \A p \in Entries(states) : p.state # request[r].state
          /\ \A i \in DOMAIN spent : spent[i] # request[r].state
    /\ \A r, s \in Requests : Exchanging(r) /\ Exchanging(s) /\ request[r].state = request[s].state => r = s
    /\ \A p \in Entries(states) : \A i \in DOMAIN spent : spent[i] # p.state
    /\ OneSessionPerState

IInv == TypeInv /\ MadeInv /\ HomeInv /\ StateInv

LEMMA InitInv == Init => IInv
<1> SUFFICES ASSUME Init PROVE IInv
  OBVIOUS
<1>1. SessionsOK(sessions) /\ StatesOK(states) /\ Entries(sessions) = {} /\ Entries(states) = {}
  BY SignInAssumption DEF Init, SessionsOK, StatesOK, Distinct, OneEach, Entries
<1>2. TypeInv
  BY <1>1, SignInAssumption DEF Init, TypeInv, RequestType, Idle, Stages
<1>3. MadeInv
  BY <1>1, SignInAssumption DEF Init, MadeInv, Idle
<1>4. HomeInv
  <2>1. \A r \in Requests : ~SigningIn(request[r])
    BY DEF Init, SigningIn, Idle
  <2>2. Agree([t \in 1..MaxTokens |-> Nobody])
    BY <1>1, <2>1 DEF Init, Agree
  <2> QED  BY <2>1, <2>2 DEF HomeInv
<1>5. StateInv
  BY <1>1 DEF Init, StateInv, Exchanging, OneSessionPerState, Idle
<1> QED  BY <1>2, <1>3, <1>4, <1>5 DEF IInv

\* A step that only takes sessions and states away, and after which a request is
\* as it was or does not sign in any more, and a cookie as it was, cleared, or
\* set for a sign-in that began in this browser.
Shrinks ==
    /\ SessionsOK(sessions') /\ Entries(sessions') \subseteq Entries(sessions)
    /\ StatesOK(states') /\ Entries(states') \subseteq Entries(states)
    /\ request' \in [Requests -> RequestType]
    /\ \A r \in Requests :
          \/ request'[r] = request[r]
          \/ /\ ~SigningIn(request'[r])
             /\ request'[r].sid <= tokens /\ request'[r].state <= tokens
    /\ cookie' \in [Browsers -> 0..MaxTokens]
    /\ \A b \in Browsers :
          \/ cookie'[b] = cookie[b] \/ cookie'[b] = 0
          \/ \E r \in Requests :
                SigningIn(request[r]) /\ request[r].browser = b /\ cookie'[b] = request[r].sid
    /\ links' \subseteq 1..MaxTokens
    /\ UNCHANGED <<tokens, spent>>

LEMMA ShrinkingKeeps == IInv /\ Shrinks => IInv'
<1> SUFFICES ASSUME IInv, Shrinks PROVE IInv'
  OBVIOUS
<1>a. ASSUME NEW r \in Requests
      PROVE  \/ request'[r] = request[r]
             \/ /\ ~SigningIn(request'[r])
                /\ request'[r].sid <= tokens /\ request'[r].state <= tokens
  BY DEF Shrinks
<1>b. /\ Entries(sessions') \subseteq Entries(sessions) /\ Entries(states') \subseteq Entries(states)
      /\ tokens' = tokens /\ spent' = spent
  BY DEF Shrinks
<1>c. ASSUME NEW b \in Browsers
      PROVE  \/ cookie'[b] = cookie[b] \/ cookie'[b] = 0
             \/ \E r \in Requests :
                   SigningIn(request[r]) /\ request[r].browser = b /\ cookie'[b] = request[r].sid
  BY DEF Shrinks
<1>d. \A r \in Requests : request'[r].at \in {"begun", "exchange"} => request'[r] = request[r]
  BY <1>a DEF SigningIn
<1>1. TypeInv'
  BY DEF IInv, TypeInv, Shrinks
<1>2. MadeInv'
  <2>1. \A r \in Requests :
           /\ request[r].sid <= tokens /\ request[r].state <= tokens
           /\ request[r].at = "begun" => request[r].state # 0
    BY DEF IInv, MadeInv
  <2>2. \A r \in Requests :
           /\ request'[r].sid <= tokens /\ request'[r].state <= tokens
           /\ request'[r].at = "begun" => request'[r].state # 0
    BY <1>a, <1>d, <2>1
  <2>3. \A b \in Browsers : cookie[b] <= tokens
    BY DEF IInv, MadeInv
  <2>4. tokens \in Nat
    BY SignInAssumption DEF IInv, TypeInv
  <2>5. \A b \in Browsers : cookie'[b] <= tokens
    BY <1>c, <2>1, <2>3, <2>4
  <2> QED  BY <1>b, <2>2, <2>5 DEF IInv, MadeInv
<1>3. HomeInv'
  <2>1. PICK home \in [1..MaxTokens -> Browsers \cup {Nobody}] : Agree(home)
    BY DEF IInv, HomeInv
  <2>2. ASSUME NEW r \in Requests, SigningIn(request'[r])
        PROVE  SigningIn(request[r]) /\ request'[r] = request[r]
    BY <1>a, <2>2
  <2>3. ASSUME NEW b \in Browsers, cookie'[b] # 0
        PROVE  home[cookie'[b]] = b
    <3>1. \A r \in Requests : SigningIn(request[r]) =>
             home[request[r].sid] = request[r].by /\ request[r].browser = request[r].by
      BY <2>1 DEF IInv, HomeInv, Agree
    <3> QED  BY <1>c, <2>1, <2>3, <3>1 DEF Agree
  <2>4. Agree(home)'
    BY <1>b, <2>1, <2>2, <2>3 DEF Agree
  <2>5. \A r \in Requests : SigningIn(request'[r]) =>
           /\ request'[r].sid # 0
           /\ request'[r].by \in Browsers /\ request'[r].browser = request'[r].by
    BY <2>2 DEF IInv, HomeInv
  <2> QED  BY <2>4, <2>5 DEF HomeInv
<1>4. StateInv'
  <2>1. ASSUME NEW r \in Requests, Exchanging(r)'
        PROVE  Exchanging(r) /\ request'[r] = request[r]
    BY <1>d, <2>1 DEF Exchanging
  <2> QED  BY <1>b, <2>1 DEF IInv, StateInv, Exchanging, OneSessionPerState
<1> QED  BY <1>1, <1>2, <1>3, <1>4 DEF IInv

-------------------------------------------------------------------------------
(* Steps that make nothing.                                                  *)

\* What a request that moves on leaves of the requests.
LEMMA RequestMoves ==
    ASSUME IInv, NEW r \in Requests, NEW q \in RequestType,
           request' = [request EXCEPT ![r] = q], ~SigningIn(q), q.sid <= tokens, q.state <= tokens
    PROVE  /\ request' \in [Requests -> RequestType]
           /\ \A s \in Requests :
                 \/ request'[s] = request[s]
                 \/ ~SigningIn(request'[s]) /\ request'[s].sid <= tokens /\ request'[s].state <= tokens
  BY DEF IInv, TypeInv

\* Facts about the values at hand that every step uses.
LEMMA Values ==
    ASSUME IInv
    PROVE  /\ Idle \in RequestType /\ ~SigningIn(Idle) /\ Idle.sid = 0 /\ Idle.state = 0
           /\ 0 <= tokens /\ tokens \in Nat /\ MaxTokens \in Nat
           /\ SessionsOK(sessions) /\ StatesOK(states)
           /\ \A r \in Requests : request[r] \in RequestType /\ request[r].sid <= tokens /\ request[r].state <= tokens
           /\ \A b \in Browsers : cookie[b] \in 0..MaxTokens /\ cookie[b] <= tokens
           /\ \A sid : Holds(sid) => sid \in 1..MaxTokens
<1>1. MaxTokens \in Nat /\ tokens \in 0..MaxTokens
  BY SignInAssumption DEF IInv, TypeInv
<1>2. Idle \in RequestType /\ ~SigningIn(Idle) /\ Idle.sid = 0 /\ Idle.state = 0
  BY <1>1 DEF RequestType, Idle, SigningIn, Stages
<1>3. /\ SessionsOK(sessions) /\ StatesOK(states)
      /\ \A r \in Requests : request[r] \in RequestType /\ request[r].sid <= tokens /\ request[r].state <= tokens
      /\ \A b \in Browsers : cookie[b] \in 0..MaxTokens /\ cookie[b] <= tokens
  BY DEF IInv, TypeInv, MadeInv
<1>4. \A i \in DOMAIN sessions : sessions[i] \in Session
  BY <1>3 DEF SessionsOK
<1>5. \A i \in DOMAIN sessions : sessions[i].sid \in 1..MaxTokens
  BY <1>4 DEF Session
<1>6. \A sid : Holds(sid) => sid \in 1..MaxTokens
  BY <1>5 DEF Holds, Sids
<1> QED  BY <1>1, <1>2, <1>3, <1>6

LEMMA GoToGitHubKeeps == ASSUME IInv, NEW r \in Requests, GoToGitHub(r) PROVE IInv'
<1>1. request' = [request EXCEPT ![r] = Idle] /\ request[r].at = "begun"
  BY DEF GoToGitHub, Proceed
<1>2. /\ request[r].state \in 1..MaxTokens /\ SigningIn(request[r])
      /\ request[r].browser \in Browsers /\ request[r].sid \in 0..MaxTokens
  BY <1>1, Values DEF IInv, MadeInv, HomeInv, SigningIn, RequestType
<1>3. cookie' \in [Browsers -> 0..MaxTokens] /\ links' \subseteq 1..MaxTokens
  BY <1>2 DEF GoToGitHub, IInv, TypeInv
<1>4. \A b \in Browsers : \/ cookie'[b] = cookie[b]
                          \/ request[r].browser = b /\ cookie'[b] = request[r].sid
  BY <1>2 DEF GoToGitHub, IInv, TypeInv
<1>5. Shrinks
  <2>1. /\ request' \in [Requests -> RequestType]
        /\ \A s \in Requests :
              \/ request'[s] = request[s]
              \/ ~SigningIn(request'[s]) /\ request'[s].sid <= tokens /\ request'[s].state <= tokens
    BY <1>1, Values, RequestMoves
  <2>2. UNCHANGED <<sessions, states, tokens, spent>>
    BY DEF GoToGitHub, history
  <2> QED  BY <1>2, <1>3, <1>4, <2>1, <2>2, Values DEF Shrinks
<1> QED  BY <1>5, ShrinkingKeeps

LEMMA AnswerKeeps == ASSUME IInv, NEW r \in Requests, Answer(r) PROVE IInv'
<1>1. request' = [request EXCEPT ![r] = Idle] /\ request[r].at = "answer"
  BY DEF Answer, Proceed
<1>2. request[r].sid \in 0..MaxTokens /\ (request[r].sid # 0 => SigningIn(request[r]))
  BY <1>1, Values DEF SigningIn, RequestType
<1>3. cookie' \in [Browsers -> 0..MaxTokens]
  BY <1>2 DEF Answer, IInv, TypeInv
<1>4. \A b \in Browsers : \/ cookie'[b] = cookie[b]
                          \/ request[r].browser = b /\ cookie'[b] = request[r].sid
  BY <1>2 DEF Answer, IInv, TypeInv
<1>5. links' \subseteq 1..MaxTokens
  BY DEF Answer, IInv, TypeInv
<1>6. Shrinks
  <2>1. /\ request' \in [Requests -> RequestType]
        /\ \A s \in Requests :
              \/ request'[s] = request[s]
              \/ ~SigningIn(request'[s]) /\ request'[s].sid <= tokens /\ request'[s].state <= tokens
    BY <1>1, Values, RequestMoves
  <2>2. UNCHANGED <<sessions, states, tokens, spent>>
    BY DEF Answer, history
  <2> QED  BY <1>2, <1>3, <1>4, <1>5, <2>1, <2>2, Values DEF Shrinks
<1> QED  BY <1>6, ShrinkingKeeps

\* A request that ends, or goes on without signing in, and leaves the cookies.
LEMMA QuietKeeps ==
    ASSUME IInv, NEW r \in Requests, NEW q \in RequestType,
           request' = [request EXCEPT ![r] = q], ~SigningIn(q), q.sid <= tokens, q.state <= tokens,
           SessionsOK(sessions'), Entries(sessions') \subseteq Entries(sessions),
           UNCHANGED <<states, cookie, links, tokens, spent>>
    PROVE  IInv'
<1>1. Shrinks
  BY Values, RequestMoves DEF Shrinks, IInv, TypeInv
<1> QED  BY <1>1, ShrinkingKeeps

LEMMA RefusedKeeps == ASSUME IInv, NEW r \in Requests, Refused(r) PROVE IInv'
  BY QuietKeeps, Values DEF Refused, history

LEMMA CheckKeeps == ASSUME IInv, NEW r \in Requests, Check(r) PROVE IInv'
<1>1. SessionsOK(sessions') /\ Entries(sessions') \subseteq Entries(sessions)
  BY Values, OthersStay DEF Check
<1> QED  BY <1>1, QuietKeeps, Values DEF Check, Proceed, history

LEMMA ValidateCsrfKeeps ==
    ASSUME IInv, NEW r \in Requests, NEW b \in Browsers, ValidateCsrf(r, b)
    PROVE  IInv'
<1> DEFINE q == [Idle EXCEPT !.at = "signout", !.browser = b, !.sid = cookie[b]]
<1>1. q \in RequestType /\ ~SigningIn(q) /\ q.sid = cookie[b] /\ q.state = 0
  BY Values DEF RequestType, Idle, SigningIn, Stages
<1>2. request' = [request EXCEPT ![r] = q]
  BY DEF ValidateCsrf, Send
<1> HIDE DEF q
<1> QED  BY <1>1, <1>2, QuietKeeps, Values DEF ValidateCsrf, history

LEMMA LogoutKeeps == ASSUME IInv, NEW r \in Requests, Logout(r) PROVE IInv'
<1> DEFINE q == [Holding(r, "answer") EXCEPT !.sid = 0]
<1>1. q \in RequestType /\ ~SigningIn(q) /\ q.sid = 0 /\ q.state = request[r].state
  BY Values DEF RequestType, Holding, SigningIn, Stages
<1>2. request' = [request EXCEPT ![r] = q]
  BY DEF Logout, Proceed
<1>3. SessionsOK(sessions') /\ Entries(sessions') \subseteq Entries(sessions)
  BY Values, OthersStay DEF Logout
<1> HIDE DEF q
<1> QED  BY <1>1, <1>2, <1>3, QuietKeeps, Values DEF Logout, history

LEMMA GetKeeps == ASSUME IInv, NEW r \in Requests, NEW b \in Browsers, Get(r, b) PROVE IInv'
<1> DEFINE q == [Idle EXCEPT !.at = "check", !.browser = b, !.sid = cookie[b]]
           entry == sessions[Position(cookie[b])]
           rest == Without(cookie[b])
<1>1. q \in RequestType /\ ~SigningIn(q) /\ q.sid = cookie[b] /\ q.state = 0
  BY Values DEF RequestType, Idle, SigningIn, Stages
<1>2. request' = [request EXCEPT ![r] = q]
  BY DEF Get, Send
<1>3. Holds(cookie[b])
  BY DEF Get, SignedIn, Holds, Sids
<1>4. entry \in Entries(sessions) /\ entry \in Session /\ entry.sid = cookie[b]
  <2>1. Position(cookie[b]) \in DOMAIN sessions /\ entry.sid = cookie[b]
    BY <1>3 DEF Holds, Sids, Position
  <2>2. \A i \in DOMAIN sessions : sessions[i] \in Session
    BY Values DEF SessionsOK
  <2> QED  BY <2>1, <2>2 DEF Entries
<1>5. /\ SessionsOK(rest) /\ Entries(rest) \subseteq {e \in Entries(sessions) : e.sid # cookie[b]}
      /\ Len(rest) < Len(sessions)
  BY <1>3, Values, OthersStay
<1>6. sessions' = Append(rest, entry)
  BY DEF Get, Touched
<1> HIDE DEF q, entry, rest
<1>7. /\ rest \in Seq(Session) /\ Len(rest) \in Nat /\ Len(sessions) \in Nat
      /\ Len(sessions) <= MaxSessions /\ MaxSessions \in Nat /\ DOMAIN rest = 1..Len(rest)
  BY <1>5, Values, SignInAssumption DEF SessionsOK
<1>8. /\ sessions' \in Seq(Session) /\ DOMAIN sessions' = 1..(Len(rest) + 1) /\ Len(sessions') = Len(rest) + 1
      /\ \A i \in DOMAIN sessions' :
            sessions'[i] = IF i = Len(rest) + 1 THEN entry ELSE rest[i]
  BY <1>4, <1>6, <1>7
<1>9. \A i \in 1..Len(rest) : rest[i] \in Entries(sessions) /\ rest[i].sid # entry.sid
  BY <1>4, <1>5, <1>7 DEF Entries
<1>10. Entries(sessions') \subseteq Entries(sessions)
  BY <1>4, <1>7, <1>8, <1>9 DEF Entries
<1>11. Distinct(sessions')
  <2>1. \A i, j \in 1..Len(rest) : rest[i].sid = rest[j].sid => i = j
    BY <1>5, <1>7 DEF SessionsOK, Distinct
  <2> QED  BY <1>7, <1>8, <1>9, <2>1 DEF Distinct
<1>12. SessionsOK(sessions')
  BY <1>5, <1>7, <1>8, <1>11 DEF SessionsOK
<1> QED  BY <1>1, <1>2, <1>10, <1>12, QuietKeeps, Values DEF Get

LEMMA ExpireKeeps == IInv /\ Expire => IInv'
<1> SUFFICES ASSUME IInv, Expire PROVE IInv'
  OBVIOUS
<1>1. SessionsOK(sessions') /\ Entries(sessions') \subseteq Entries(sessions)
  BY Values, OthersStay DEF Expire
<1>2. StatesOK(states') /\ Entries(states') \subseteq Entries(states)
  BY Values, StateExpires DEF Expire
<1>3. Shrinks
  BY <1>1, <1>2 DEF Expire, history, Shrinks, IInv, TypeInv
<1> QED  BY <1>3, ShrinkingKeeps

LEMMA RestartKeeps == IInv /\ Restart => IInv'
<1> SUFFICES ASSUME IInv, Restart PROVE IInv'
  OBVIOUS
<1>1. /\ SessionsOK(sessions') /\ Entries(sessions') = {}
      /\ StatesOK(states') /\ Entries(states') = {}
  BY SignInAssumption DEF Restart, SessionsOK, StatesOK, Distinct, OneEach, Entries
<1>2. Shrinks
  BY <1>1, Values DEF Restart, history, Shrinks, IInv, TypeInv
<1> QED  BY <1>2, ShrinkingKeeps

-------------------------------------------------------------------------------
(* Steps that make a token or sign in.                                       *)

\* A token that is made may be given any browser for its home.
LEMMA FreshHome ==
    ASSUME IInv, tokens < MaxTokens, NEW b \in Browsers
    PROVE  \E home \in [1..MaxTokens -> Browsers \cup {Nobody}] : Agree(home) /\ home[Fresh] = b
<1>1. PICK old \in [1..MaxTokens -> Browsers \cup {Nobody}] : Agree(old)
  BY DEF IInv, HomeInv
<1> DEFINE home == [old EXCEPT ![Fresh] = b]
<1>2. Fresh \in 1..MaxTokens /\ tokens \in Nat /\ MaxTokens \in Nat /\ Fresh = tokens + 1
  BY Values DEF Fresh
<1>3. /\ home \in [1..MaxTokens -> Browsers \cup {Nobody}] /\ home[Fresh] = b
      /\ \A t \in 1..MaxTokens : t <= tokens => home[t] = old[t]
  BY <1>1, <1>2
<1> HIDE DEF home
<1>4. \A e \in Entries(sessions) : e.sid \in 1..MaxTokens /\ e.sid <= tokens
  BY Values DEF IInv, MadeInv, Entries, Holds, Sids
<1>5. \A p \in Entries(states) : p.sid \in 1..MaxTokens /\ p.sid <= tokens
  <2>1. \A i \in DOMAIN states : states[i] \in PendingState
    BY Values DEF StatesOK
  <2> QED  BY <2>1 DEF IInv, MadeInv, Entries, PendingState
<1>6. \A r \in Requests : SigningIn(request[r]) => request[r].sid \in 1..MaxTokens /\ request[r].sid <= tokens
  BY Values, <1>2 DEF IInv, HomeInv, RequestType
<1>7. \A c \in Browsers : cookie[c] # 0 => cookie[c] \in 1..MaxTokens /\ cookie[c] <= tokens
  BY Values, <1>2
<1>8. Agree(home)
  BY <1>1, <1>3, <1>4, <1>5, <1>6, <1>7 DEF Agree
<1> QED  BY <1>3, <1>8

\* What was made before a step was made after it.
LEMMA StillMade ==
    ASSUME IInv, tokens' \in Nat, tokens <= tokens'
    PROVE  /\ \A r \in Requests : request[r].sid <= tokens' /\ request[r].state <= tokens'
           /\ \A c \in Browsers : cookie[c] <= tokens'
           /\ \A o \in Entries(sessions) : o.sid <= tokens'
           /\ \A p \in Entries(states) : p.sid <= tokens' /\ p.state <= tokens'
           /\ \A i \in DOMAIN spent : spent[i] <= tokens'
<1>1. \A r \in Requests : request[r].sid <= tokens' /\ request[r].state <= tokens'
  BY Values DEF RequestType
<1>2. \A c \in Browsers : cookie[c] <= tokens'
  BY Values
<1>3. \A o \in Entries(sessions) : o.sid <= tokens'
  BY Values DEF IInv, MadeInv, Entries, Holds, Sids
<1>4. \A p \in Entries(states) : p.sid <= tokens' /\ p.state <= tokens'
  <2>1. \A i \in DOMAIN states : states[i] \in PendingState
    BY Values DEF StatesOK
  <2> QED  BY <2>1, Values DEF IInv, MadeInv, Entries, PendingState
<1>5. \A i \in DOMAIN spent : spent[i] <= tokens'
  BY Values DEF IInv, TypeInv, MadeInv
<1> QED  BY <1>1, <1>2, <1>3, <1>4, <1>5

LEMMA EnsurePreloginKeeps ==
    ASSUME IInv, NEW r \in Requests, NEW b \in Browsers, EnsurePrelogin(r, b)
    PROVE  IInv'
<1> DEFINE sid == IF Holds(cookie[b]) THEN cookie[b] ELSE Fresh
           q == [at |-> "register", browser |-> b, sid |-> sid, state |-> 0, by |-> b]
           e == [sid |-> sid, who |-> Nobody, by |-> b]
<1>1. /\ request[r] = Idle /\ request' = [request EXCEPT ![r] = q]
      /\ UNCHANGED <<states, cookie, links, spent>>
  BY DEF EnsurePrelogin, Send
<1>2. \/ Holds(cookie[b]) /\ UNCHANGED <<sessions, tokens>>
      \/ ~Holds(cookie[b]) /\ tokens < MaxTokens /\ tokens' = Fresh /\ sessions' = WithSession(sessions, e)
  BY DEF EnsurePrelogin, MakeToken
<1>3. sid \in 1..MaxTokens /\ sid <= tokens' /\ tokens' \in 0..MaxTokens /\ tokens <= tokens'
  <2>1. CASE Holds(cookie[b])
    BY <1>2, <2>1, Values DEF IInv, TypeInv
  <2>2. CASE ~Holds(cookie[b])
    BY <1>2, <2>2, Values DEF Fresh
  <2> QED  BY <2>1, <2>2
<1>4. \E home \in [1..MaxTokens -> Browsers \cup {Nobody}] : Agree(home) /\ home[sid] = b
  <2>1. CASE Holds(cookie[b])
    <3>1. sid = cookie[b] /\ cookie[b] # 0
      BY <2>1, Values
    <3> HIDE DEF sid
    <3>2. PICK home \in [1..MaxTokens -> Browsers \cup {Nobody}] : Agree(home)
      BY DEF IInv, HomeInv
    <3> QED  BY <3>1, <3>2 DEF Agree
  <2>2. CASE ~Holds(cookie[b])
    BY <1>2, <2>2, FreshHome
  <2> QED  BY <2>1, <2>2
<1>5. /\ SessionsOK(sessions') /\ Entries(sessions') \subseteq Entries(sessions) \cup {e}
  <2>1. CASE Holds(cookie[b])
    BY <1>2, <2>1, Values
  <2>2. CASE ~Holds(cookie[b])
    <3>1. e \in Session
      BY <1>3 DEF Session
    <3>2. \A o \in Entries(sessions) : o.sid # e.sid
      BY <2>2, Values DEF IInv, MadeInv, Fresh
    <3> HIDE DEF e
    <3> QED  BY <1>2, <2>2, <3>1, <3>2, Values, SessionJoins
  <2> QED  BY <2>1, <2>2
<1>6. e.sid = sid /\ e.by = b
  OBVIOUS
<1> HIDE DEF sid
<1>7. /\ q \in RequestType /\ q.at = "register" /\ q.browser = b /\ q.by = b /\ q.sid = sid /\ q.state = 0
  <2>1. MaxTokens \in Nat /\ sid \in 0..MaxTokens
    BY <1>3, Values
  <2> QED  BY <2>1 DEF RequestType, Stages
<1> HIDE DEF q, e
<1>8. /\ request' \in [Requests -> RequestType]
      /\ \A s \in Requests : request'[s] = IF s = r THEN q ELSE request[s]
  BY <1>1, <1>7 DEF IInv, TypeInv
<1>9. TypeInv'
  BY <1>1, <1>3, <1>5, <1>8 DEF IInv, TypeInv
<1>10. MadeInv'
  <2>1. /\ \A s \in Requests : request[s].sid <= tokens' /\ request[s].state <= tokens'
        /\ \A c \in Browsers : cookie[c] <= tokens'
        /\ \A o \in Entries(sessions) : o.sid <= tokens'
        /\ \A p \in Entries(states) : p.sid <= tokens' /\ p.state <= tokens'
        /\ \A i \in DOMAIN spent : spent[i] <= tokens'
    BY <1>3, StillMade
  <2>2. \A s \in Requests : request'[s].at = "begun" => request'[s].state # 0
    BY <1>7, <1>8 DEF IInv, MadeInv
  <2> QED  BY <1>1, <1>3, <1>5, <1>6, <1>7, <1>8, <2>1, <2>2 DEF MadeInv
<1>11. HomeInv'
  <2>1. PICK home \in [1..MaxTokens -> Browsers \cup {Nobody}] : Agree(home) /\ home[sid] = b
    BY <1>4
  <2>2. Agree(home)'
    BY <1>1, <1>5, <1>6, <1>7, <1>8, <2>1 DEF Agree
  <2>3. \A s \in Requests : SigningIn(request'[s]) =>
           /\ request'[s].sid # 0
           /\ request'[s].by \in Browsers /\ request'[s].browser = request'[s].by
    BY <1>3, <1>7, <1>8 DEF IInv, HomeInv
  <2> QED  BY <2>2, <2>3 DEF HomeInv
<1>12. StateInv'
  <2>1. \A s \in Requests : Exchanging(s)' => Exchanging(s) /\ request'[s] = request[s]
    BY <1>7, <1>8 DEF Exchanging
  <2> QED  BY <1>1, <2>1 DEF IInv, StateInv, Exchanging, OneSessionPerState
<1> QED  BY <1>9, <1>10, <1>11, <1>12 DEF IInv

LEMMA RegisterStateKeeps == ASSUME IInv, NEW r \in Requests, RegisterState(r) PROVE IInv'
<1> DEFINE q == [Holding(r, "begun") EXCEPT !.state = Fresh]
           e == [state |-> Fresh, sid |-> request[r].sid, by |-> request[r].by]
<1>1. /\ request[r].at = "register" /\ request' = [request EXCEPT ![r] = q]
      /\ tokens < MaxTokens /\ tokens' = Fresh
      /\ states' = Trimmed(Append(states, e), MaxStates)
      /\ UNCHANGED <<sessions, cookie, links, spent>>
  BY DEF RegisterState, Proceed, MakeToken, history
<1>2. /\ Fresh \in 1..MaxTokens /\ Fresh = tokens + 1
      /\ tokens' \in 0..MaxTokens /\ tokens' \in Nat /\ tokens <= tokens'
  BY <1>1, Values DEF Fresh
<1>3. /\ SigningIn(request[r]) /\ request[r] \in RequestType
      /\ request[r].sid \in 1..MaxTokens /\ request[r].sid <= tokens
      /\ request[r].by \in Browsers /\ request[r].browser = request[r].by
  BY <1>1, Values DEF IInv, HomeInv, SigningIn, RequestType
<1>4. e \in PendingState /\ e.state = Fresh /\ e.sid = request[r].sid /\ e.by = request[r].by
  BY <1>2, <1>3 DEF PendingState
<1>5. /\ q \in RequestType /\ q.at = "begun" /\ q.state = Fresh /\ q.sid = request[r].sid
      /\ q.by = request[r].by /\ q.browser = request[r].browser
  <2>1. Holding(r, "begun") \in RequestType
    BY <1>3 DEF Holding, RequestType, Stages
  <2>2. Fresh \in 0..MaxTokens
    BY <1>2
  <2> QED  BY <2>1, <2>2, <1>3 DEF Holding, RequestType
<1> HIDE DEF q, e
<1>6. StatesOK(states') /\ Entries(states') \subseteq Entries(states) \cup {e}
  <2>1. \A p \in Entries(states) : p.state # e.state
    <3>1. \A i \in DOMAIN states : states[i] \in PendingState
      BY Values DEF StatesOK
    <3> QED  BY <1>2, <1>4, <3>1, Values DEF IInv, MadeInv, Entries, PendingState
  <2> QED  BY <1>1, <1>4, <2>1, Values, StateJoins
<1>7. /\ request' \in [Requests -> RequestType]
      /\ \A s \in Requests : request'[s] = IF s = r THEN q ELSE request[s]
  BY <1>1, <1>5 DEF IInv, TypeInv
<1>8. TypeInv'
  BY <1>1, <1>2, <1>6, <1>7 DEF IInv, TypeInv
<1>9. MadeInv'
  <2>1. /\ \A s \in Requests : request[s].sid <= tokens' /\ request[s].state <= tokens'
        /\ \A c \in Browsers : cookie[c] <= tokens'
        /\ \A o \in Entries(sessions) : o.sid <= tokens'
        /\ \A p \in Entries(states) : p.sid <= tokens' /\ p.state <= tokens'
        /\ \A i \in DOMAIN spent : spent[i] <= tokens'
    BY <1>2, StillMade
  <2>2. \A s \in Requests : request'[s].at = "begun" => request'[s].state # 0
    BY <1>2, <1>5, <1>7 DEF IInv, MadeInv
  <2>3. e.state <= tokens' /\ e.sid <= tokens' /\ q.sid <= tokens' /\ q.state <= tokens'
    BY <1>1, <1>2, <1>4, <1>5, <2>1
  <2> QED  BY <1>1, <1>6, <1>7, <2>1, <2>2, <2>3 DEF MadeInv
<1>10. HomeInv'
  <2>1. PICK home \in [1..MaxTokens -> Browsers \cup {Nobody}] : Agree(home)
    BY DEF IInv, HomeInv
  <2>2. home[request[r].sid] = request[r].by
    BY <1>3, <2>1 DEF Agree
  <2>3. Agree(home)'
    BY <1>1, <1>4, <1>5, <1>6, <1>7, <2>1, <2>2 DEF Agree
  <2>4. \A s \in Requests : SigningIn(request'[s]) =>
           /\ request'[s].sid # 0
           /\ request'[s].by \in Browsers /\ request'[s].browser = request'[s].by
    BY <1>3, <1>5, <1>7 DEF IInv, HomeInv
  <2> QED  BY <2>3, <2>4 DEF HomeInv
<1>11. StateInv'
  <2>1. \A s \in Requests : Exchanging(s)' => Exchanging(s) /\ request'[s] = request[s]
    BY <1>5, <1>7 DEF Exchanging
  <2>2. \A s \in Requests : request[s].state # e.state
    BY <1>2, <1>4, Values DEF RequestType
  <2>3. \A i \in DOMAIN spent : spent[i] # e.state
    BY <1>2, <1>4, Values DEF IInv, MadeInv, TypeInv
  <2> QED  BY <1>1, <1>6, <2>1, <2>2, <2>3 DEF IInv, StateInv, Exchanging, OneSessionPerState
<1> QED  BY <1>8, <1>9, <1>10, <1>11 DEF IInv

LEMMA ConsumeStateKeeps ==
    ASSUME IInv, NEW r \in Requests, NEW b \in Browsers, NEW state, ConsumeState(r, b, state)
    PROVE  IInv'
<1>1. PICK i \in DOMAIN states :
         /\ states[i].state = state /\ BoundTo(states[i], cookie[b])
         /\ Send(r, [at |-> "exchange", browser |-> b, sid |-> states[i].sid,
                     state |-> state, by |-> states[i].by])
         /\ states' = Remaining(i)
  BY DEF ConsumeState
<1> DEFINE p == states[i]
           q == [at |-> "exchange", browser |-> b, sid |-> p.sid, state |-> state, by |-> p.by]
<1>2. /\ request[r] = Idle /\ request' = [request EXCEPT ![r] = q]
      /\ UNCHANGED <<sessions, cookie, links, tokens, spent>>
  BY <1>1 DEF ConsumeState, Send, history
<1>3. p \in Entries(states) /\ p.state = state /\ p.sid = cookie[b]
  BY <1>1 DEF Entries, BoundTo
<1>4. p \in PendingState
  BY Values DEF StatesOK
<1>5. StatesOK(states') /\ Entries(states') \subseteq {o \in Entries(states) : o.state # state}
  BY <1>1, Values, StateIsTaken
<1> HIDE DEF p
<1>6. PICK home \in [1..MaxTokens -> Browsers \cup {Nobody}] : Agree(home)
  BY DEF IInv, HomeInv
<1>7. p.sid # 0 /\ p.by = b /\ home[p.sid] = b
  BY <1>3, <1>4, <1>6, Values DEF Agree, PendingState
<1>8. q \in RequestType
  BY <1>3, <1>4, Values DEF RequestType, PendingState, Stages
<1>9. q.at = "exchange" /\ q.browser = b /\ q.by = b /\ q.sid = p.sid /\ q.state = state
  BY <1>7
<1>10. p.sid <= tokens /\ state <= tokens
  BY <1>3 DEF IInv, MadeInv
<1> HIDE DEF q
<1>11. /\ request' \in [Requests -> RequestType]
       /\ \A s \in Requests : request'[s] = IF s = r THEN q ELSE request[s]
  BY <1>2, <1>8 DEF IInv, TypeInv
<1>12. TypeInv'
  BY <1>2, <1>5, <1>11 DEF IInv, TypeInv
<1>13. MadeInv'
  BY <1>2, <1>5, <1>9, <1>10, <1>11 DEF IInv, MadeInv
<1>14. HomeInv'
  <2>1. Agree(home)'
    BY <1>2, <1>5, <1>6, <1>7, <1>9, <1>11 DEF Agree
  <2>2. \A s \in Requests : SigningIn(request'[s]) =>
           /\ request'[s].sid # 0
           /\ request'[s].by \in Browsers /\ request'[s].browser = request'[s].by
    BY <1>7, <1>9, <1>11 DEF IInv, HomeInv
  <2> QED  BY <2>1, <2>2 DEF HomeInv
<1>15. StateInv'
  <2>1. \A s \in Requests : Exchanging(s)' => s = r \/ (Exchanging(s) /\ request'[s] = request[s])
    BY <1>11 DEF Exchanging
  <2>2. request'[r].state = state
    BY <1>9, <1>11
  <2>3. \A s \in Requests : Exchanging(s) => request[s].state # state
    BY <1>3 DEF IInv, StateInv
  <2>4. \A j \in DOMAIN spent : spent[j] # state
    BY <1>3 DEF IInv, StateInv
  <2>5. \A o \in Entries(states') : o \in Entries(states) /\ o.state # state
    BY <1>5
  <2>6. \A s \in Requests : Exchanging(s)' =>
           /\ \A o \in Entries(states') : o.state # request'[s].state
           /\ \A j \in DOMAIN spent : spent[j] # request'[s].state
    BY <2>1, <2>2, <2>4, <2>5 DEF IInv, StateInv
  <2>7. \A s, t \in Requests :
           Exchanging(s)' /\ Exchanging(t)' /\ request'[s].state = request'[t].state => s = t
    BY <2>1, <2>2, <2>3 DEF IInv, StateInv
  <2> QED  BY <1>2, <2>5, <2>6, <2>7 DEF IInv, StateInv, OneSessionPerState
<1> QED  BY <1>12, <1>13, <1>14, <1>15 DEF IInv

LEMMA CreateAuthenticatedKeeps ==
    ASSUME IInv, NEW r \in Requests, NEW person \in People, CreateAuthenticated(r, person)
    PROVE  IInv'
<1> DEFINE q == [Holding(r, "answer") EXCEPT !.sid = Fresh]
           e == [sid |-> Fresh, who |-> person, by |-> request[r].by]
           rest == Without(request[r].sid)
           state == request[r].state
           b == request[r].by
<1>1. /\ Exchanging(r) /\ request' = [request EXCEPT ![r] = q]
      /\ tokens < MaxTokens /\ tokens' = Fresh
      /\ sessions' = WithSession(rest, e) /\ spent' = Append(spent, state)
      /\ UNCHANGED <<states, cookie, links>>
  BY DEF CreateAuthenticated, Proceed, MakeToken, Exchanging
<1>2. /\ Fresh \in 1..MaxTokens /\ Fresh = tokens + 1
      /\ tokens' \in 0..MaxTokens /\ tokens' \in Nat /\ tokens <= tokens'
  BY <1>1, Values DEF Fresh
<1>3. /\ SigningIn(request[r]) /\ request[r] \in RequestType
      /\ b \in Browsers /\ request[r].browser = b
  BY <1>1, Values DEF IInv, HomeInv, SigningIn, Exchanging
<1>4. e \in Session /\ e.sid = Fresh /\ e.by = b
  BY <1>2, <1>3 DEF Session
<1>5. /\ q \in RequestType /\ q.at = "answer" /\ q.state = state /\ q.sid = Fresh
      /\ q.by = b /\ q.browser = b
  <2>1. /\ Holding(r, "answer") \in RequestType
        /\ Holding(r, "answer").at = "answer" /\ Holding(r, "answer").state = state
        /\ Holding(r, "answer").by = b /\ Holding(r, "answer").browser = b
    BY <1>3 DEF Holding, RequestType, Stages
  <2>2. Fresh \in 0..MaxTokens
    BY <1>2
  <2> QED  BY <2>1, <2>2 DEF RequestType
<1>6. SessionsOK(rest) /\ Entries(rest) \subseteq Entries(sessions)
  BY Values, OthersStay
<1>7. state \in 0..MaxTokens /\ state <= tokens
  BY <1>3, Values DEF RequestType
<1>8. PICK home \in [1..MaxTokens -> Browsers \cup {Nobody}] : Agree(home) /\ home[Fresh] = b
  BY <1>1, <1>3, FreshHome
<1> HIDE DEF q, e, rest, state, b
<1>9. SessionsOK(sessions') /\ Entries(sessions') \subseteq Entries(sessions) \cup {e}
  <2>1. \A o \in Entries(sessions) : o.sid # e.sid
    BY <1>2, <1>4, Values DEF IInv, MadeInv, Entries, Holds, Sids
  <2>2. \A o \in Entries(rest) : o.sid # e.sid
    BY <1>6, <2>1
  <2> QED  BY <1>1, <1>4, <1>6, <2>2, SessionJoins
<1>10. /\ request' \in [Requests -> RequestType]
       /\ \A s \in Requests : request'[s] = IF s = r THEN q ELSE request[s]
  BY <1>1, <1>5 DEF IInv, TypeInv
<1>11. /\ spent \in Seq(0..MaxTokens) /\ spent' \in Seq(0..MaxTokens)
       /\ Len(spent) \in Nat /\ DOMAIN spent = 1..Len(spent) /\ DOMAIN spent' = 1..(Len(spent) + 1)
       /\ \A i \in DOMAIN spent' : spent'[i] = IF i = Len(spent) + 1 THEN state ELSE spent[i]
  BY <1>1, <1>7 DEF IInv, TypeInv
<1>12. \A i \in DOMAIN spent' : spent'[i] = state \/ (i \in DOMAIN spent /\ spent'[i] = spent[i])
  BY <1>11
<1>13. TypeInv'
  BY <1>1, <1>2, <1>9, <1>10, <1>11 DEF IInv, TypeInv
<1>14. MadeInv'
  <2>1. /\ \A s \in Requests : request[s].sid <= tokens' /\ request[s].state <= tokens'
        /\ \A c \in Browsers : cookie[c] <= tokens'
        /\ \A o \in Entries(sessions) : o.sid <= tokens'
        /\ \A p \in Entries(states) : p.sid <= tokens' /\ p.state <= tokens'
        /\ \A i \in DOMAIN spent : spent[i] <= tokens'
    BY <1>2, StillMade
  <2>2. \A s \in Requests : request'[s].at = "begun" => request'[s].state # 0
    BY <1>5, <1>10 DEF IInv, MadeInv
  <2>3. e.sid <= tokens' /\ q.sid <= tokens'
    BY <1>1, <1>2, <1>4, <1>5
  <2>4. state <= tokens' /\ q.state <= tokens'
    BY <1>2, <1>5, <1>7, Values
  <2> QED  BY <1>1, <1>9, <1>10, <1>12, <2>1, <2>2, <2>3, <2>4 DEF MadeInv
<1>15. HomeInv'
  <2>1. Agree(home)'
    BY <1>1, <1>4, <1>5, <1>8, <1>9, <1>10 DEF Agree
  <2>2. \A s \in Requests : SigningIn(request'[s]) =>
           /\ request'[s].sid # 0
           /\ request'[s].by \in Browsers /\ request'[s].browser = request'[s].by
    BY <1>2, <1>3, <1>5, <1>10 DEF IInv, HomeInv
  <2> QED  BY <2>1, <2>2 DEF HomeInv
<1>16. StateInv'
  <2>1. \A s \in Requests : Exchanging(s)' => s # r /\ Exchanging(s) /\ request'[s] = request[s]
    BY <1>5, <1>10 DEF Exchanging
  <2>2. \A s \in Requests : Exchanging(s)' => request'[s].state # state
    BY <1>1, <2>1 DEF IInv, StateInv, state
  <2>3. (\A p \in Entries(states) : p.state # state) /\ \A i \in DOMAIN spent : spent[i] # state
    BY <1>1 DEF IInv, StateInv, state
  <2>4. \A s \in Requests : Exchanging(s)' =>
           /\ \A p \in Entries(states') : p.state # request'[s].state
           /\ \A i \in DOMAIN spent' : spent'[i] # request'[s].state
    BY <1>1, <1>12, <2>1, <2>2 DEF IInv, StateInv
  <2>5. \A s, t \in Requests :
           Exchanging(s)' /\ Exchanging(t)' /\ request'[s].state = request'[t].state => s = t
    BY <2>1 DEF IInv, StateInv
  <2>6. \A p \in Entries(states') : \A i \in DOMAIN spent' : spent'[i] # p.state
    BY <1>1, <1>12, <2>3 DEF IInv, StateInv
  <2>7. OneSessionPerState'
    BY <1>11, <2>3 DEF IInv, StateInv, OneSessionPerState
  <2> QED  BY <2>4, <2>5, <2>6, <2>7 DEF StateInv
<1> QED  BY <1>13, <1>14, <1>15, <1>16 DEF IInv

-------------------------------------------------------------------------------
(* The order of use.                                                         *)

\* The table follows the order of use.
Ordered(table, order) ==
    \A i, j \in DOMAIN table : i < j => <<table[i].sid, table[j].sid>> \in order
OrderInv == Ordered(sessions, used)

\* Without a session, the others keep their order.
LEMMA OthersOrdered ==
    ASSUME SessionsOK(sessions), NEW sid, NEW order, Ordered(sessions, order)
    PROVE  Ordered(Without(sid), order)
<1> DEFINE i == Position(sid)
           rest == Without(sid)
<1>1. CASE Holds(sid)
  <2>1. sessions \in Seq(Session) /\ i \in DOMAIN sessions
    BY <1>1 DEF Holds, Sids, Position, SessionsOK
  <2>2. rest = RemoveAt(sessions, i)
    BY <1>1 DEF Without
  <2> HIDE DEF i, rest
  <2>3. /\ rest \in Seq(Session) /\ Len(rest) = Len(sessions) - 1
        /\ \A j \in DOMAIN rest : rest[j] = IF j < i THEN sessions[j] ELSE sessions[j + 1]
    BY <2>1, <2>2, RemovedEntry
  <2>4. /\ DOMAIN rest = 1..(Len(sessions) - 1) /\ Len(sessions) \in Nat
        /\ DOMAIN sessions = 1..Len(sessions) /\ i \in 1..Len(sessions)
    BY <2>1, <2>3
  <2>5. ASSUME NEW j \in DOMAIN rest, NEW k \in DOMAIN rest, j < k
        PROVE  <<rest[j].sid, rest[k].sid>> \in order
    <3>1. PICK a \in DOMAIN sessions : a = (IF j < i THEN j ELSE j + 1) /\ rest[j] = sessions[a]
      BY <2>3, <2>4
    <3>2. PICK b \in DOMAIN sessions : b = (IF k < i THEN k ELSE k + 1) /\ rest[k] = sessions[b]
      BY <2>3, <2>4
    <3>3. a < b
      BY <2>4, <2>5, <3>1, <3>2
    <3> QED BY <3>1, <3>2, <3>3 DEF Ordered
  <2> QED BY <2>5 DEF Ordered, rest
<1>2. CASE ~Holds(sid)
  BY <1>2 DEF Without
<1> QED BY <1>1, <1>2

\* What was used after all others comes last.
LEMMA LastIsOrdered ==
    ASSUME NEW t \in Seq(Session), NEW e, NEW order, NEW k \in {0, 1}, NEW n \in Seq(Session),
           Joined(n, t, e, k), Ordered(t, order), \A o \in Entries(t) : <<o.sid, e.sid>> \in order
    PROVE  Ordered(n, order)
<1>1. Len(t) \in Nat /\ DOMAIN t = 1..Len(t) /\ Len(n) = Len(t) + 1 - k /\ DOMAIN n = 1..Len(n)
  BY DEF Joined
<1>2. ASSUME NEW i \in DOMAIN n, NEW j \in DOMAIN n, i < j
      PROVE  <<n[i].sid, n[j].sid>> \in order
  <2>1. i + k \in DOMAIN t /\ n[i] = t[i + k]
    BY <1>1, <1>2 DEF Joined
  <2>2. CASE j + k = Len(t) + 1
    <3>1. n[j] = e
      BY <2>2 DEF Joined
    <3> QED BY <2>1, <3>1 DEF Entries
  <2>3. CASE j + k # Len(t) + 1
    <3>1. j + k \in DOMAIN t /\ n[j] = t[j + k] /\ i + k < j + k
      BY <1>1, <1>2, <2>3 DEF Joined
    <3> QED BY <2>1, <3>1 DEF Ordered
  <2> QED BY <2>2, <2>3
<1> QED BY <1>2 DEF Ordered

\* A session that is used comes after all others, and these stay as they were.
LEMMA UseOrders ==
    ASSUME OrderInv, NEW sid, Use(sid), NEW t, SessionsOK(t),
           Entries(t) \subseteq {e \in Entries(sessions) : e.sid # sid}, Ordered(t, used)
    PROVE  /\ Ordered(t, used')
           /\ \A o \in Entries(t) : <<o.sid, sid>> \in used'
<1> DEFINE others == Sids(sessions) \ {sid}
<1>1. used' = (used \cap (others \X others)) \cup (others \X {sid})
  BY DEF Use
<1>2. \A o \in Entries(t) : o.sid \in others
  BY DEF Entries, Sids
<1> HIDE DEF others
<1>3. ASSUME NEW i \in DOMAIN t, NEW j \in DOMAIN t, i < j
      PROVE  <<t[i].sid, t[j].sid>> \in used'
  BY <1>1, <1>2, <1>3 DEF Ordered, Entries
<1> QED BY <1>1, <1>2, <1>3 DEF Ordered

\* A new session comes last in the order of use and in the table.
LEMMA NewIsLast ==
    ASSUME OrderInv, NEW t, SessionsOK(t), NEW e \in Session, Use(e.sid),
           Entries(t) \subseteq {o \in Entries(sessions) : o.sid # e.sid}, Ordered(t, used)
    PROVE  Ordered(WithSession(t, e), used')
<1>1. t \in Seq(Session) /\ Len(t) <= MaxSessions /\ MaxSessions \in Nat \ {0}
  BY SignInAssumption DEF SessionsOK
<1>2. Ordered(t, used') /\ \A o \in Entries(t) : <<o.sid, e.sid>> \in used'
  BY UseOrders
<1> DEFINE n == Trimmed(Append(t, e), MaxSessions)
<1>3. n \in Seq(Session) /\ \E k \in {0, 1} : Joined(n, t, e, k)
  BY <1>1, AddedEntry
<1> HIDE DEF n
<1>4. Ordered(n, used')
  BY <1>1, <1>2, <1>3, LastIsOrdered
<1> QED BY <1>4 DEF WithSession, n

LEMMA EnsurePreloginOrders ==
    ASSUME IInv, OrderInv, NEW r \in Requests, NEW b \in Browsers, EnsurePrelogin(r, b)
    PROVE  OrderInv'
<1>1. CASE Holds(cookie[b])
  BY <1>1 DEF EnsurePrelogin, OrderInv
<1>2. CASE ~Holds(cookie[b])
  <2> DEFINE e == [sid |-> Fresh, who |-> Nobody, by |-> b]
  <2>1. Use(Fresh) /\ sessions' = WithSession(sessions, e) /\ tokens < MaxTokens
    BY <1>2 DEF EnsurePrelogin, MakeToken
  <2>2. e \in Session /\ e.sid = Fresh
    BY <2>1, Values DEF Fresh, Session
  <2>3. SessionsOK(sessions) /\ \A o \in Entries(sessions) : o.sid # Fresh
    BY Values DEF IInv, MadeInv, Entries, Holds, Sids, Fresh
  <2> HIDE DEF e
  <2> QED BY <2>1, <2>2, <2>3, NewIsLast DEF OrderInv
<1> QED BY <1>1, <1>2

LEMMA CreateAuthenticatedOrders ==
    ASSUME IInv, OrderInv, NEW r \in Requests, NEW person \in People, CreateAuthenticated(r, person)
    PROVE  OrderInv'
<1> DEFINE e == [sid |-> Fresh, who |-> person, by |-> request[r].by]
           rest == Without(request[r].sid)
<1>1. Use(Fresh) /\ sessions' = WithSession(rest, e) /\ tokens < MaxTokens /\ request[r].at = "exchange"
  BY DEF CreateAuthenticated, MakeToken, Proceed
<1>2. e \in Session /\ e.sid = Fresh
  BY <1>1, Values DEF Fresh, Session, IInv, HomeInv, SigningIn
<1>3. \A o \in Entries(sessions) : o.sid # Fresh
  BY Values DEF IInv, MadeInv, Entries, Holds, Sids, Fresh
<1>4. SessionsOK(rest) /\ Entries(rest) \subseteq Entries(sessions) /\ Ordered(rest, used)
  BY Values, OthersStay, OthersOrdered DEF OrderInv
<1> HIDE DEF e, rest
<1> QED BY <1>1, <1>2, <1>3, <1>4, NewIsLast DEF OrderInv

LEMMA GetOrders ==
    ASSUME IInv, OrderInv, NEW r \in Requests, NEW b \in Browsers, Get(r, b)
    PROVE  OrderInv'
<1> DEFINE entry == sessions[Position(cookie[b])]
           rest == Without(cookie[b])
<1>1. Use(cookie[b]) /\ sessions' = Append(rest, entry)
  BY DEF Get, Touched
<1>2. entry \in Session /\ entry.sid = cookie[b]
  <2>1. Position(cookie[b]) \in DOMAIN sessions /\ entry.sid = cookie[b]
    BY DEF Get, SignedIn, Position
  <2> QED BY <2>1, Values DEF SessionsOK
<1>3. /\ SessionsOK(rest) /\ Ordered(rest, used)
      /\ Entries(rest) \subseteq {e \in Entries(sessions) : e.sid # cookie[b]}
  BY Values, OthersStay, OthersOrdered DEF OrderInv
<1> HIDE DEF entry, rest
<1>4. Ordered(rest, used') /\ \A o \in Entries(rest) : <<o.sid, entry.sid>> \in used'
  BY <1>1, <1>2, <1>3, UseOrders
<1>5. rest \in Seq(Session)
  BY <1>3 DEF SessionsOK
<1>6. sessions' \in Seq(Session) /\ Joined(sessions', rest, entry, 0)
  BY <1>1, <1>2, <1>5 DEF Joined
<1> QED BY <1>4, <1>5, <1>6, LastIsOrdered DEF OrderInv

LEMMA OrderNext == IInv /\ OrderInv /\ [Next]_vars => OrderInv'
<1> SUFFICES ASSUME IInv, OrderInv, [Next]_vars PROVE OrderInv'
  OBVIOUS
<1>1. ASSUME used' = used, \/ sessions' = sessions \/ sessions' = <<>>
                          \/ \E sid : sessions' = Without(sid)
      PROVE  OrderInv'
  <2>1. CASE sessions' = sessions
    BY <1>1, <2>1 DEF OrderInv
  <2>2. CASE sessions' = <<>>
    BY <2>2 DEF OrderInv, Ordered
  <2>3. CASE \E sid : sessions' = Without(sid)
    BY <1>1, <2>3, Values, OthersOrdered DEF OrderInv
  <2> QED BY <1>1, <2>1, <2>2, <2>3
<1>2. CASE Expire \/ Restart \/ UNCHANGED vars
  BY <1>1, <1>2 DEF Expire, Restart, vars, history
<1>3. ASSUME NEW r \in Requests, Handle(r) PROVE OrderInv'
  <2>1. CASE RegisterState(r) \/ GoToGitHub(r) \/ Refused(r) \/ Answer(r) \/ Check(r) \/ Logout(r)
    BY <1>1, <2>1 DEF RegisterState, GoToGitHub, Refused, Answer, Check, Logout, history
  <2>2. CASE \E b \in Browsers : ValidateCsrf(r, b) \/ \E state \in links : ConsumeState(r, b, state)
    BY <1>1, <2>2 DEF ValidateCsrf, ConsumeState, history
  <2> QED BY <1>3, <2>1, <2>2, EnsurePreloginOrders, CreateAuthenticatedOrders, GetOrders DEF Handle
<1> QED BY <1>2, <1>3 DEF Next

\* Whoever is held and not taken out is held still.
LEMMA OthersAreKept ==
    ASSUME SessionsOK(sessions), NEW own, Holds(own), NEW sid \in Sids(sessions), sid # own
    PROVE  sid \in Sids(Without(own))
<1> DEFINE i == Position(own)
           rest == Without(own)
<1>1. sessions \in Seq(Session) /\ i \in DOMAIN sessions /\ sessions[i].sid = own
  BY DEF Holds, Sids, Position, SessionsOK
<1>2. rest = RemoveAt(sessions, i)
  BY DEF Without
<1> HIDE DEF i, rest
<1>3. /\ rest \in Seq(Session) /\ Len(rest) = Len(sessions) - 1
      /\ \A j \in DOMAIN rest : rest[j] = IF j < i THEN sessions[j] ELSE sessions[j + 1]
  BY <1>1, <1>2, RemovedEntry
<1>4. /\ DOMAIN rest = 1..(Len(sessions) - 1) /\ Len(sessions) \in Nat
      /\ DOMAIN sessions = 1..Len(sessions) /\ i \in 1..Len(sessions)
  BY <1>1, <1>3
<1>5. PICK k \in DOMAIN sessions : sessions[k].sid = sid
  BY DEF Sids
<1>6. k # i
  BY <1>1, <1>5
<1>7. CASE k < i
  <2>1. k \in DOMAIN rest /\ rest[k] = sessions[k]
    BY <1>3, <1>4, <1>7
  <2> QED BY <1>5, <2>1 DEF Sids, rest
<1>8. CASE ~(k < i)
  <2>1. k - 1 \in DOMAIN rest /\ rest[k - 1] = sessions[k]
    BY <1>3, <1>4, <1>6, <1>8
  <2> QED BY <1>5, <2>1 DEF Sids, rest
<1> QED BY <1>7, <1>8

\* Who makes room was first in the table, and the table was full.
LEMMA FirstMakesRoom ==
    ASSUME SessionsOK(sessions), OrderInv, NEW e \in Session,
           NEW sid \in Sids(sessions) \ Sids(WithSession(sessions, e))
    PROVE  LeastRecentlyUsed(sid) /\ Len(sessions) = MaxSessions
<1> DEFINE n == Trimmed(Append(sessions, e), MaxSessions)
<1>1. /\ sessions \in Seq(Session) /\ Len(sessions) \in Nat /\ DOMAIN sessions = 1..Len(sessions)
      /\ Len(sessions) <= MaxSessions /\ MaxSessions \in Nat \ {0}
  BY SignInAssumption DEF SessionsOK
<1>2. n \in Seq(Session) /\ Len(n) <= MaxSessions /\ \E k \in {0, 1} : Joined(n, sessions, e, k)
  BY <1>1, AddedEntry
<1>3. sid \in Sids(sessions) /\ sid \notin Sids(n)
  BY DEF WithSession
<1>a. Len(Append(sessions, e)) = Len(sessions) + 1
  BY <1>1
<1>4. Len(Append(sessions, e)) > MaxSessions
  <2>1. CASE ~(Len(Append(sessions, e)) > MaxSessions)
    <3>1. n = Append(sessions, e)
      BY <2>1 DEF Trimmed
    <3>2. \A i \in DOMAIN sessions : i \in DOMAIN n /\ n[i] = sessions[i]
      BY <1>1, <3>1
    <3> QED BY <1>3, <3>2 DEF Sids
  <2> QED BY <2>1
<1>5. n = Tail(Append(sessions, e))
  BY <1>4 DEF Trimmed
<1>6. \A i \in 2..Len(sessions) : (i - 1) \in DOMAIN n /\ n[i - 1] = sessions[i]
  BY <1>1, <1>5
<1> HIDE DEF n
<1>7. PICK i \in DOMAIN sessions : sessions[i].sid = sid
  BY <1>3 DEF Sids
<1>8. i = 1
  <2>1. i \in 2..Len(sessions) => sid \in Sids(n)
    BY <1>6, <1>7 DEF Sids
  <2> QED BY <1>1, <1>3, <2>1
<1>9. LeastRecentlyUsed(sid)
  <2> SUFFICES ASSUME NEW s \in Sids(sessions), s # sid PROVE <<sid, s>> \in used
    BY DEF LeastRecentlyUsed
  <2>1. PICK j \in DOMAIN sessions : sessions[j].sid = s
    BY DEF Sids
  <2>2. 1 < j
    BY <1>1, <1>7, <1>8, <2>1
  <2> QED BY <1>7, <1>8, <2>1, <2>2 DEF OrderInv, Ordered
<1>10. Len(sessions) = MaxSessions
  <2>1. Len(sessions) + 1 > MaxSessions
    BY <1>a, <1>4
  <2>2. \A a, b \in Nat : a <= b /\ a + 1 > b => a = b
    OBVIOUS
  <2>3. Len(sessions) \in Nat /\ MaxSessions \in Nat /\ Len(sessions) <= MaxSessions
    BY <1>1
  <2> QED BY ONLY <2>1, <2>2, <2>3, Zenon
<1> QED BY <1>9, <1>10

\* What a signed-in person needs room for is made room for alike: if the session
\* that was replaced was still there, nobody else goes.
LEMMA PersonMakesRoom ==
    ASSUME IInv, OrderInv, NEW r \in Requests, NEW person \in People, CreateAuthenticated(r, person)
    PROVE  MakesRoom
<1> DEFINE e == [sid |-> Fresh, who |-> person, by |-> request[r].by]
           own == request[r].sid
<1>1. /\ sessions' = WithSession(Without(own), e) /\ tokens < MaxTokens
      /\ request[r].at = "exchange"
      /\ request' = [request EXCEPT ![r] = [Holding(r, "answer") EXCEPT !.sid = Fresh]]
  BY DEF CreateAuthenticated, MakeToken, Proceed
<1>2. e \in Session
  BY <1>1, Values DEF Fresh, Session, IInv, HomeInv, SigningIn
<1>3. request'[r].at = "answer"
  <2>1. request[r] \in RequestType /\ request \in [Requests -> RequestType]
    BY DEF IInv, TypeInv
  <2> QED BY <1>1, <2>1 DEF Holding, RequestType
<1>4. SessionsOK(sessions)
  BY Values
<1> HIDE DEF e
<1> SUFFICES ASSUME NEW sid \in Sids(sessions) \ Sids(sessions'), sid # own
             PROVE  LeastRecentlyUsed(sid) /\ Len(sessions) = MaxSessions
  BY <1>1, <1>3 DEF MakesRoom, Replaced
<1>5. CASE ~Holds(own)
  BY <1>1, <1>2, <1>4, <1>5, FirstMakesRoom DEF Without
<1>6. CASE Holds(own)
  <2> DEFINE rest == Without(own)
  <2>1. SessionsOK(rest) /\ Len(rest) < Len(sessions)
    BY <1>4, <1>6, OthersStay
  <2>2. /\ rest \in Seq(Session) /\ Len(rest) \in Nat /\ Len(sessions) \in Nat
        /\ Len(sessions) <= MaxSessions /\ MaxSessions \in Nat
    BY <1>4, <2>1, SignInAssumption DEF SessionsOK
  <2>3. sid \in Sids(rest)
    BY <1>4, <1>6, OthersAreKept
  <2> HIDE DEF rest
  <2>4. sessions' = Append(rest, e)
    BY <1>1, <2>1, <2>2 DEF WithSession, Trimmed, rest
  <2>5. \A i \in DOMAIN rest : i \in DOMAIN sessions' /\ sessions'[i] = rest[i]
    BY <2>2, <2>4
  <2> QED BY <2>3, <2>5 DEF Sids
<1> QED BY <1>5, <1>6

\* Without a new session nobody has to make room.
LEMMA KeptMakesNoRoom ==
    ASSUME Entries(sessions') \subseteq Entries(sessions)
    PROVE  MakesRoom
<1>1. Sids(sessions') \subseteq Sids(sessions)
  BY DEF Entries, Sids
<1> QED BY <1>1 DEF MakesRoom

LEMMA GetHolds ==
    ASSUME IInv, NEW r \in Requests, NEW b \in Browsers, Get(r, b)
    PROVE  Entries(sessions') \subseteq Entries(sessions)
<1> DEFINE i == Position(cookie[b])
           rest == Without(cookie[b])
<1>1. sessions' = Append(rest, sessions[i]) /\ i \in DOMAIN sessions
  BY DEF Get, Touched, SignedIn, Position
<1>2. SessionsOK(rest) /\ Entries(rest) \subseteq Entries(sessions)
  BY Values, OthersStay
<1> HIDE DEF i, rest
<1>3. rest \in Seq(Session) /\ Len(rest) \in Nat
  BY <1>2 DEF SessionsOK
<1>4. \A j \in DOMAIN sessions' :
         sessions'[j] = sessions[i] \/ (j \in DOMAIN rest /\ sessions'[j] = rest[j])
  BY <1>1, <1>3
<1> QED BY <1>1, <1>2, <1>4 DEF Entries

-------------------------------------------------------------------------------
(* Theorems.                                                                 *)

LEMMA StepInv == IInv /\ [Next]_vars => IInv'
<1> SUFFICES ASSUME IInv, [Next]_vars PROVE IInv'
  OBVIOUS
<1>1. CASE Expire
  BY <1>1, ExpireKeeps
<1>2. CASE Restart
  BY <1>2, RestartKeeps
<1>3. CASE \E r \in Requests : Handle(r)
  <2> PICK r \in Requests : Handle(r)
    BY <1>3
  <2>1. CASE RegisterState(r)
    BY <2>1, RegisterStateKeeps
  <2>2. CASE GoToGitHub(r)
    BY <2>2, GoToGitHubKeeps
  <2>3. CASE Refused(r)
    BY <2>3, RefusedKeeps
  <2>4. CASE Answer(r)
    BY <2>4, AnswerKeeps
  <2>5. CASE Check(r)
    BY <2>5, CheckKeeps
  <2>6. CASE Logout(r)
    BY <2>6, LogoutKeeps
  <2>7. CASE \E person \in People : CreateAuthenticated(r, person)
    BY <2>7, CreateAuthenticatedKeeps
  <2>8. CASE \E b \in Browsers : EnsurePrelogin(r, b)
    BY <2>8, EnsurePreloginKeeps
  <2>9. CASE \E b \in Browsers : Get(r, b)
    BY <2>9, GetKeeps
  <2>10. CASE \E b \in Browsers : ValidateCsrf(r, b)
    BY <2>10, ValidateCsrfKeeps
  <2>11. CASE \E b \in Browsers : \E state \in links : ConsumeState(r, b, state)
    BY <2>11, ConsumeStateKeeps
  <2> QED  BY <2>1, <2>2, <2>3, <2>4, <2>5, <2>6, <2>7, <2>8, <2>9, <2>10, <2>11 DEF Handle
<1>4. CASE UNCHANGED vars
  <2>1. Shrinks
    BY <1>4, Values DEF vars, Shrinks, IInv, TypeInv
  <2> QED  BY <2>1, ShrinkingKeeps
<1> QED  BY <1>1, <1>2, <1>3, <1>4 DEF Next

\* The invariant holds: the types and limits of the tables, that tokens are
\* new when they are made, that whatever carries a session token began in the
\* browser it was made for, and that a state is in one place.
THEOREM SignInInvariant == Spec => []IInv
  BY InitInv, StepInv, PTL DEF Spec

\* The tables keep their types and their limits, and no session is held twice
\* (MemorySessions, server/auth.py).
THEOREM TypeCorrect == Spec => []TypeOK
<1>1. IInv => TypeOK
  BY DEF IInv, TypeInv, RequestType, SessionsOK, StatesOK, Distinct, TypeOK
<1> QED  BY <1>1, SignInInvariant, PTL

\* A browser's signed-in session comes from a sign-in that began in this very
\* browser: consume_state compares the session of the state with the cookie.
THEOREM SessionsAreOwn == Spec => []OwnSignIn
<1>1. IInv => OwnSignIn
  <2> SUFFICES ASSUME IInv, NEW b \in Browsers, NEW i \in DOMAIN sessions, sessions[i].sid = cookie[b]
               PROVE  sessions[i].by = b
    BY DEF OwnSignIn
  <2>1. PICK home \in [1..MaxTokens -> Browsers \cup {Nobody}] : Agree(home)
    BY DEF IInv, HomeInv
  <2>2. cookie[b] # 0
    BY Values DEF Holds, Sids
  <2> QED  BY <2>1, <2>2 DEF Agree, Entries
<1> QED  BY <1>1, SignInInvariant, PTL

\* A state makes one session at most: consume_state takes it out of the table
\* in the section that finds it there.
THEOREM StatesAreSpentOnce == Spec => []OneSessionPerState
<1>1. IInv => OneSessionPerState
  BY DEF IInv, StateInv
<1> QED  BY <1>1, SignInInvariant, PTL

\* A session that makes room for another is the one nobody used for longest, and
\* the table was full (_trim_sessions_locked): get puts what is used last.
THEOREM OldestMakesRoom == Spec => OnlyOldestMakesRoom
<1>1. Init => OrderInv
  BY DEF Init, OrderInv, Ordered
<1>2. IInv /\ OrderInv /\ [Next]_vars => [MakesRoom]_vars
  <2> SUFFICES ASSUME IInv, OrderInv, Next PROVE MakesRoom
    OBVIOUS
  <2>1. ASSUME Entries(sessions') \subseteq Entries(sessions) PROVE MakesRoom
    BY <2>1, KeptMakesNoRoom
  <2>2. CASE Expire \/ Restart
    <3>1. Entries(sessions') \subseteq Entries(sessions)
      <4>1. sessions' = sessions \/ sessions' = <<>> \/ \E sid : sessions' = Without(sid)
        BY <2>2 DEF Expire, Restart
      <4>2. sessions' = <<>> => Entries(sessions') = {}
        BY DEF Entries
      <4> QED BY <4>1, <4>2, Values, OthersStay
    <3> QED BY <2>1, <3>1
  <2>3. ASSUME NEW r \in Requests, Handle(r) PROVE MakesRoom
    <3>1. CASE \/ RegisterState(r) \/ GoToGitHub(r) \/ Refused(r) \/ Answer(r) \/ Check(r) \/ Logout(r)
               \/ \E b \in Browsers : ValidateCsrf(r, b) \/ \E state \in links : ConsumeState(r, b, state)
      <4>1. sessions' = sessions \/ \E sid : sessions' = Without(sid)
        BY <3>1 DEF RegisterState, GoToGitHub, Refused, Answer, Check, Logout, ValidateCsrf, ConsumeState
      <4>2. Entries(sessions') \subseteq Entries(sessions)
        BY <4>1, Values, OthersStay
      <4> QED BY <2>1, <4>2
    <3>2. ASSUME NEW b \in Browsers, EnsurePrelogin(r, b) PROVE MakesRoom
      <4>1. CASE Holds(cookie[b])
        BY <2>1, <3>2, <4>1 DEF EnsurePrelogin
      <4>2. CASE ~Holds(cookie[b])
        <5>1. /\ sessions' = WithSession(sessions, [sid |-> Fresh, who |-> Nobody, by |-> b])
              /\ tokens < MaxTokens
          BY <3>2, <4>2 DEF EnsurePrelogin, MakeToken
        <5>2. [sid |-> Fresh, who |-> Nobody, by |-> b] \in Session
          BY <5>1, Values DEF Fresh, Session
        <5> QED BY <5>1, <5>2, Values, FirstMakesRoom DEF MakesRoom
      <4> QED BY <4>1, <4>2
    <3>3. ASSUME NEW b \in Browsers, Get(r, b) PROVE MakesRoom
      BY <2>1, <3>3, GetHolds
    <3> QED BY <2>3, <3>1, <3>2, <3>3, PersonMakesRoom DEF Handle
  <2> QED BY <2>2, <2>3 DEF Next
<1> QED BY <1>1, <1>2, OrderNext, SignInInvariant, PTL DEF Spec, OnlyOldestMakesRoom

===============================================================================
