--------------------------------- MODULE SignIn ---------------------------------
(***************************************************************************)
(* Signing in with GitHub and the sessions it makes (server/auth.py and    *)
(* the routes of app.py that use it).  Sessions and sign-in states live in *)
(* two bounded tables under one lock.  A request takes the lock in several *)
(* short sections and talks to GitHub between them, and its answer changes *)
(* the browser's cookie some time later, so requests of several tabs and   *)
(* browsers overlap.                                                       *)
(*                                                                         *)
(* Tokens are numbers that never come back.  A table is a sequence: the    *)
(* sessions in the order they were last touched, the states in the order   *)
(* they expire.  What has expired is purged at once, since nothing reads   *)
(* it.                                                                     *)
(***************************************************************************)
EXTENDS Naturals, Sequences, SequencesExt

CONSTANTS
    Browsers, People,
    Requests,                \* requests that can be on their way at a time
    Nobody,
    MaxSessions, MaxStates,  \* max_sessions and max_states
    MaxTokens                \* bound: tokens ever made

ASSUME SignInAssumption ==
    /\ MaxSessions \in Nat \ {0} /\ MaxStates \in Nat \ {0} /\ MaxTokens \in Nat
    /\ Nobody \notin People \cup Browsers

VARIABLES
    sessions,  \* _sessions, the least recently touched first
    states,    \* _states, the first to expire first
    request,   \* requests on their way, and what they hold
    cookie,    \* browsers: the session cookie, 0 for none
    links,     \* browsers: callback addresses that GitHub sent them to
    tokens,    \* how many tokens were made
    used,      \* history: of two sessions, which was last used before the other
    spent      \* history: the states that sessions were made from, in order

vars == <<sessions, states, request, cookie, links, tokens, used, spent>>
history == <<used, spent>>

\* by is the browser in which a sign-in began, which the code does not know.
Session == [sid : 1..MaxTokens, who : People \cup {Nobody}, by : Browsers]
PendingState == [state : 1..MaxTokens, sid : 1..MaxTokens, by : Browsers]

Idle == [at |-> "idle", browser |-> Nobody, sid |-> 0, state |-> 0, by |-> Nobody]
Stages == {"idle", "register", "begun", "exchange", "answer", "check", "signout"}

Sids(table) == {table[i].sid : i \in DOMAIN table}
Holds(sid) == sid \in Sids(sessions)
SignedIn(sid) == \E i \in DOMAIN sessions : sessions[i].sid = sid /\ sessions[i].who # Nobody
Position(sid) == CHOOSE i \in DOMAIN sessions : sessions[i].sid = sid
Without(sid) == IF Holds(sid) THEN RemoveAt(sessions, Position(sid)) ELSE sessions

\* Insertion and trimming: the entry that was first goes if there are too many.
Trimmed(table, limit) == IF Len(table) > limit THEN Tail(table) ELSE table

\* Bug: a session that is made is added, and no other goes.
WithSessionUntrimmed(table, session) == Append(table, session)

WithSession(table, session) == Trimmed(Append(table, session), MaxSessions)

\* MemorySessions.get: the session becomes the most recently touched.
Touched(sid) == Append(Without(sid), sessions[Position(sid)])

Fresh == tokens + 1
MakeToken == tokens < MaxTokens /\ tokens' = Fresh

Send(r, next) == request[r] = Idle /\ request' = [request EXCEPT ![r] = next]
Proceed(r, at, next) == request[r].at = at /\ request' = [request EXCEPT ![r] = next]
Holding(r, at) == [request[r] EXCEPT !.at = at]

Use(sid) ==
    LET others == Sids(sessions) \ {sid}
    IN  used' = (used \cap (others \X others)) \cup (others \X {sid})

-------------------------------------------------------------------------------
Init ==
    /\ sessions = <<>> /\ states = <<>>
    /\ request = [r \in Requests |-> Idle]
    /\ cookie = [b \in Browsers |-> 0]
    /\ links = {}
    /\ tokens = 0
    /\ used = {} /\ spent = <<>>

\* begin, its first section: the browser's session, or a new one nobody owns.
EnsurePrelogin(r, b) ==
    LET sid == IF Holds(cookie[b]) THEN cookie[b] ELSE Fresh
    IN  /\ Send(r, [at |-> "register", browser |-> b, sid |-> sid, state |-> 0, by |-> b])
        /\ IF Holds(cookie[b])
           THEN UNCHANGED <<sessions, tokens, used>>
           ELSE /\ MakeToken
                /\ Use(sid)
                /\ sessions' = WithSession(sessions, [sid |-> sid, who |-> Nobody, by |-> b])
        /\ UNCHANGED <<states, cookie, links, spent>>

\* begin, its second section: the state that the callback will have to show.
RegisterState(r) ==
    /\ MakeToken
    /\ Proceed(r, "register", [Holding(r, "begun") EXCEPT !.state = Fresh])
    /\ states' = Trimmed(Append(states, [state |-> Fresh, sid |-> request[r].sid,
                                         by |-> request[r].by]), MaxStates)
    /\ UNCHANGED <<sessions, cookie, links, history>>

\* The answer of begin: the cookie, and the way to GitHub and back.
GoToGitHub(r) ==
    /\ Proceed(r, "begun", Idle)
    /\ cookie' = [cookie EXCEPT ![request[r].browser] = request[r].sid]
    /\ links' = links \cup {request[r].state}
    /\ UNCHANGED <<sessions, states, tokens, history>>

\* Bug: a state is good for whoever shows it.
BoundToAnyone(pending, sid) == TRUE

\* A state is good only with the session that it was registered for.
BoundTo(pending, sid) == pending.sid = sid

\* Bug: the state stays until it expires.
RemainingKept(i) == states

Remaining(i) == RemoveAt(states, i)

\* callback, its first section: consume_state takes the state away.
ConsumeState(r, b, state) ==
    /\ state \in links
    /\ \E i \in DOMAIN states :
          /\ states[i].state = state
          /\ BoundTo(states[i], cookie[b])
          /\ Send(r, [at |-> "exchange", browser |-> b, sid |-> states[i].sid,
                      state |-> state, by |-> states[i].by])
          /\ states' = Remaining(i)
    /\ UNCHANGED <<sessions, cookie, links, tokens, history>>

\* callback, its second section: the person GitHub named owns a new session,
\* and the session that the sign-in began with is gone.
CreateAuthenticated(r, person) ==
    /\ MakeToken
    /\ Proceed(r, "exchange", [Holding(r, "answer") EXCEPT !.sid = Fresh])
    /\ sessions' = WithSession(Without(request[r].sid),
                               [sid |-> Fresh, who |-> person, by |-> request[r].by])
    /\ Use(Fresh)
    /\ spent' = Append(spent, request[r].state)
    /\ UNCHANGED <<states, cookie, links>>

\* The address to GitHub cannot be made, or GitHub refuses the code, the token or
\* the person: the browser is told, and keeps the cookie it has.
Refused(r) ==
    /\ request[r].at \in {"begun", "exchange"}
    /\ request' = [request EXCEPT ![r] = Idle]
    /\ UNCHANGED <<sessions, states, cookie, links, tokens, history>>

\* The answer of callback or logout sets or clears the cookie.
Answer(r) ==
    /\ Proceed(r, "answer", Idle)
    /\ cookie' = [cookie EXCEPT ![request[r].browser] = request[r].sid]
    /\ UNCHANGED <<sessions, states, links, tokens, history>>

\* Bug: a session that is used keeps its place.
GetUntouched(r, b) ==
    /\ SignedIn(cookie[b])
    /\ Send(r, [Idle EXCEPT !.at = "check", !.browser = b, !.sid = cookie[b]])
    /\ Use(cookie[b])
    /\ UNCHANGED <<sessions, states, cookie, links, tokens, spent>>

\* authorize, its first section; without a session a page leads to begin.
Get(r, b) ==
    /\ SignedIn(cookie[b])
    /\ Send(r, [Idle EXCEPT !.at = "check", !.browser = b, !.sid = cookie[b]])
    /\ sessions' = Touched(cookie[b])
    /\ Use(cookie[b])
    /\ UNCHANGED <<states, cookie, links, tokens, spent>>

\* GitHub says that the token is still this person's, and the page is served;
\* or it does not, or is out of reach, and the session is destroyed.
Check(r) ==
    /\ Proceed(r, "check", Idle)
    /\ \/ UNCHANGED sessions
       \/ sessions' = Without(request[r].sid)
    /\ UNCHANGED <<states, cookie, links, tokens, history>>

\* logout, its first section: the token of the form is that of the session.
ValidateCsrf(r, b) ==
    /\ Holds(cookie[b])
    /\ Send(r, [Idle EXCEPT !.at = "signout", !.browser = b, !.sid = cookie[b]])
    /\ UNCHANGED <<sessions, states, cookie, links, tokens, history>>

Logout(r) ==
    /\ Proceed(r, "signout", [Holding(r, "answer") EXCEPT !.sid = 0])
    /\ sessions' = Without(request[r].sid)
    /\ UNCHANGED <<states, cookie, links, tokens, history>>

\* _purge_locked: a session expires with its token or by age, states by age.
Expire ==
    /\ \/ \E sid \in Sids(sessions) : sessions' = Without(sid) /\ UNCHANGED states
       \/ states # <<>> /\ states' = Tail(states) /\ UNCHANGED sessions
    /\ UNCHANGED <<request, cookie, links, tokens, history>>

\* The tables are in memory, the cookies are not.
Restart ==
    /\ sessions' = <<>> /\ states' = <<>>
    /\ request' = [r \in Requests |-> Idle]
    /\ UNCHANGED <<cookie, links, tokens, history>>

Handle(r) ==
    \/ RegisterState(r) \/ GoToGitHub(r) \/ Refused(r) \/ Answer(r)
    \/ Check(r) \/ Logout(r)
    \/ \E person \in People : CreateAuthenticated(r, person)
    \/ \E b \in Browsers :
          \/ EnsurePrelogin(r, b) \/ Get(r, b) \/ ValidateCsrf(r, b)
          \/ \E state \in links : ConsumeState(r, b, state)

Next == Expire \/ Restart \/ \E r \in Requests : Handle(r)

Spec == Init /\ [][Next]_vars

-------------------------------------------------------------------------------
\* The tables keep their types and their limits, and no session is held twice.
TypeOK ==
    /\ sessions \in Seq(Session) /\ Len(sessions) <= MaxSessions
    /\ states \in Seq(PendingState) /\ Len(states) <= MaxStates
    /\ \A i, j \in DOMAIN sessions : sessions[i].sid = sessions[j].sid => i = j
    /\ \A r \in Requests : request[r].at \in Stages /\ request[r].sid \in 0..MaxTokens
    /\ cookie \in [Browsers -> 0..MaxTokens]
    /\ links \subseteq 1..MaxTokens

\* A browser's signed-in session comes from a sign-in that began in this very
\* browser, whatever callback addresses are opened where, in whatever order the
\* tabs answer, and whatever was signed out, evicted or forgotten meanwhile.
OwnSignIn ==
    \A b \in Browsers : \A i \in DOMAIN sessions :
        sessions[i].sid = cookie[b] /\ sessions[i].who # Nobody => sessions[i].by = b

\* However often its callback is opened, also while the first one still talks
\* to GitHub, a state makes one session at most.
OneSessionPerState == \A i, j \in DOMAIN spent : spent[i] = spent[j] => i = j

\* A session that makes room for another is the one nobody used for longest,
\* and there was no room; the only other session to go is the one replaced.
Replaced(sid) ==
    \E r \in Requests : request[r].at = "exchange" /\ request'[r].at = "answer" /\ request[r].sid = sid
LeastRecentlyUsed(sid) == \A s \in Sids(sessions) \ {sid} : <<sid, s>> \in used
MakesRoom ==
    Sids(sessions') \ Sids(sessions) # {} =>
        \A sid \in Sids(sessions) \ Sids(sessions') :
            \/ Replaced(sid)
            \/ LeastRecentlyUsed(sid) /\ Len(sessions) = MaxSessions
OnlyOldestMakesRoom == [][MakesRoom]_vars
===============================================================================
