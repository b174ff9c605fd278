-------------------------- MODULE RepositoryRegistry --------------------------
(***************************************************************************)
(* The registry of repositories: one row per repository with the           *)
(* generation of its registration, and what it remembers of GitHub's       *)
(* answers.  A call holds the lock of its repository while it asks GitHub,  *)
(* so a call is one step; a caller's steps fall between calls.             *)
(*                                                                         *)
(* The calls are operators that gateway threads use; here they stand for   *)
(* themselves, called by anyone at any time.                               *)
(***************************************************************************)
EXTENDS Naturals

CONSTANTS
    Repos,          \* numeric repository ids
    Installations,  \* installations of the App on a repository under a name
    NameOf,         \* the owner and name of the repository they are for
    First,          \* the installations there are at the start
    Names,
    None

VARIABLES
    installed,  \* what GitHub would answer
    row,        \* table repositories
    cache,      \* _positive_cache, entries not expired
    denied      \* _negative_cache, entries not expired

registry == <<row, cache, denied>>

Row == [generation : Nat \ {0}, installation : Installations, active : BOOLEAN]
RepositoryContext == [repo : Repos, installation : Installations, generation : Nat \ {0}]

ASSUME RegistryAssumption ==
    /\ NameOf \in [Installations -> Names]
    /\ First \in [Repos -> Installations]
    /\ None \notin Installations \cup Row \cup RepositoryContext

Context(r, record) ==
    [repo |-> r, installation |-> record.installation, generation |-> record.generation]

\* _load_context
Stored(r) == IF row[r] # None /\ row[r].active THEN Context(r, row[r]) ELSE None

\* list_registered
Registered == {Stored(r) : r \in Repos} \ {None}

\* The installation GitHub has is the one the name asks for.
Confirmed(r, name) == installed[r] # None /\ NameOf[installed[r]] = name

RegistryTypes ==
    /\ installed \in [Repos -> Installations \cup {None}]
    /\ row \in [Repos -> Row \cup {None}]
    /\ cache \in [Repos -> RepositoryContext \cup {None}]
    /\ denied \subseteq Repos

RegistryInit ==
    /\ installed = First
    /\ row = [r \in Repos |-> None]
    /\ cache = [r \in Repos |-> None]
    /\ denied = {}

-------------------------------------------------------------------------------
\* _activate
Activate(r) ==
    LET changed == row[r].installation # installed[r] \/ ~row[r].active
        record == IF row[r] = None
                  THEN [generation |-> 1, installation |-> installed[r], active |-> TRUE]
                  ELSE [generation |-> row[r].generation + (IF changed THEN 1 ELSE 0),
                        installation |-> installed[r], active |-> TRUE]
    IN /\ row' = [row EXCEPT ![r] = record]
       /\ cache' = [cache EXCEPT ![r] = Context(r, record)]
       /\ denied' = denied \ {r}

\* _retire, and the denial it is remembered with
Retire(r) ==
    /\ row' = IF Stored(r) = None THEN row
              ELSE [row EXCEPT ![r].active = FALSE, ![r].generation = @ + 1]
    /\ cache' = [cache EXCEPT ![r] = IF @ = Stored(r) THEN None ELSE @]
    /\ denied' = denied \cup {r}

\* A call without an answer from GitHub, or one that needs none.
NoChange == UNCHANGED registry

Fresh(r) == cache[r] # None /\ cache[r] = Stored(r)

\* register, of an event signed with the repository's name at its time; when it
\* is found, its context is the one in the cache
Register(r, name, found) ==
    LET known == Fresh(r) /\ NameOf[cache[r].installation] = name
    IN \/ known /\ found /\ NoChange
       \/ ~known /\ ~found /\ NoChange
       \/ ~known /\ r \notin denied /\ Confirmed(r, name) /\ found /\ Activate(r)
       \/ ~known /\ r \notin denied /\ ~Confirmed(r, name) /\ ~found /\ Retire(r)

\* resolve; when it is found, its context is the one in the cache
Resolve(r, found) ==
    \/ (r \in denied \/ Stored(r) = None) /\ ~found /\ NoChange
    \/ r \notin denied /\ Fresh(r) /\ found /\ NoChange
    \/ /\ r \notin denied /\ ~Fresh(r) /\ Stored(r) # None
       /\ \/ ~found /\ NoChange
          \/ Confirmed(r, NameOf[row[r].installation]) /\ found /\ Activate(r)
          \/ ~Confirmed(r, NameOf[row[r].installation]) /\ ~found /\ Retire(r)

\* require_current
RequireCurrent(context, ok) ==
    LET r == context.repo
    IN \/ Stored(r) # context /\ ~ok /\ NoChange
       \/ Stored(r) = context /\ Fresh(r) /\ ok /\ NoChange
       \/ /\ Stored(r) = context /\ ~Fresh(r)
          /\ \E found \in BOOLEAN :
                 Resolve(r, found) /\ ok = (found /\ cache'[r] = context)

\* The lives of the answers end.
Expire(r) ==
    /\ \/ cache[r] # None /\ cache' = [cache EXCEPT ![r] = None] /\ UNCHANGED denied
       \/ r \in denied /\ denied' = denied \ {r} /\ UNCHANGED cache
    /\ UNCHANGED row
===============================================================================
