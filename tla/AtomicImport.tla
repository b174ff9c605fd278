------------------------------ MODULE AtomicImport ------------------------------
(***************************************************************************)
(* What the import of a legacy store promises: a repository gets its store *)
(* and its registration together or not at all, and never at the cost of a *)
(* store that was used.                                                    *)
(***************************************************************************)
EXTENDS Naturals

CONSTANTS Repos, Versions, None

VARIABLES
    dest,   \* store of each repository
    row,    \* its row in the registry
    running \* whether the gateway runs

File == [kind : {"empty", "used", "imported"}, db : Versions \cup {0}, generation : Nat]
Empty == [kind |-> "empty", db |-> 0, generation |-> 0]
Used == [kind |-> "used", db |-> 0, generation |-> 0]
Imported(v, g) == [kind |-> "imported", db |-> v, generation |-> g]

Row == [generation : Nat \ {0}, revision : Nat \ {0}, active : BOOLEAN]

\* The row that an import leaves.
Activated(record) ==
    IF record = None THEN [generation |-> 1, revision |-> 1, active |-> TRUE]
    ELSE [record EXCEPT !.revision = @ + 1]

Init ==
    /\ dest = [r \in Repos |-> None]
    /\ row = [r \in Repos |-> None]
    /\ running = FALSE

Import(r) ==
    /\ ~running
    /\ dest[r] \in {None, Empty}
    /\ row[r] = None \/ row[r].active
    /\ row' = [row EXCEPT ![r] = Activated(@)]
    /\ \E v \in Versions : dest' = [dest EXCEPT ![r] = Imported(v, Activated(row[r]).generation)]
    /\ UNCHANGED running

\* The gateway registers a repository, or opens and uses its store.
Serve(r) ==
    /\ running /\ UNCHANGED running
    /\ \/ /\ row'[r] \in Row
          /\ row' = [row EXCEPT ![r] = row'[r]]
          /\ UNCHANGED dest
       \/ /\ row[r] # None
          /\ dest' = [dest EXCEPT ![r] = IF @ = None THEN Empty ELSE Used]
          /\ UNCHANGED row

StartOrStop == running' = ~running /\ UNCHANGED <<dest, row>>

\* Somebody puts a store in place while nothing runs.
PutInPlace(r) ==
    /\ ~running
    /\ dest' = [dest EXCEPT ![r] = Used]
    /\ UNCHANGED <<row, running>>

Next == StartOrStop \/ \E r \in Repos : Import(r) \/ Serve(r) \/ PutInPlace(r)

Spec == Init /\ [][Next]_<<dest, row, running>>
===============================================================================
