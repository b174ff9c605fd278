----------------------------- MODULE AtomicSnapshot -----------------------------
(***************************************************************************)
(* What the reader of snapshots promises the service: a snapshot is a      *)
(* photograph.  All it says was so at one moment, the moment it is taken.  *)
(* BotService reads snapshots in one step on the strength of this.         *)
(***************************************************************************)
CONSTANTS Prs, Heads, Bases, Texts, Nothing

VARIABLES
    pull,  \* what GitHub shows of each pull request
    taken  \* the snapshot last taken of each

Shows == [head : Heads, base : Bases, text : Texts, open : BOOLEAN]

\* Head and base settle the diff, the base its policy, the head its structure.
Photograph(shown) ==
    [head |-> shown.head, base |-> shown.base, text |-> shown.text,
     diff |-> <<shown.base, shown.head>>, policy |-> shown.base, structure |-> shown.head]

Init ==
    /\ pull \in [Prs -> Shows]
    /\ taken = [p \in Prs |-> Nothing]

Change(p) ==
    /\ \E shown \in Shows : pull' = [pull EXCEPT ![p] = shown]
    /\ UNCHANGED taken

Take(p) ==
    /\ taken' = [taken EXCEPT ![p] = Photograph(pull[p])]
    /\ UNCHANGED pull

Next == \E p \in Prs : Change(p) \/ Take(p)

Spec == Init /\ [][Next]_<<pull, taken>>
===============================================================================
