------------------------------ MODULE ReviewGate ------------------------------
(***************************************************************************)
(* What the review gate of a pull request promises to the people who look  *)
(* at its commits: a head is opened only for a snapshot of it that has been *)
(* explained, or that needs no explanation; what has been explained stays   *)
(* explained; and a head is held for a snapshot only as long as that        *)
(* snapshot is not explained.                                               *)
(***************************************************************************)
CONSTANTS Snapshots, Heads, HeadSha, Triggered

VARIABLES
    explained, \* snapshots with a verified explanation
    gate       \* what each head shows, and for which snapshot

gateVars == <<explained, gate>>

Init ==
    /\ explained = {}
    /\ gate = [h \in Heads |-> [shows |-> "nothing"]]

Show(s, what) == gate' = [gate EXCEPT ![HeadSha[s]] = [shows |-> what, of |-> s]]

Explain(s) ==
    /\ s \in Triggered
    /\ explained' = explained \cup {s}
    /\ UNCHANGED gate

Hold(s) ==
    /\ s \in Triggered \ explained
    /\ Show(s, "pending")
    /\ UNCHANGED explained

Open(s) ==
    /\ s \in explained \cup (Snapshots \ Triggered)
    /\ Show(s, "success")
    /\ UNCHANGED explained

Next == \E s \in Snapshots : Explain(s) \/ Hold(s) \/ Open(s)

Spec == Init /\ [][Next]_gateVars
===============================================================================
