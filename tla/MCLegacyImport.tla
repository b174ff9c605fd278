----------------------------- MODULE MCLegacyImport -----------------------------
(***************************************************************************)
(* Two repositories, an importer and a gateway.  One repository has a       *)
(* source with receipts, which gets a publication of another generation     *)
(* that the plan does not show; the other has one that proves no            *)
(* installation, and changes without a change of the plan.                  *)
(***************************************************************************)
EXTENDS LegacyImport, TLC

MCVersions == {1, 2, 4, 5}

MCFirst == LET r == CHOOSE r \in Repos : TRUE IN [q \in Repos |-> IF q = r THEN 1 ELSE 4]

Publication(url, presentation, sent, generation) ==
    [url |-> url, presentation |-> presentation, sent |-> sent, generation |-> generation]

Publications == {Publication("old", TRUE, FALSE, 0), Publication("foreign", TRUE, FALSE, 0),
                 Publication("foreign", FALSE, FALSE, 1), Publication("old", TRUE, TRUE, 0)}

Unproven == {Publication("foreign", FALSE, FALSE, 1)}

MCDatabases ==
    1 :> [proven |-> TRUE, receipts |-> {0}, outbox |-> Publications] @@
    2 :> [proven |-> TRUE, receipts |-> {0},
          outbox |-> Publications \cup {Publication("none", FALSE, FALSE, 2)}] @@
    4 :> [proven |-> FALSE, receipts |-> {}, outbox |-> Unproven] @@
    5 :> [proven |-> FALSE, receipts |-> {},
          outbox |-> Unproven \cup {Publication("none", TRUE, TRUE, 1)}]
===============================================================================
