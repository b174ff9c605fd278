----------------------------- MODULE MCBotService -----------------------------
(***************************************************************************)
(* Instances of BotService for TLC.                                        *)
(***************************************************************************)
EXTENDS BotService, TLC

CONSTANTS quiet, risky, retitled, pushed, h1, h2, b1

\* Contents of one head, without and with the risk label, and with a new title,
\* and a later push.
MCHeadSha == [s \in Snapshots |-> IF s = pushed THEN h2 ELSE h1]
MCBaseSha == [s \in Snapshots |-> b1]
MCTriggered == Snapshots \ {quiet}

\* Authors go back and forth between any two contents.
AnyEdit == Snapshots \X Snapshots
\* Authors never return to a content.
Forward == {<<quiet, risky>>, <<quiet, retitled>>, <<quiet, pushed>>,
            <<risky, retitled>>, <<risky, pushed>>, <<retitled, pushed>>}
             \cap (Snapshots \X Snapshots)

Symmetry == Permutations(QuestionSets) \cup Permutations(Jobs)
===============================================================================
