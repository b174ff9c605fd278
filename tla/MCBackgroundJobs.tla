--------------------------- MODULE MCBackgroundJobs ---------------------------
(***************************************************************************)
(* Instances of BackgroundJobs for TLC.                                    *)
(***************************************************************************)
EXTENDS BackgroundJobs, TLC

CONSTANTS plain, labelled, pushed, h1, h2

\* Two contents of one head, which differ in a label, and a later push.
MCHeadOf == [c \in Contents |-> IF c = pushed THEN h2 ELSE h1]

\* Authors go back and forth between any two contents.
AnyEdit == Contents \X Contents
\* Authors never return to a content.
Forward == {<<plain, labelled>>, <<plain, pushed>>, <<labelled, pushed>>}
             \cap (Contents \X Contents)

Symmetry == Permutations(Runs)
===============================================================================
