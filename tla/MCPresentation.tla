----------------------------- MODULE MCPresentation -----------------------------
(***************************************************************************)
(* Three snapshots: two of one commit, of which a label makes one ask for   *)
(* no interview, and one of a later commit.                                 *)
(***************************************************************************)
EXTENDS Presentation

CONSTANTS s1, s2, s3, c1, c2

MCTriggered == {s1, s3}
MCCommitOf == [s \in {s1, s2, s3} |-> IF s = s3 THEN c2 ELSE c1]
===============================================================================
