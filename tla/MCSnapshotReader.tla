--------------------------- MODULE MCSnapshotReader ---------------------------
(* A small instance of SnapshotReader: two heads of one shape and a third   *)
(* beyond the limits, a base on the workflow's branch and one elsewhere.    *)
EXTENDS SnapshotReader, TLC

CONSTANTS h1, h2, h3

MCShape == [h \in {h1, h2} |-> "small"] @@ (h3 :> "large")
===============================================================================
