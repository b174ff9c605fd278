---------------------------- MODULE MCVerification ----------------------------
(***************************************************************************)
(* An instance of Verification: a change and its later titles and pushes.   *)
(***************************************************************************)
EXTENDS Verification

CONSTANTS risky, quiet, h1, b1

MCHeadSha == [s \in Snapshots |-> h1]
MCBaseSha == [s \in Snapshots |-> b1]
AnyEdit == Snapshots \X Snapshots
===============================================================================
