---------------------------- MODULE MCTenantManager ----------------------------
(***************************************************************************)
(* Instances of TenantManager for TLC.                                     *)
(***************************************************************************)
EXTENDS TenantManager, TLC

CONSTANTS i1, i2, n1, n2

\* i2 comes after the repository was renamed or transferred.
MCNameOf == i1 :> n1 @@ i2 :> n2
MCFirst == [r \in Repos |-> i1]
===============================================================================
