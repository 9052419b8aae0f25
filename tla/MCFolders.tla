------------------------------ MODULE MCFolders ------------------------------
(***************************************************************************)
(* Folders on small instances: the third folder is another user's.         *)
(***************************************************************************)
EXTENDS Folders, TLC

CONSTANTS f1, f2, f3, u1, u2

TwoOwners == f1 :> u1 @@ f2 :> u1 @@ f3 :> u2
=============================================================================
