------------------------------ MODULE MCFlagSync ------------------------------
(* Small instances of FlagSync: a thread of two messages in two folders.     *)
EXTENDS FlagSync

CONSTANTS m1, m2, f1, f2
MCFolderOf == m1 :> f1 @@ m2 :> f2
=============================================================================
