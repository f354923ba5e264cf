----------------------------- MODULE MCIdleNotify -----------------------------
(* Small instances of IdleNotify.                                            *)
EXTENDS IdleNotify
=============================================================================
