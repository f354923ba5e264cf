---------------------------- MODULE ContentStore ----------------------------
(***************************************************************************)
(* What the content-addressed blob store of spk-mail promises to the rest  *)
(* of the program, with no counters in sight: a content that somebody uses *)
(* is stored, and only a content nobody uses is reclaimed.                 *)
(*                                                                         *)
(* BlobStore implements it with a refcount column that is incremented and  *)
(* decremented in transactions of their own, apart from the transactions   *)
(* that write and clear the references being counted.                      *)
(***************************************************************************)

CONSTANT Contents   \* the distinct byte strings, named by their sha256

VARIABLES
  stored,           \* contents that have a row in the blobs table
  inUse             \* contents some row or some running operation refers to

vars == <<stored, inUse>>

Init == stored = {} /\ inUse = {}

\* A new reference to c, which is stored if it was not.
Retain(c) ==
  /\ stored' = stored \cup {c}
  /\ inUse'  = inUse \cup {c}

\* References go away, or pass from one holder to another.
Release ==
  /\ inUse' \subseteq inUse
  /\ UNCHANGED stored

\* Storage is taken back from contents that are not in use.
Reclaim(c) ==
  /\ c \in stored \ inUse
  /\ stored' = stored \ {c}
  /\ UNCHANGED inUse

Next ==
  \/ \E c \in Contents : Retain(c) \/ Reclaim(c)
  \/ Release

Spec == Init /\ [][Next]_vars
=============================================================================
