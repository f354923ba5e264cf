------------------------------- MODULE MCNotices -------------------------------
(* Two messages, a channel that one event fills, and a table of one entry, so   *)
(* that the second notification evicts the first.                               *)
EXTENDS Notices
=============================================================================
