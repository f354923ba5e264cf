-------------------------------- MODULE MCBadge --------------------------------
(* Two messages, of up to two events each, and a channel that one event fills.  *)
EXTENDS Badge
=============================================================================
