--------------------------------- MODULE MCView --------------------------------
(* Two threads in one profile beside an empty one, and two handlers at a time.  *)
EXTENDS View

CONSTANT p1
MCProfileOf == [t \in Threads |-> p1]
=============================================================================
