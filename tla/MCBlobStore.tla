----------------------------- MODULE MCBlobStore ----------------------------
(***************************************************************************)
(* BlobStore on a small instance: one content, which is the part of both   *)
(* attachments of the one message and, as if the parts were the whole of   *)
(* it, also what a fetch of the message returns: every kind of reference   *)
(* meets on one blob. MCBlobStoreRace.cfg has no fault of any kind.        *)
(***************************************************************************)
EXTENDS BlobStore, TLC

CONSTANTS b1, a1, a2, m1, w1, w2

MCWorkers == {w1, w2}
WorkerSymmetry == Permutations(MCWorkers)

MCMsgs   == {m1}
MCScopes == {{m1}}

OneBlob   == {b1}
TwoAtts   == {a1, a2}
TwoMsgOf  == [a \in TwoAtts |-> m1]
TwoParts  == [a \in TwoAtts |-> {b1}]
OneForm   == [m \in MCMsgs |-> {b1}]
=============================================================================
