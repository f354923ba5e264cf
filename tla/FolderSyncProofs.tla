--------------------------- MODULE FolderSyncProofs ---------------------------
(***************************************************************************)
(* Proofs about FolderSync, for any sizes of queue, batch and mailbox and  *)
(* any number of faults and incarnations: the cursor passes no message     *)
(* over and the watermark no change.                                       *)
(*                                                                         *)
(* The cursor is the highest stored uid, so that what matters is the order *)
(* in which messages come to be stored. The invariant follows them back    *)
(* from the rows through the queue and the batch to the answer of SEARCH:  *)
(* at each place, what is below a message is stored, excused, or ahead of  *)
(* it.                                                                     *)
(***************************************************************************)
EXTENDS FolderSync, FiniteLemmas

\* The current incarnation of the mailbox.
Epoch == server.validity

\* Nobody need fetch u: it is stored, or one of the exceptions of NoneSkipped.
Settled(u) == Stored(u) \/ Shadowed(u) \/ <<Epoch, u>> \in failed \cup torn

\* It is among the first n of the queue.
Waiting(u, n) == \E j \in 1..n : queue[j].epoch = Epoch /\ queue[j].uid = u

\* The points of a pass after its SELECT.
Within == InPass \ {"select"}

\* What the variables of a pass hold at its points.
Phases ==
  /\ Epoch \in Epochs
  /\ pc \in Within => sel.validity \in 1..Epoch
  /\ pc \notin Within => sel = NoState
  /\ pc \notin {"fetch", "submit", "drain"} => todo = {}
  /\ pc # "submit" => batch = Nothing
  /\ pc # "apply" => deltas = Nothing
  /\ pc = "search" => after = 0 \/ after \in DOMAIN rows

\* Nothing is of an incarnation to come, or has a uid still to be assigned.
Bounded ==
  /\ \A u \in DOMAIN mailbox : u < server.next
  /\ \A u \in DOMAIN rows :
       rows[u].epoch <= Epoch /\ (rows[u].epoch = Epoch => u < server.next)
  /\ \A i \in DOMAIN queue :
       /\ queue[i].epoch <= Epoch /\ (queue[i].epoch = Epoch => queue[i].uid < server.next)
       /\ pc \in Within => queue[i].epoch <= sel.validity
  /\ sel.validity = Epoch => \A u \in DOMAIN batch \cup todo : u < server.next

RowsInOrder ==
  \A u \in DOMAIN mailbox : (\E v \in DOMAIN rows : v > u) => Settled(u)

QueueInOrder ==
  \A i \in DOMAIN queue : queue[i].epoch = Epoch =>
    \A u \in DOMAIN mailbox : u < queue[i].uid => Settled(u) \/ Waiting(u, i - 1)

\* In a pass over the current incarnation: the batch, and what is to be fetched.
PassInOrder ==
  sel.validity = Epoch =>
    \A u \in DOMAIN mailbox :
      /\ (\E b \in DOMAIN batch : u < b)
           => Settled(u) \/ Waiting(u, Len(queue)) \/ u \in DOMAIN batch
      /\ (\E t \in todo : u < t)
           => Settled(u) \/ Waiting(u, Len(queue)) \/ u \in DOMAIN batch \cup todo

Order == RowsInOrder /\ QueueInOrder /\ PassInOrder
Inv   == TypeOK /\ Phases /\ Bounded /\ Order

\* The folder's row does not say that the rows are of an older incarnation.
Claimed == folder.validity \in {0, Epoch}

\* The flags m of a message u are the server's, or a sweep from w will see that they are
\* not, or one has passed them over.
Seen(u, m, w) == m = mailbox[u] \/ mailbox[u] > w \/ u \in behind

\* The writer finds that it is stored already.
Dropped(u) == u \in DOMAIN rows /\ Claimed

\* Changes still to come are above the watermark and above the answer to SELECT.
Watermark ==
  /\ folder.modseq <= server.modseq /\ sel.modseq <= server.modseq
  /\ pc \in Within /\ sel.validity # Epoch => \A u \in DOMAIN mailbox : mailbox[u] > sel.modseq
  /\ pc \in {"flags", "apply"} => folder.validity = sel.validity
  /\ pc = "apply" => folder.modseq < sel.modseq
  /\ pc = "purge" => folder.validity \notin {0, sel.validity}

\* What is stored, queued or fetched, with regard to the watermark.
StoredFollow ==
  \A u \in Differing : Seen(u, rows[u].mod, folder.modseq)
QueueFollows ==
  \A i \in DOMAIN queue : \A u \in DOMAIN mailbox :
    queue[i].epoch = Epoch /\ queue[i].uid = u =>
      Seen(u, queue[i].mod, folder.modseq) \/ Dropped(u)
BatchFollows ==
  sel.validity = Epoch => \A u \in DOMAIN batch \cap DOMAIN mailbox :
    batch[u] = mailbox[u] \/ mailbox[u] > folder.modseq
FlagsFollow == StoredFollow /\ QueueFollows /\ BatchFollows

\* In a sweep: with regard to the watermark that it will set.
DeltasApply ==
  pc = "apply" => \A u \in DOMAIN deltas \cap DOMAIN mailbox :
    deltas[u] = mailbox[u] \/ mailbox[u] > sel.modseq
StoredApply ==
  pc = "apply" => \A u \in Differing :
    Seen(u, rows[u].mod, sel.modseq) \/ u \in DOMAIN deltas
QueueApplies ==
  pc = "apply" => \A i \in DOMAIN queue : \A u \in DOMAIN mailbox :
    queue[i].epoch = Epoch /\ queue[i].uid = u =>
      Seen(u, queue[i].mod, sel.modseq) \/ Dropped(u) \/ u \in DOMAIN deltas
Applying == DeltasApply /\ StoredApply /\ QueueApplies

FlagsInv == Watermark /\ FlagsFollow /\ Applying

-----------------------------------------------------------------------------
(* Lemmas on the data.                                                     *)

\* Maps of uids.
LEMMA Maps ==
  /\ \A S : IsMap(Nothing, S) /\ DOMAIN Nothing = {}
  /\ \A S, f : IsMap(f, S) => /\ DOMAIN f \in SUBSET Nat /\ IsFiniteSet(DOMAIN f)
                              /\ DOMAIN f = {} => f = Nothing
<1>1. \A S : IsMap(Nothing, S) /\ DOMAIN Nothing = {}
  BY DEF IsMap, Nothing
<1>2. ASSUME NEW S, NEW f, IsMap(f, S)
      PROVE  /\ DOMAIN f \in SUBSET Nat /\ IsFiniteSet(DOMAIN f)
             /\ DOMAIN f = {} => f = Nothing
  <2>1. IsFiniteSet(Uids) /\ Uids \subseteq Nat
    BY ConstantsAssumption, FS_Interval DEF Uids
  <2>2. DOMAIN f \subseteq Uids
    BY <1>2 DEF IsMap
  <2>3. IsFiniteSet(DOMAIN f)
    BY <2>1, <2>2, FS_Subset
  <2>4. DOMAIN f = {} => f = Nothing
    BY <1>2 DEF IsMap, Nothing
  <2> QED  BY <2>1, <2>2, <2>3, <2>4
<1> QED  BY <1>1, <1>2

\* The row of a folder and the state of a mailbox, and changes to them.
LEMMA StateFields ==
  ASSUME NEW s \in State
  PROVE  /\ s.validity \in 0..MaxEpoch /\ s.validity \in Nat
         /\ s.next \in 0..(MaxUid + 1) /\ s.next \in Nat
         /\ s.modseq \in ModSeqs /\ s.modseq \in Nat /\ s.modseq <= MaxModSeq
         /\ 0 \in ModSeqs /\ 0 \in 0..MaxEpoch /\ 0 \in 0..(MaxUid + 1)
         /\ s.modseq < MaxModSeq => s.modseq + 1 \in ModSeqs
<1>1. /\ s.validity \in 0..MaxEpoch /\ s.next \in 0..(MaxUid + 1) /\ s.modseq \in ModSeqs
  BY DEF State
<1> QED  BY <1>1, ConstantsAssumption DEF ModSeqs

\* Setting their fields.
LEMMA StateChanged ==
  ASSUME NEW s \in State
  PROVE  /\ \A v \in 0..MaxEpoch, n \in 0..(MaxUid + 1) :
              [s EXCEPT !.validity = v, !.next = n] \in State
         /\ \A m \in ModSeqs : [s EXCEPT !.modseq = m] \in State
         /\ \A n \in 0..(MaxUid + 1), m \in ModSeqs :
              [s EXCEPT !.next = n, !.modseq = m] \in State
<1>1. ASSUME NEW v \in 0..MaxEpoch, NEW n \in 0..(MaxUid + 1)
      PROVE  [s EXCEPT !.validity = v, !.next = n] \in State
  BY DEF State
<1>2. ASSUME NEW m \in ModSeqs
      PROVE  [s EXCEPT !.modseq = m] \in State
  BY DEF State
<1>3. ASSUME NEW n \in 0..(MaxUid + 1), NEW m \in ModSeqs
      PROVE  [s EXCEPT !.next = n, !.modseq = m] \in State
  BY DEF State
<1> QED  BY <1>1, <1>2, <1>3

\* When a pass ends, nobody waits for what it has queued.
LEMMA Disowned ==
  ASSUME NEW q \in Seq(Item), NEW r,
         r = [i \in DOMAIN q |-> [q[i] EXCEPT !.mine = FALSE]]
  PROVE  /\ r \in Seq(Item) /\ Len(r) = Len(q)
         /\ \A i \in 1..Len(q) : r[i].uid = q[i].uid /\ r[i].epoch = q[i].epoch
                                 /\ r[i].mod = q[i].mod
<1>1. DOMAIN r = 1..Len(q) /\ Len(q) \in Nat
  BY Places
<1>2. \A i \in 1..Len(q) : r[i] = [q[i] EXCEPT !.mine = FALSE] /\ q[i] \in Item
  BY Places
<1>3. ASSUME NEW i \in 1..Len(q)
      PROVE  r[i] \in Item /\ r[i].uid = q[i].uid /\ r[i].epoch = q[i].epoch
             /\ r[i].mod = q[i].mod
  <2>1. r[i] = [q[i] EXCEPT !.mine = FALSE] /\ q[i] \in Item
    BY <1>2
  <2> QED  BY <2>1 DEF Item
<1>4. r \in [1..Len(q) -> Item]
  BY <1>1, <1>3
<1>5. r \in Seq(Item)
  BY <1>1, <1>4, SeqDef
<1>6. Len(r) = Len(q)
  BY <1>1, <1>5, Places
<1> QED  BY <1>3, <1>5, <1>6

\* All steps of the server but Renumber keep the incarnation.
LEMMA SameEpoch ==
  ASSUME server \in State, Deliver \/ Expunge \/ ChangeFlags
  PROVE  Epoch' = Epoch
<1>1. CASE Deliver BY <1>1 DEF Deliver, State, Epoch
<1>2. CASE Expunge BY <1>2 DEF Expunge, Epoch
<1>3. CASE ChangeFlags BY <1>3 DEF ChangeFlags, State, Epoch
<1> QED  BY <1>1, <1>2, <1>3

\* Taking a uid out of a map.
LEMMA MapReduced ==
  ASSUME NEW S, NEW f, IsMap(f, S), NEW u, NEW g, g = [v \in DOMAIN f \ {u} |-> f[v]]
  PROVE  IsMap(g, S)
BY DEF IsMap

\* What MaxUIDByFolder finds.
LEMMA HighestRow ==
  ASSUME TypeOK, rows # Nothing
  PROVE  Max(DOMAIN rows) \in DOMAIN rows /\ \A u \in DOMAIN rows : Max(DOMAIN rows) >= u
<1>1. DOMAIN rows \in SUBSET Nat /\ IsFiniteSet(DOMAIN rows) /\ DOMAIN rows # {}
  BY Maps DEF TypeOK
<1> QED  BY <1>1, MaxIsGreatest

\* The invariant holds at first.
LEMMA InitInv == Init => Inv
<1> SUFFICES ASSUME Init PROVE Inv
  OBVIOUS
<1>1. DOMAIN rows = {} /\ DOMAIN mailbox = {} /\ DOMAIN queue = {}
  BY DEF Init, Nothing
<1>2. TypeOK
  <2>1. <<>> \in Seq(Item) /\ Len(<<>>) = 0
    BY EmptySeq
  <2>2. server \in State /\ NoState \in State
    BY ConstantsAssumption DEF Init, State, NoState, ModSeqs
  <2>3. after \in 0..MaxUid /\ faults \in 0..MaxFaults
    BY ConstantsAssumption DEF Init
  <2>4. /\ IsMap(mailbox, ModSeqs) /\ IsMap(rows, [epoch : Epochs, mod : ModSeqs])
        /\ IsMap(batch, ModSeqs) /\ IsMap(deltas, ModSeqs)
    BY Maps DEF Init
  <2>5. queue \in Seq(Item) /\ Len(queue) <= QueueCap
    BY <2>1, ConstantsAssumption DEF Init
  <2> QED  BY <2>2, <2>3, <2>4, <2>5 DEF Init, TypeOK
<1>3. Phases
  BY ConstantsAssumption DEF Init, Phases, Within, InPass, Epoch, Epochs
<1>4. Bounded /\ Order
  BY <1>1 DEF Init, Bounded, Order, RowsInOrder, QueueInOrder, PassInOrder, NoState, Epoch
<1> QED  BY <1>2, <1>3, <1>4 DEF Inv

-----------------------------------------------------------------------------
(* Types.                                                                  *)

\* What the end of a pass leaves to the next.
LEMMA Ended ==
  ASSUME TypeOK, NEW next, Ends(next)
  PROVE  /\ sel' = NoState /\ sel' \in State /\ after' \in 0..MaxUid /\ todo' = {}
         /\ batch' = Nothing /\ deltas' = Nothing
         /\ IsMap(batch', ModSeqs) /\ IsMap(deltas', ModSeqs)
         /\ queue' \in Seq(Item) /\ Len(queue') = Len(queue)
         /\ \A i \in 1..Len(queue) :
              queue'[i].uid = queue[i].uid /\ queue'[i].epoch = queue[i].epoch
              /\ queue'[i].mod = queue[i].mod
<1>1. NoState \in State /\ 0 \in 0..MaxUid
  BY ConstantsAssumption DEF State, NoState, ModSeqs
<1>2. queue \in Seq(Item)
  BY DEF TypeOK
<1> QED  BY <1>1, <1>2, Maps, Disowned DEF Ends

\* Types, under the steps of the server, of a pass, and all others.
LEMMA ServerTypes ==
  ASSUME TypeOK, Phases, Server
  PROVE  TypeOK'
<1>1. CASE Deliver
  <2>1. server.next \in Uids /\ server.next + 1 \in 0..(MaxUid + 1)
    BY <1>1, ConstantsAssumption DEF Deliver, Uids
  <2>2. server.modseq + 1 \in ModSeqs
    BY <1>1, StateFields DEF TypeOK, Deliver
  <2>3. server' \in State
    BY <1>1, <2>1, <2>2, StateChanged DEF TypeOK, Deliver
  <2>4. IsMap(mailbox', ModSeqs)
    <3>1. mailbox' = [u \in DOMAIN mailbox \cup {server.next} |->
                        IF u = server.next THEN server.modseq + 1 ELSE mailbox[u]]
      BY <1>1 DEF Deliver
    <3>2. IsMap(mailbox, ModSeqs)
      BY DEF TypeOK
    <3> QED  BY <2>1, <2>2, <3>1, <3>2 DEF IsMap
  <2> QED  BY <1>1, <2>3, <2>4 DEF TypeOK, Deliver, passVars
<1>2. CASE Expunge
  <2>1. IsMap(mailbox', ModSeqs)
    BY <1>2, MapReduced DEF TypeOK, Expunge
  <2> QED  BY <1>2, <2>1 DEF TypeOK, Expunge, passVars
<1>3. CASE ChangeFlags
  <2>1. server.modseq + 1 \in ModSeqs
    BY <1>3, StateFields DEF TypeOK, ChangeFlags
  <2>2. server' \in State
    BY <1>3, <2>1, StateChanged DEF TypeOK, ChangeFlags
  <2>3. IsMap(mailbox', ModSeqs)
    BY <1>3, <2>1 DEF TypeOK, ChangeFlags, IsMap
  <2> QED  BY <1>3, <2>2, <2>3 DEF TypeOK, ChangeFlags, passVars
<1>4. CASE Renumber
  <2>1. PICK n \in 0..Cardinality(DOMAIN mailbox) :
          LET m == IF ModSeqRestarts THEN 1 ELSE server.modseq + 1 IN
          /\ server' = [validity |-> server.validity + 1, next |-> n + 1, modseq |-> m]
          /\ mailbox' = [u \in 1..n |-> m]
    BY <1>4 DEF Renumber
  <2>2. Cardinality(DOMAIN mailbox) \in Nat /\ Cardinality(DOMAIN mailbox) <= MaxUid
    <3>1. DOMAIN mailbox \subseteq 1..MaxUid
      BY DEF TypeOK, IsMap, Uids
    <3>2. IsFiniteSet(1..MaxUid) /\ Cardinality(1..MaxUid) = MaxUid
      BY ConstantsAssumption, FS_Interval
    <3> QED  BY <3>1, <3>2, FS_Subset, FS_CardinalityType
  <2>3. n \in 0..MaxUid
    BY <2>1, <2>2, ConstantsAssumption
  <2> DEFINE m == IF ModSeqRestarts THEN 1 ELSE server.modseq + 1
  <2>4. m \in ModSeqs
    BY <1>4, StateFields, ConstantsAssumption DEF Renumber, TypeOK, ModSeqs
  <2>5. server' \in State
    <3>1. server.validity + 1 \in 0..MaxEpoch
      BY <1>4, ConstantsAssumption DEF Renumber, TypeOK, State
    <3>2. n + 1 \in 0..(MaxUid + 1)
      BY <2>3, ConstantsAssumption
    <3>3. server' = [validity |-> server.validity + 1, next |-> n + 1, modseq |-> m]
      BY <2>1
    <3> HIDE DEF m
    <3> QED  BY <2>4, <3>1, <3>2, <3>3 DEF State
  <2>6. IsMap(mailbox', ModSeqs)
    BY <2>1, <2>3, <2>4, ConstantsAssumption DEF IsMap, Uids
  <2> QED  BY <1>4, <2>5, <2>6 DEF TypeOK, Renumber, passVars
<1> QED  BY <1>1, <1>2, <1>3, <1>4 DEF Server

LEMMA PassTypes ==
  ASSUME TypeOK, Phases, Pass
  PROVE  TypeOK'
<1> USE DEF passVars, serverVars
<1>1. pc \in Within => sel.validity \in Epochs
  BY ConstantsAssumption DEF Phases, Epochs, Epoch
<1>2. CASE Select
  <2>1. sel' \in State
    BY <1>2, StateFields, StateChanged DEF Select, TypeOK
  <2> QED  BY <1>2, <2>1, ConstantsAssumption DEF Select, Fault, TypeOK, InPass
<1>3. CASE DeleteMessagesByFolder
  <2>1. sel.validity \in Epochs
    BY <1>1, <1>3 DEF DeleteMessagesByFolder, Within, InPass
  <2>2. torn' \subseteq Epochs \X Uids
    BY <1>3, <2>1 DEF DeleteMessagesByFolder, TypeOK
  <2> QED  BY <1>3, <2>2, Maps DEF DeleteMessagesByFolder, TypeOK, InPass
<1>4. CASE MaxUIDByFolder
  <2>1. after' \in 0..MaxUid
    <3>1. DOMAIN rows \subseteq Uids
      BY DEF TypeOK, IsMap
    <3>2. rows # Nothing => Max(DOMAIN rows) \in DOMAIN rows
      BY HighestRow
    <3> QED  BY <1>4, <3>1, <3>2, ConstantsAssumption DEF MaxUIDByFolder, Uids
  <2> QED  BY <1>4, <2>1 DEF MaxUIDByFolder, TypeOK, InPass
<1>5. CASE UIDsAbove
  <2>1. todo' \subseteq Uids /\ folder' \in State
    BY <1>5, <1>1 DEF UIDsAbove, UpsertFolder, TypeOK, IsMap, State
  <2> QED  BY <1>5, <2>1 DEF UIDsAbove, TypeOK, InPass
<1>6. CASE FetchByUIDs
  <2>1. IsMap(batch', ModSeqs)
    BY <1>6 DEF FetchByUIDs, TypeOK, IsMap
  <2>2. after' \in 0..MaxUid
    <3>1. DOMAIN batch' \subseteq Uids
      BY <2>1 DEF IsMap
    <3>2. DOMAIN batch' # {} => Max(DOMAIN batch') \in DOMAIN batch'
      BY <2>1, Maps, MaxIsGreatest
    <3> QED  BY <1>6, <3>1, <3>2, ConstantsAssumption DEF FetchByUIDs, Uids, TypeOK
  <2> QED  BY <1>6, <2>1, <2>2 DEF FetchByUIDs, TypeOK, InPass
<1>7. CASE Submit
  <2> DEFINE u == Min(DOMAIN batch)
             m == [uid |-> u, epoch |-> sel.validity, mod |-> batch[u], mine |-> TRUE]
  <2>1. u \in DOMAIN batch
    BY <1>7, Maps, MinIsLeast DEF Submit, TypeOK
  <2>2. m \in Item
    BY <1>1, <1>7, <2>1 DEF Submit, Within, InPass, TypeOK, IsMap, Item
  <2>3. queue' \in Seq(Item) /\ Len(queue') <= QueueCap
    <3>1. queue' = Append(queue, m) /\ Len(queue) < QueueCap /\ queue \in Seq(Item)
      BY <1>7 DEF Submit, TypeOK
    <3> QED  BY <2>2, <3>1, Appended, Places, ConstantsAssumption
  <2>4. IsMap(batch', ModSeqs)
    <3>1. batch' = [v \in DOMAIN batch \ {u} |-> batch[v]] /\ u \in Uids
      BY <1>7, <2>1 DEF Submit, TypeOK, IsMap
    <3> QED  BY <3>1, MapReduced DEF TypeOK
  <2> QED  BY <1>7, <2>3, <2>4 DEF Submit, TypeOK
<1>8. CASE Submitted
  BY <1>8 DEF Submitted, TypeOK, InPass
<1>9. CASE Checkpoint
  <2>1. sel.validity \in 0..MaxEpoch /\ sel.next \in 0..(MaxUid + 1) /\ folder \in State
    BY StateFields DEF TypeOK
  <2>2. after + 1 \in 0..(MaxUid + 1)
    BY ConstantsAssumption DEF TypeOK
  <2>3. folder' \in State
    BY <1>9, <2>1, <2>2, StateChanged DEF Checkpoint, UpsertFolder
  <2> QED  BY <1>9, <2>3 DEF Checkpoint, TypeOK, InPass
<1>10. CASE NoSweep
  BY <1>10, Ended DEF NoSweep, Ends, TypeOK
<1>11. CASE SetBaseline
  <2>1. Queued \subseteq Uids
    <3>1. \A i \in DOMAIN queue : queue[i] \in Item
      BY Places DEF TypeOK
    <3> QED  BY <3>1 DEF Queued, Item
  <2>2. behind' \subseteq Uids
    BY <1>11, <2>1 DEF SetBaseline, Differing, TypeOK, IsMap
  <2>3. folder' \in State
    BY <1>11 DEF SetBaseline, TypeOK, State
  <2> QED  BY <1>11, <2>2, <2>3, Ended DEF SetBaseline, Ends, TypeOK
<1>12. CASE FetchFlagsChangedSince
  <2>1. IsMap(deltas', ModSeqs)
    BY <1>12 DEF FetchFlagsChangedSince, TypeOK, IsMap
  <2> QED  BY <1>12, <2>1 DEF FetchFlagsChangedSince, TypeOK, InPass
<1>13. CASE UpdateFlagsByUID
  <2>1. PICK u \in DOMAIN deltas :
          /\ deltas' = [v \in DOMAIN deltas \ {u} |-> deltas[v]]
          /\ \/ /\ u \in DOMAIN rows
                /\ rows' = [rows EXCEPT ![u].mod = deltas[u]]
                /\ behind' = behind \ {u}
                /\ UNCHANGED faults
             \/ /\ u \notin DOMAIN rows
                /\ behind' = behind \cup ({u} \cap Queued)
                /\ UNCHANGED <<rows, faults>>
             \/ /\ u \in DOMAIN rows /\ Fault
                /\ behind' = behind \cup {u}
                /\ UNCHANGED rows
    BY <1>13 DEF UpdateFlagsByUID
  <2>2. u \in Uids /\ deltas[u] \in ModSeqs
    BY <2>1 DEF TypeOK, IsMap
  <2>3. IsMap(deltas', ModSeqs)
    BY <2>1, <2>2, MapReduced DEF TypeOK
  <2>4. IsMap(rows', [epoch : Epochs, mod : ModSeqs])
    BY <2>1, <2>2 DEF TypeOK, IsMap
  <2>5. behind' \subseteq Uids /\ faults' \in 0..MaxFaults
    BY <2>1, <2>2, ConstantsAssumption DEF TypeOK, Fault
  <2> QED  BY <1>13, <2>3, <2>4, <2>5 DEF UpdateFlagsByUID, TypeOK
<1>14. CASE SetFolderHighestModSeq
  <2>1. folder' \in State
    BY <1>14 DEF SetFolderHighestModSeq, TypeOK, State
  <2> QED  BY <1>14, <2>1, Ended DEF SetFolderHighestModSeq, Ends, TypeOK
<1> QED  BY <1>2, <1>3, <1>4, <1>5, <1>6, <1>7, <1>8, <1>9, <1>10, <1>11, <1>12, <1>13,
            <1>14, Zenon DEF Pass

LEMMA OtherTypes ==
  ASSUME TypeOK, RunOnce \/ Serve \/ RunOnceFails \/ Tick \/ Fail \/ Process \/ Panic
                 \/ Stop \/ Restart
  PROVE  TypeOK'
<1> USE DEF passVars, serverVars
<1>1. CASE RunOnce
  <2>1. folder' \in State
    BY <1>1, StateFields, StateChanged DEF RunOnce, UpsertFolder, TypeOK
  <2> QED  BY <1>1, <2>1 DEF RunOnce, TypeOK, InPass
<1>2. CASE Serve \/ Tick
  BY <1>2 DEF Serve, Tick, TypeOK, InPass
<1>3. CASE RunOnceFails
  BY <1>3, ConstantsAssumption DEF RunOnceFails, Fault, TypeOK
<1>4. CASE Fail
  <2>1. PICK next \in {"rest", "off"} : Ends(next)
    BY <1>4 DEF Fail
  <2>2. faults' \in 0..MaxFaults
    BY <1>4, ConstantsAssumption DEF Fail, Fault, TypeOK
  <2> QED  BY <1>4, <2>1, <2>2, Ended DEF Fail, Ends, TypeOK
<1>5. CASE Stop
  <2>1. Ends("down") /\ faults' \in 0..MaxFaults
    BY <1>5, ConstantsAssumption DEF Stop, Fault, TypeOK
  <2> QED  BY <1>5, <2>1, Ended DEF Stop, Ends, TypeOK
<1>6. CASE Restart
  <2>1. <<>> \in Seq(Item) /\ Len(<<>>) <= QueueCap
    BY EmptySeq, ConstantsAssumption
  <2> QED  BY <1>6, <2>1 DEF Restart, TypeOK
<1>7. CASE Process
  <2> DEFINE m == Head(queue)
  <2>1. /\ m \in Item /\ queue' \in Seq(Item) /\ Len(queue') <= QueueCap
    BY <1>7, Taken, ConstantsAssumption DEF Process, TypeOK
  <2>2. m.uid \in Uids /\ Id(m) \in Epochs \X Uids
    BY <2>1 DEF Item, Id
  <2>3. IsMap(rows', [epoch : Epochs, mod : ModSeqs])
    <3> DEFINE row == [epoch |-> m.epoch, mod |-> m.mod]
    <3>1. row \in [epoch : Epochs, mod : ModSeqs]
      BY <2>1 DEF Item
    <3>2. \/ rows' = rows
          \/ rows' = [v \in DOMAIN rows \cup {m.uid} |-> IF v = m.uid THEN row ELSE rows[v]]
      BY <1>7 DEF Process
    <3> HIDE DEF row
    <3>3. IsMap(rows, [epoch : Epochs, mod : ModSeqs]) /\ m.uid \in Uids
      BY <2>2 DEF TypeOK
    <3> QED  BY <3>1, <3>2, <3>3 DEF IsMap
  <2>4. failed' \subseteq Epochs \X Uids /\ faults' \in 0..MaxFaults
    BY <1>7, <2>2, ConstantsAssumption DEF Process, Fault, TypeOK
  <2> QED  BY <1>7, <2>1, <2>3, <2>4 DEF Process, TypeOK
<1>8. CASE Panic
  <2>1. Head(queue) \in Item /\ queue' \in Seq(Item) /\ Len(queue') <= QueueCap
    BY <1>8, Taken, ConstantsAssumption DEF Panic, TypeOK
  <2>2. failed' \subseteq Epochs \X Uids /\ faults' \in 0..MaxFaults
    BY <1>8, <2>1, ConstantsAssumption DEF Panic, Fault, TypeOK, Item, Id
  <2> QED  BY <1>8, <2>1, <2>2 DEF Panic, TypeOK
<1> QED  BY <1>1, <1>2, <1>3, <1>4, <1>5, <1>6, <1>7, <1>8

\* Every step keeps the types.
LEMMA TypesKept == TypeOK /\ Phases /\ [Next]_vars => TypeOK'
<1> SUFFICES ASSUME TypeOK, Phases, [Next]_vars PROVE TypeOK'
  OBVIOUS
<1>1. CASE UNCHANGED vars
  BY <1>1 DEF vars, passVars, serverVars, TypeOK
<1> QED  BY <1>1, ServerTypes, PassTypes, OtherTypes DEF Next

-----------------------------------------------------------------------------
(* Phases and bounds.                                                      *)

\* Every step keeps to the phases.
LEMMA PhasesKept == TypeOK /\ Phases /\ [Next]_vars => Phases'
<1> SUFFICES ASSUME TypeOK, Phases, [Next]_vars PROVE Phases'
  OBVIOUS
<1> USE DEF Phases, Within, InPass, Epoch, passVars, serverVars
<1>1. Epoch \in Nat
  BY StateFields DEF TypeOK
<1>2. CASE Server
  <2>1. CASE Renumber
    <3>1. server'.validity = server.validity + 1 /\ server'.validity \in Epochs
      <4>1. server'.validity = server.validity + 1 /\ server.validity < MaxEpoch
        BY <2>1 DEF Renumber
      <4> QED  BY <1>1, <4>1, ConstantsAssumption DEF Epochs
    <3> QED  BY <1>1, <2>1, <3>1 DEF Renumber, Epochs
  <2>2. CASE Deliver \/ Expunge \/ ChangeFlags
    <3>1. server'.validity = server.validity
      BY <2>2, SameEpoch DEF TypeOK
    <3> QED  BY <2>2, <3>1 DEF Deliver, Expunge, ChangeFlags
  <2> QED  BY <1>2, <2>1, <2>2 DEF Server
<1>3. CASE RunOnce \/ Serve \/ RunOnceFails \/ Tick
  BY <1>3 DEF RunOnce, Serve, RunOnceFails, Tick
<1>4. CASE Fail \/ NoSweep \/ SetBaseline \/ SetFolderHighestModSeq \/ Stop
  BY <1>4 DEF Fail, NoSweep, SetBaseline, SetFolderHighestModSeq, Stop, Ends
<1>5. CASE Select
  <2>1. sel'.validity = server.validity
    BY <1>5 DEF Select, TypeOK, State
  <2> QED  BY <1>1, <1>5, <2>1 DEF Select, Epochs
<1>6. CASE DeleteMessagesByFolder \/ UIDsAbove \/ FetchByUIDs \/ Submit \/ Submitted
           \/ Checkpoint \/ FetchFlagsChangedSince
  BY <1>6 DEF DeleteMessagesByFolder, UIDsAbove, FetchByUIDs, Submit, Submitted, Checkpoint,
              FetchFlagsChangedSince
<1>7. CASE MaxUIDByFolder
  <2>1. rows # Nothing => Max(DOMAIN rows) \in DOMAIN rows
    BY HighestRow
  <2> QED  BY <1>7, <2>1 DEF MaxUIDByFolder
<1>8. CASE UpdateFlagsByUID
  BY <1>8 DEF UpdateFlagsByUID
<1>9. CASE Process \/ Panic \/ Restart
  <2>1. DOMAIN rows \subseteq DOMAIN rows'
    BY <1>9 DEF Process, Panic, Restart
  <2> QED  BY <1>9, <2>1 DEF Process, Panic, Restart
<1>10. CASE UNCHANGED vars
  BY <1>10 DEF vars
<1> QED  BY <1>2, <1>3, <1>4, <1>5, <1>6, <1>7, <1>8, <1>9, <1>10, Zenon DEF Next, Pass

\* A step that leaves the mailbox alone and, of the rows and the queue, all but flags.
Kept ==
  /\ UNCHANGED <<server, mailbox, failed, torn>>
  /\ DOMAIN rows' = DOMAIN rows /\ \A u \in DOMAIN rows : rows'[u].epoch = rows[u].epoch
  /\ Len(queue') = Len(queue)
  /\ \A i \in 1..Len(queue) :
       queue'[i].uid = queue[i].uid /\ queue'[i].epoch = queue[i].epoch
       /\ queue'[i].mod = queue[i].mod

\* A pass begins or ends.
Boundary == RunOnce \/ Serve \/ RunOnceFails \/ Tick \/ Fail \/ Select \/ NoSweep
            \/ SetBaseline \/ SetFolderHighestModSeq \/ Stop
\* It goes on, without a change to the rows but of flags.
Midway  == MaxUIDByFolder \/ UIDsAbove \/ FetchByUIDs \/ Submitted \/ Checkpoint
            \/ FetchFlagsChangedSince \/ UpdateFlagsByUID

\* Passes add no rows and take nothing from the queue.
LEMMA KeptByPasses ==
  ASSUME TypeOK, Boundary \/ Midway
  PROVE  Kept
<1> USE DEF Kept, serverVars, passVars
<1>1. CASE RunOnce \/ Serve \/ RunOnceFails \/ Tick \/ Select
  BY <1>1 DEF RunOnce, Serve, RunOnceFails, Tick, Select
<1>2. CASE Fail \/ NoSweep \/ SetBaseline \/ SetFolderHighestModSeq \/ Stop
  <2>1. \E next : Ends(next)
    BY <1>2 DEF Fail, NoSweep, SetBaseline, SetFolderHighestModSeq, Stop
  <2> QED  BY <1>2, <2>1, Ended DEF Fail, NoSweep, SetBaseline, SetFolderHighestModSeq, Stop
<1>3. CASE MaxUIDByFolder \/ UIDsAbove \/ FetchByUIDs \/ Submitted \/ Checkpoint
           \/ FetchFlagsChangedSince
  BY <1>3 DEF MaxUIDByFolder, UIDsAbove, FetchByUIDs, Submitted, Checkpoint,
              FetchFlagsChangedSince
<1>4. CASE UpdateFlagsByUID
  BY <1>4 DEF UpdateFlagsByUID, TypeOK, IsMap
<1> QED  BY <1>1, <1>2, <1>3, <1>4 DEF Boundary, Midway

\* Between passes nothing is in hand.
LEMMA EmptyHanded ==
  ASSUME TypeOK, Phases, Phases', Boundary
  PROVE  batch' = Nothing /\ todo' = {} /\ (pc' \in Within => sel'.validity = Epoch')
<1> USE DEF Phases, Within, InPass, Epoch, serverVars, passVars
<1>1. CASE RunOnce \/ Serve \/ RunOnceFails \/ Tick
  BY <1>1 DEF RunOnce, Serve, RunOnceFails, Tick
<1>2. CASE Fail \/ NoSweep \/ SetBaseline \/ SetFolderHighestModSeq \/ Stop
  BY <1>2 DEF Fail, NoSweep, SetBaseline, SetFolderHighestModSeq, Stop, Ends
<1>3. CASE Select
  BY <1>3 DEF Select, TypeOK, State
<1> QED  BY <1>1, <1>2, <1>3 DEF Boundary

\* What is compared are natural numbers.
LEMMA Numbers ==
  ASSUME TypeOK
  PROVE  /\ DOMAIN mailbox \subseteq Nat /\ DOMAIN rows \subseteq Nat
         /\ DOMAIN batch \subseteq Nat /\ todo \subseteq Nat
         /\ \A u \in DOMAIN rows : rows[u].epoch \in Nat
         /\ \A i \in 1..Len(queue) : queue[i].epoch \in Nat /\ queue[i].uid \in Nat
<1>1. Uids \subseteq Nat /\ Epochs \subseteq Nat
  BY ConstantsAssumption DEF Uids, Epochs
<1>2. \A i \in 1..Len(queue) : queue[i] \in Item
  BY Places DEF TypeOK
<1>3. \A i \in 1..Len(queue) : queue[i].epoch \in Nat /\ queue[i].uid \in Nat
  BY <1>1, <1>2 DEF Item
<1>4. \A u \in DOMAIN rows : rows[u].epoch \in Nat
  BY <1>1 DEF TypeOK, IsMap
<1> QED  BY <1>1, <1>3, <1>4 DEF TypeOK, IsMap

\* Every step keeps the bounds.
LEMMA BoundsKept == TypeOK /\ TypeOK' /\ Phases /\ Phases' /\ Bounded /\ [Next]_vars => Bounded'
<1> SUFFICES ASSUME TypeOK, TypeOK', Phases, Phases', Bounded, [Next]_vars PROVE Bounded'
  OBVIOUS
<1> USE DEF serverVars, passVars
<1>1. /\ queue \in Seq(Item) /\ Len(queue) \in Nat /\ DOMAIN queue = 1..Len(queue)
      /\ queue' \in Seq(Item) /\ Len(queue') \in Nat /\ DOMAIN queue' = 1..Len(queue')
      /\ Epoch \in Nat /\ server.next \in Nat /\ Epoch' \in Nat /\ server.next' \in Nat
  BY Places, StateFields DEF TypeOK, Epoch
<1>2. /\ DOMAIN mailbox \subseteq Nat /\ DOMAIN rows \subseteq Nat
      /\ DOMAIN batch \subseteq Nat /\ todo \subseteq Nat
      /\ \A u \in DOMAIN rows : rows[u].epoch \in Nat
      /\ \A i \in 1..Len(queue) : queue[i].epoch \in Nat /\ queue[i].uid \in Nat
  BY Numbers
<1>3. CASE Server
  <2>1. UNCHANGED <<rows, pc, sel, batch, todo, queue>>
    BY <1>3 DEF Server, Deliver, Expunge, ChangeFlags, Renumber
  <2>2. CASE Deliver
    <3>1. /\ DOMAIN mailbox' = DOMAIN mailbox \cup {server.next}
          /\ server'.next = server.next + 1
      BY <2>2 DEF Deliver, TypeOK, State
    <3>2. Epoch' = Epoch
      BY <2>2, SameEpoch DEF TypeOK
    <3>3. \A u \in Nat : u < server.next => u < server'.next
      BY <1>1, <3>1
    <3>4. \A u \in DOMAIN mailbox' : u < server'.next
      BY <1>1, <1>2, <3>1, <3>3 DEF Bounded
    <3> QED  BY <1>1, <1>2, <2>1, <3>2, <3>3, <3>4 DEF Bounded
  <2>3. CASE Expunge \/ ChangeFlags
    <3>1. DOMAIN mailbox' \subseteq DOMAIN mailbox /\ server'.next = server.next
      BY <2>3 DEF Expunge, ChangeFlags, TypeOK, State
    <3>2. Epoch' = Epoch
      BY <2>3, SameEpoch DEF TypeOK
    <3> QED  BY <1>1, <1>2, <2>1, <3>1, <3>2 DEF Bounded
  <2>4. CASE Renumber
    <3>1. /\ Epoch' = Epoch + 1
          /\ \E n \in Nat : DOMAIN mailbox' = 1..n /\ server'.next = n + 1
      <4>1. Cardinality(DOMAIN mailbox) \in Nat
        BY Maps, FS_CardinalityType DEF TypeOK
      <4> QED  BY <2>4, <4>1 DEF Renumber, Epoch
    <3>2. sel.validity # Epoch'
      BY <1>1, <3>1 DEF Phases, NoState
    <3> QED  BY <1>1, <1>2, <2>1, <3>1, <3>2 DEF Bounded
  <2> QED  BY <1>3, <2>2, <2>3, <2>4 DEF Server
<1>4. CASE Boundary
  <2>1. Kept /\ batch' = Nothing /\ todo' = {} /\ (pc' \in Within => sel'.validity = Epoch')
    BY <1>4, KeptByPasses, EmptyHanded
  <2> QED  BY <1>1, <2>1, Maps DEF Kept, Bounded, Epoch
<1>5. CASE Midway
  <2>1. Kept
    BY <1>5, KeptByPasses
  <2>2. pc \in Within /\ sel' = sel
    BY <1>5 DEF Midway, MaxUIDByFolder, UIDsAbove, FetchByUIDs, Submitted, Checkpoint,
                FetchFlagsChangedSince, UpdateFlagsByUID, Within, InPass
  <2>3. DOMAIN batch' \cup todo' \subseteq DOMAIN batch \cup todo \cup DOMAIN mailbox
    BY <1>5 DEF Midway, MaxUIDByFolder, UIDsAbove, FetchByUIDs, Submitted, Checkpoint,
                FetchFlagsChangedSince, UpdateFlagsByUID
  <2> QED  BY <1>1, <2>1, <2>2, <2>3 DEF Kept, Bounded, Epoch
<1>6. CASE DeleteMessagesByFolder
  BY <1>1, <1>6, Maps DEF DeleteMessagesByFolder, Bounded, Epoch, Within, InPass
<1>7. CASE Submit
  <2> DEFINE u == Min(DOMAIN batch)
             m == [uid |-> u, epoch |-> sel.validity, mod |-> batch[u], mine |-> TRUE]
  <2>1. u \in DOMAIN batch
    BY <1>7, Maps, MinIsLeast DEF Submit, TypeOK
  <2>2. m \in Item /\ sel.validity \in 1..Epoch /\ pc \in Within
    BY <1>1, <1>7, <2>1, ConstantsAssumption
       DEF Submit, Within, InPass, TypeOK, IsMap, Item, Phases, Epochs, Epoch
  <2>3. queue' = Append(queue, m)
    BY <1>7 DEF Submit
  <2> HIDE DEF m
  <2>4. /\ Len(queue') = Len(queue) + 1 /\ queue'[Len(queue) + 1] = m
        /\ \A i \in 1..Len(queue) : queue'[i] = queue[i]
    BY <1>1, <2>2, <2>3, Appended
  <2>5. DOMAIN batch' \subseteq DOMAIN batch
    BY <1>7 DEF Submit
  <2>6. m.uid = u /\ m.epoch = sel.validity
    BY DEF m
  <2> HIDE DEF u
  <2>7. UNCHANGED <<server, mailbox, rows, pc, sel, todo>>
    BY <1>7 DEF Submit
  <2>8. \A i \in 1..Len(queue') :
          /\ queue'[i].epoch <= Epoch /\ (queue'[i].epoch = Epoch => queue'[i].uid < server.next)
          /\ queue'[i].epoch <= sel.validity
    <3> SUFFICES ASSUME NEW i \in 1..Len(queue') 
                 PROVE  /\ queue'[i].epoch <= Epoch
                        /\ queue'[i].epoch = Epoch => queue'[i].uid < server.next
                        /\ queue'[i].epoch <= sel.validity
      OBVIOUS
    <3>1. CASE i \in 1..Len(queue)
      BY <1>1, <2>2, <2>4, <3>1 DEF Bounded
    <3>2. CASE i = Len(queue) + 1
      BY <1>1, <2>1, <2>2, <2>4, <2>6, <3>2 DEF Bounded
    <3> QED  BY <1>1, <2>4, <3>1, <3>2
  <2> QED  BY <1>1, <2>5, <2>7, <2>8 DEF Bounded, Epoch
<1>8. CASE Process \/ Panic
  <2>1. queue # <<>> /\ queue' = Tail(queue) /\ UNCHANGED <<server, mailbox, pc, sel, batch, todo>>
    BY <1>8 DEF Process, Panic
  <2>2. \A i \in 1..Len(queue') : i + 1 \in 1..Len(queue) /\ queue'[i] = queue[i + 1]
    BY <1>1, <2>1, Taken
  <2>3. \A u \in DOMAIN rows' :
          \/ u \in DOMAIN rows /\ rows'[u] = rows[u]
          \/ \E i \in 1..Len(queue) :
               u = queue[i].uid /\ rows'[u].epoch = queue[i].epoch
    <3>1. 1 \in 1..Len(queue) /\ Head(queue) = queue[1]
      BY <1>1, <2>1, Taken
    <3> QED  BY <1>8, <3>1 DEF Process, Panic
  <2> QED  BY <1>1, <2>1, <2>2, <2>3 DEF Bounded, Epoch
<1>9. CASE Restart
  <2>1. Len(queue') = 0
    BY <1>9, EmptySeq DEF Restart
  <2> QED  BY <1>1, <1>9, <2>1 DEF Restart, Bounded, Epoch
<1>10. CASE UNCHANGED vars
  BY <1>10 DEF vars, Bounded, Epoch
<1> QED  BY <1>3, <1>4, <1>5, <1>6, <1>7, <1>8, <1>9, <1>10, Zenon DEF Next, Pass, Boundary, Midway

-----------------------------------------------------------------------------
(* The order.                                                              *)

\* What is settled stays so while rows are only added.
LEMMA SettledStays ==
  ASSUME Epoch' = Epoch, failed \subseteq failed', torn \subseteq torn',
         \A v \in DOMAIN rows : v \in DOMAIN rows' /\ rows'[v].epoch = rows[v].epoch
  PROVE  \A u : Settled(u) => Settled(u)'
BY DEF Settled, Stored, Shadowed, Epoch

\* A message at or below a stored one is settled.
LEMMA SettledBelow ==
  ASSUME TypeOK, RowsInOrder, NEW u \in DOMAIN mailbox, NEW v \in DOMAIN rows, u <= v
  PROVE  Settled(u)
<1>1. u \in Nat /\ v \in Nat
  BY Numbers
<1>2. CASE u = v
  BY <1>1, <1>2 DEF Settled, Stored, Shadowed, Epoch
<1>3. CASE u < v
  BY <1>3 DEF RowsInOrder
<1> QED  BY <1>1, <1>2, <1>3

\* Steps that keep the rows and the queue keep their order.
LEMMA KeptOrder ==
  ASSUME TypeOK, TypeOK', Kept, RowsInOrder, QueueInOrder
  PROVE  /\ RowsInOrder' /\ QueueInOrder' /\ Epoch' = Epoch
         /\ \A u : Settled(u) => Settled(u)'
         /\ \A u : Waiting(u, Len(queue)) => Waiting(u, Len(queue))'
<1>1. /\ Len(queue) \in Nat /\ DOMAIN queue = 1..Len(queue)
      /\ Len(queue') = Len(queue) /\ DOMAIN queue' = 1..Len(queue)
  BY Places DEF TypeOK, Kept
<1>2. Epoch' = Epoch
  BY DEF Kept, Epoch
<1>3. \A u : Settled(u) => Settled(u)'
  BY <1>2, SettledStays DEF Kept
<1>4. ASSUME NEW u, NEW n \in 0..Len(queue), Waiting(u, n)
      PROVE  \E j \in 1..n : queue'[j].epoch = Epoch' /\ queue'[j].uid = u
  BY <1>1, <1>2, <1>4 DEF Kept, Waiting
<1>5. RowsInOrder'
  BY <1>3 DEF RowsInOrder, Kept
<1>6. QueueInOrder'
  <2> SUFFICES ASSUME NEW i \in 1..Len(queue), queue'[i].epoch = Epoch',
                      NEW u \in DOMAIN mailbox, u < queue'[i].uid
               PROVE  \/ Settled(u)'
                      \/ \E j \in 1..(i - 1) : queue'[j].epoch = Epoch' /\ queue'[j].uid = u
    BY <1>1 DEF QueueInOrder, Waiting, Kept
  <2>1. Settled(u) \/ Waiting(u, i - 1)
    BY <1>1, <1>2 DEF QueueInOrder, Kept
  <2>2. i - 1 \in 0..Len(queue)
    BY <1>1
  <2> QED  BY <1>3, <1>4, <2>1, <2>2
<1>7. ASSUME NEW u, Waiting(u, Len(queue))
      PROVE  Waiting(u, Len(queue))'
  <2>1. Len(queue) \in 0..Len(queue)
    BY <1>1
  <2>2. \E j \in 1..Len(queue) : queue'[j].epoch = Epoch' /\ queue'[j].uid = u
    BY <1>4, <1>7, <2>1
  <2> QED  BY <1>1, <2>2 DEF Waiting
<1> QED  BY <1>2, <1>3, <1>5, <1>6, <1>7

\* Between passes there is no more to it than Kept.
LEMMA BoundaryOrder ==
  ASSUME TypeOK, TypeOK', Phases, Phases', Order, Boundary
  PROVE  Order'
BY KeptByPasses, EmptyHanded, KeptOrder, Maps DEF Order, PassInOrder

\* The steps of a pass up to its checkpoint.
LEMMA WithinOrder ==
  ASSUME TypeOK, TypeOK', Phases, Order, Midway
  PROVE  Order'
<1> USE DEF passVars, serverVars, Order
<1>1. /\ RowsInOrder' /\ QueueInOrder' /\ Epoch' = Epoch
      /\ \A u : Settled(u) => Settled(u)'
      /\ \A u : Waiting(u, Len(queue)) => Waiting(u, Len(queue))'
  BY KeptByPasses, KeptOrder
<1>2. sel' = sel /\ mailbox' = mailbox
  BY DEF Midway, MaxUIDByFolder, UIDsAbove, FetchByUIDs, Submitted, Checkpoint,
         FetchFlagsChangedSince, UpdateFlagsByUID
<1>3. CASE MaxUIDByFolder \/ Submitted \/ Checkpoint \/ FetchFlagsChangedSince \/ UpdateFlagsByUID
  <2>1. UNCHANGED <<batch, todo>>
    BY <1>3 DEF MaxUIDByFolder, Submitted, Checkpoint, FetchFlagsChangedSince, UpdateFlagsByUID
  <2> QED  BY <1>1, <1>2, <2>1 DEF PassInOrder
<1>4. CASE UIDsAbove
  <2>1. batch' = Nothing /\ todo' = {u \in DOMAIN mailbox : u > after}
    BY <1>4 DEF UIDsAbove, Phases
  <2>2. \A u \in DOMAIN mailbox : u <= after => Settled(u)
    <3>1. after = 0 \/ after \in DOMAIN rows
      BY <1>4 DEF UIDsAbove, Phases
    <3>2. \A u \in DOMAIN mailbox : u >= 1
      BY ConstantsAssumption DEF TypeOK, IsMap, Uids
    <3> QED  BY <3>1, <3>2, SettledBelow, Numbers
  <2>3. \A u \in DOMAIN mailbox : u <= after \/ u \in todo'
    BY <2>1, Numbers, ConstantsAssumption DEF TypeOK
  <2> QED  BY <1>1, <1>2, <2>1, <2>2, <2>3, Maps DEF PassInOrder
<1>5. CASE FetchByUIDs
  <2>1. /\ batch = Nothing /\ todo' = todo \ Chunk
        /\ DOMAIN batch' = Chunk \cap DOMAIN mailbox
    BY <1>5 DEF FetchByUIDs, Phases
  <2>2. ASSUME NEW u \in todo, NEW b \in Chunk, u < b
        PROVE  u \in Chunk
    <3>1. b \in todo /\ Cardinality({v \in todo : v < b}) < BatchSize
      BY DEF Chunk
    <3>2. IsFiniteSet(todo) /\ todo \subseteq Nat
      <4>1. IsFiniteSet(Uids)
        BY ConstantsAssumption, FS_Interval DEF Uids
      <4> QED  BY <4>1, Numbers, FS_Subset DEF TypeOK
    <3>3. {v \in todo : v < u} \subseteq {v \in todo : v < b}
      <4> SUFFICES ASSUME NEW v \in todo, v < u PROVE v < b
        OBVIOUS
      <4>1. u \in Nat /\ b \in Nat /\ v \in Nat
        BY <3>1, <3>2
      <4> QED  BY <2>2, <4>1
    <3>4. IsFiniteSet({v \in todo : v < b})
      BY <3>2, FS_Subset
    <3>5. /\ Cardinality({v \in todo : v < u}) <= Cardinality({v \in todo : v < b})
          /\ Cardinality({v \in todo : v < u}) \in Nat
          /\ Cardinality({v \in todo : v < b}) \in Nat
      BY <3>3, <3>4, FS_Subset, FS_CardinalityType
    <3> QED  BY <3>1, <3>5, ConstantsAssumption DEF Chunk
  <2>3. Chunk \subseteq todo
    BY DEF Chunk
  <2> QED  BY <1>1, <1>2, <2>1, <2>2, <2>3, Maps DEF PassInOrder
<1> QED  BY <1>3, <1>4, <1>5 DEF Midway

\* A message that arrives is above all others; one that goes leaves the rest as they
\* are; and a new incarnation is shadowed by the rows of the old ones.
LEMMA ServerOrder ==
  ASSUME TypeOK, TypeOK', Phases, Bounded, Order, Server
  PROVE  Order'
<1> USE DEF Order
<1>1. /\ UNCHANGED <<rows, pc, sel, batch, todo, queue, failed, torn>>
  BY DEF Server, Deliver, Expunge, ChangeFlags, Renumber, passVars
<1>2. /\ Epoch \in Nat /\ server.next \in Nat /\ sel.validity <= Epoch
      /\ DOMAIN queue = 1..Len(queue) /\ Len(queue) \in Nat
  <2>1. Epoch \in Nat /\ server.next \in Nat /\ DOMAIN queue = 1..Len(queue) /\ Len(queue) \in Nat
    BY Places, StateFields DEF TypeOK, Epoch
  <2>2. sel.validity <= Epoch
    BY <2>1 DEF Phases, NoState
  <2> QED  BY <2>1, <2>2
<1>3. CASE Deliver \/ Expunge \/ ChangeFlags
  <2>1. Epoch' = Epoch
    BY <1>3, SameEpoch DEF TypeOK
  <2>2. \A u : Settled(u) => Settled(u)'
    BY <1>1, <2>1, SettledStays
  <2>3. \A u, n : Waiting(u, n) => Waiting(u, n)'
    BY <1>1, <2>1 DEF Waiting
  <2>4. DOMAIN mailbox' \subseteq DOMAIN mailbox \cup {server.next}
    BY <1>3 DEF Deliver, Expunge, ChangeFlags
  <2> PICK u : u = server.next
    OBVIOUS
  <2>5. ASSUME NEW v \in DOMAIN rows, u < v
        PROVE  Settled(u)'
    <3>1. v \in Nat /\ rows[v].epoch # Epoch
      BY <1>2, <2>5, Numbers DEF Bounded
    <3> QED  BY <1>1, <2>1, <2>5, <3>1, <1>2 DEF Settled, Shadowed, Epoch
  <2>6. \A i \in 1..Len(queue) : queue[i].epoch = Epoch => ~(u < queue[i].uid)
    BY <1>2, Numbers DEF Bounded
  <2>7. sel.validity = Epoch => \A b \in DOMAIN batch \cup todo : ~(u < b)
    BY <1>2, Numbers DEF Bounded
  <2>8. RowsInOrder'
    BY <1>1, <2>2, <2>4, <2>5 DEF RowsInOrder
  <2>9. QueueInOrder'
    BY <1>1, <1>2, <2>1, <2>2, <2>3, <2>4, <2>6 DEF QueueInOrder
  <2>10. PassInOrder'
    BY <1>1, <2>1, <2>2, <2>3, <2>4, <2>7 DEF PassInOrder
  <2> QED  BY <2>8, <2>9, <2>10
<1>4. CASE Renumber
  <2>1. Epoch' = Epoch + 1
    BY <1>4 DEF Renumber, Epoch
  <2>2. \A v \in DOMAIN rows : rows[v].epoch # Epoch'
    BY <1>2, <2>1, Numbers DEF Bounded
  <2>3. RowsInOrder'
    <3> SUFFICES ASSUME NEW u \in DOMAIN mailbox', NEW v \in DOMAIN rows, v > u
                 PROVE  Settled(u)'
      BY <1>1 DEF RowsInOrder
    <3>1. u \in Nat /\ v \in Nat
      BY Numbers, ConstantsAssumption DEF TypeOK, IsMap, Uids
    <3> QED  BY <1>1, <2>2, <3>1 DEF Settled, Shadowed, Epoch
  <2>4. QueueInOrder' /\ PassInOrder'
    <3>1. \A i \in 1..Len(queue) : queue[i].epoch # Epoch'
      BY <1>2, <2>1, Numbers DEF Bounded
    <3>2. sel.validity # Epoch'
      BY <1>2, <2>1, StateFields DEF TypeOK
    <3> QED  BY <1>1, <1>2, <3>1, <3>2 DEF QueueInOrder, PassInOrder
  <2> QED  BY <2>3, <2>4
<1> QED  BY <1>3, <1>4 DEF Server

\* A purge amid a batch excuses what the batch relied upon.
LEMMA PurgeOrder ==
  ASSUME TypeOK, TypeOK', Phases, Bounded, Order, DeleteMessagesByFolder
  PROVE  Order'
<1> USE DEF Order, DeleteMessagesByFolder, passVars, serverVars
<1>1. /\ DOMAIN rows' = {} /\ batch' = Nothing /\ todo' = {}
      /\ UNCHANGED <<server, mailbox, queue, failed, sel>>
      /\ sel.validity \in 1..Epoch
  BY Maps DEF Phases, Within, InPass
<1>2. RowsInOrder' /\ PassInOrder'
  BY <1>1, Maps DEF RowsInOrder, PassInOrder
<1>3. QueueInOrder'
  <2>1. /\ DOMAIN queue = 1..Len(queue) /\ Len(queue) \in Nat /\ Epoch \in Nat
    BY Places, StateFields DEF TypeOK, Epoch
  <2> SUFFICES ASSUME NEW i \in 1..Len(queue), queue[i].epoch = Epoch,
                      NEW u \in DOMAIN mailbox, u < queue[i].uid
               PROVE  Settled(u)' \/ Waiting(u, i - 1)'
    BY <1>1, <2>1 DEF QueueInOrder, Epoch
  <2>2. queue # <<>>
    BY <2>1, EmptySeq
  <2>3. sel.validity = Epoch
    BY <1>1, <2>1 DEF Bounded, Within, InPass
  <2>4. CASE Waiting(u, i - 1)
    BY <1>1, <2>4 DEF Waiting, Epoch
  <2>5. CASE \E v \in DOMAIN rows : v >= u
    <3>1. <<Epoch, u>> \in torn'
      BY <2>2, <2>3, <2>5 DEF TypeOK, IsMap
    <3> QED  BY <1>1, <3>1 DEF Settled, Epoch
  <2>6. CASE <<Epoch, u>> \in failed \cup torn
    BY <1>1, <2>6 DEF Settled, Epoch
  <2>7. u \in Nat
    BY Numbers
  <2> QED  BY <2>1, <2>4, <2>5, <2>6, <2>7 DEF QueueInOrder, Settled, Stored, Shadowed
<1> QED  BY <1>2, <1>3

\* The lowest message of the batch is queued: those below it are settled or queued.
LEMMA SubmitOrder ==
  ASSUME TypeOK, TypeOK', Phases, Order, Submit
  PROVE  Order'
<1> USE DEF Order, passVars, serverVars
<1>1. PICK u : u = Min(DOMAIN batch)
  OBVIOUS
<1> DEFINE m == [uid |-> u, epoch |-> sel.validity, mod |-> batch[u], mine |-> TRUE]
<1>2. u \in DOMAIN batch /\ \A b \in DOMAIN batch : u <= b
  <2>1. DOMAIN batch \in SUBSET Nat /\ IsFiniteSet(DOMAIN batch) /\ DOMAIN batch # {}
    BY Maps DEF Submit, TypeOK
  <2> QED  BY <1>1, <2>1, MinIsLeast
<1>3. /\ UNCHANGED <<server, mailbox, rows, sel, todo, failed, torn>>
      /\ queue' = Append(queue, m)
      /\ DOMAIN batch' = DOMAIN batch \ {u}
  BY <1>1 DEF Submit
<1>4. m \in Item
  BY <1>2, ConstantsAssumption
     DEF Submit, Within, InPass, TypeOK, IsMap, Item, Phases, Epochs, Epoch
<1>5. m.uid = u /\ m.epoch = sel.validity
  OBVIOUS
<1> HIDE DEF m
<1>6. /\ Len(queue) \in Nat /\ DOMAIN queue = 1..Len(queue)
      /\ Len(queue') = Len(queue) + 1 /\ DOMAIN queue' = 1..(Len(queue) + 1)
      /\ queue'[Len(queue) + 1] = m
      /\ \A i \in 1..Len(queue) : queue'[i] = queue[i]
  <2>1. queue \in Seq(Item) /\ queue' \in Seq(Item)
    BY DEF TypeOK
  <2> QED  BY <1>3, <1>4, <2>1, Appended, Places
<1>7. Epoch' = Epoch /\ \A x : Settled(x) => Settled(x)'
  BY <1>3, SettledStays DEF Epoch
<1>8. ASSUME NEW x, NEW n \in 0..Len(queue), Waiting(x, n)
      PROVE  \E j \in 1..n : queue'[j].epoch = Epoch' /\ queue'[j].uid = x
  BY <1>6, <1>7, <1>8 DEF Waiting
<1>9. RowsInOrder'
  BY <1>3, <1>7 DEF RowsInOrder
<1>10. QueueInOrder'
  <2> SUFFICES ASSUME NEW i \in 1..(Len(queue) + 1), queue'[i].epoch = Epoch',
                      NEW x \in DOMAIN mailbox, x < queue'[i].uid
               PROVE  \/ Settled(x)'
                      \/ \E j \in 1..(i - 1) : queue'[j].epoch = Epoch' /\ queue'[j].uid = x
    BY <1>3, <1>6 DEF QueueInOrder, Waiting
  <2>1. i - 1 \in 0..Len(queue)
    BY <1>6
  <2>2. CASE i \in 1..Len(queue)
    <3>1. Settled(x) \/ Waiting(x, i - 1)
      BY <1>6, <1>7, <2>2 DEF QueueInOrder
    <3> QED  BY <1>7, <1>8, <2>1, <3>1
  <2>3. CASE i = Len(queue) + 1
    <3>1. sel.validity = Epoch /\ x < u
      BY <1>5, <1>6, <1>7, <2>3
    <3>2. x \notin DOMAIN batch
      BY <1>2, <3>1, Numbers
    <3>3. Settled(x) \/ Waiting(x, Len(queue))
      BY <1>2, <3>1, <3>2 DEF PassInOrder
    <3> QED  BY <1>6, <1>7, <1>8, <2>1, <2>3, <3>3
  <2> QED  BY <1>6, <2>2, <2>3
<1>11. PassInOrder'
  <2> SUFFICES ASSUME sel.validity = Epoch, NEW x \in DOMAIN mailbox,
                      NEW b \in DOMAIN batch \cup todo, x < b
               PROVE  /\ b \in DOMAIN batch =>
                           Settled(x)' \/ Waiting(x, Len(queue))' \/ x \in DOMAIN batch'
                      /\ Settled(x)' \/ Waiting(x, Len(queue))' \/ x \in DOMAIN batch' \cup todo
    BY <1>3, <1>7 DEF PassInOrder
  <2>1. CASE x = u
    BY <1>5, <1>6, <1>7, <2>1 DEF Waiting
  <2>2. CASE x # u /\ Waiting(x, Len(queue))
    <3>1. Len(queue) \in 0..Len(queue)
      BY <1>6
    <3>2. \E j \in 1..Len(queue) : queue'[j].epoch = Epoch' /\ queue'[j].uid = x
      BY <1>8, <2>2, <3>1
    <3>3. Waiting(x, Len(queue))'
      BY <1>6, <3>2 DEF Waiting
    <3> QED  BY <3>3
  <2>3. CASE x # u /\ ~Waiting(x, Len(queue))
    BY <1>3, <1>7, <2>3 DEF PassInOrder
  <2> QED  BY <2>1, <2>2, <2>3
<1> QED  BY <1>9, <1>10, <1>11

\* The message at the head of the queue has been dealt with.
LEMMA TakenOrder ==
  ASSUME TypeOK, TypeOK', QueueInOrder, PassInOrder, queue # <<>>, queue' = Tail(queue),
         UNCHANGED <<server, mailbox, sel, batch, todo>>,
         \A u : Settled(u) => Settled(u)',
         \A u : queue[1].epoch = Epoch /\ queue[1].uid = u => Settled(u)'
  PROVE  QueueInOrder' /\ PassInOrder'
<1>1. /\ Len(queue) \in Nat \ {0} /\ DOMAIN queue = 1..Len(queue)
      /\ Len(queue') = Len(queue) - 1 /\ DOMAIN queue' = 1..(Len(queue) - 1)
      /\ \A i \in 1..(Len(queue) - 1) : queue'[i] = queue[i + 1]
  BY Taken, Places DEF TypeOK
<1>2. Epoch' = Epoch
  BY DEF Epoch
<1>3. ASSUME NEW x, NEW n \in 1..Len(queue), Settled(x) \/ Waiting(x, n)
      PROVE  Settled(x)' \/ \E j \in 1..(n - 1) : queue'[j].epoch = Epoch' /\ queue'[j].uid = x
  <2>1. CASE Settled(x)
    BY <2>1
  <2>2. CASE Waiting(x, n)
    <3>1. PICK j \in 1..n : queue[j].epoch = Epoch /\ queue[j].uid = x
      BY <2>2 DEF Waiting
    <3>2. CASE j = 1
      BY <3>1, <3>2
    <3>3. CASE j # 1
      <4>1. j - 1 \in 1..(n - 1) /\ queue'[j - 1] = queue[j]
        BY <1>1, <3>3
      <4> QED  BY <1>2, <3>1, <4>1
    <3> QED  BY <3>2, <3>3
  <2> QED  BY <1>3, <2>1, <2>2
<1>4. QueueInOrder'
  <2> SUFFICES ASSUME NEW i \in 1..(Len(queue) - 1), queue'[i].epoch = Epoch',
                      NEW x \in DOMAIN mailbox, x < queue'[i].uid
               PROVE  \/ Settled(x)'
                      \/ \E j \in 1..(i - 1) : queue'[j].epoch = Epoch' /\ queue'[j].uid = x
    BY <1>1 DEF QueueInOrder, Waiting
  <2>1. /\ i + 1 \in 1..Len(queue) /\ queue'[i] = queue[i + 1] /\ i \in 1..Len(queue)
        /\ (i + 1) - 1 = i
    BY <1>1
  <2>2. Settled(x) \/ Waiting(x, i)
    BY <1>1, <1>2, <2>1 DEF QueueInOrder
  <2> QED  BY <1>3, <2>1, <2>2
<1>5. ASSUME NEW x, Settled(x) \/ Waiting(x, Len(queue))
      PROVE  Settled(x)' \/ Waiting(x, Len(queue))'
  <2>1. Settled(x)' \/ \E j \in 1..(Len(queue) - 1) : queue'[j].epoch = Epoch' /\ queue'[j].uid = x
    BY <1>1, <1>3, <1>5
  <2>2. 1..(Len(queue) - 1) = 1..Len(queue')
    BY <1>1
  <2> QED  BY <2>1, <2>2 DEF Waiting
<1>6. PassInOrder'
  BY <1>2, <1>5 DEF PassInOrder
<1> QED  BY <1>4, <1>6

\* The writer inserts it, finds its uid taken, or drops it.
LEMMA ProcessOrder ==
  ASSUME TypeOK, TypeOK', Order, Process
  PROVE  Order'
<1> USE DEF Order, passVars, serverVars
<1> DEFINE m == queue[1]
<1>1. /\ queue # <<>> /\ queue' = Tail(queue) /\ Head(queue) = m /\ 1 \in DOMAIN queue
      /\ UNCHANGED <<server, mailbox, sel, batch, todo, torn>>
  <2>1. queue # <<>> /\ queue \in Seq(Item)
    BY DEF Process, TypeOK
  <2> QED  BY <2>1, Taken, Places DEF Process
<1>2. Epoch' = Epoch
  BY <1>1 DEF Epoch
<1>3. CASE /\ m.uid \notin DOMAIN rows
           /\ rows' = [v \in DOMAIN rows \cup {m.uid} |->
                         IF v = m.uid THEN [epoch |-> m.epoch, mod |-> m.mod] ELSE rows[v]]
           /\ UNCHANGED failed
  <2>1. /\ DOMAIN rows' = DOMAIN rows \cup {m.uid} /\ rows'[m.uid].epoch = m.epoch
        /\ \A v \in DOMAIN rows : v \in DOMAIN rows' /\ rows'[v].epoch = rows[v].epoch
    BY <1>3
  <2>2. \A u : Settled(u) => Settled(u)'
    BY <1>1, <1>2, <1>3, <2>1, SettledStays
  <2>3. \A u : m.epoch = Epoch /\ m.uid = u => Settled(u)'
    BY <1>1, <2>1 DEF Settled, Stored, Epoch
  <2>4. RowsInOrder'
    <3> SUFFICES ASSUME NEW u \in DOMAIN mailbox, NEW v \in DOMAIN rows', v > u
                 PROVE  Settled(u)'
      BY <1>1 DEF RowsInOrder
    <3>1. CASE v \in DOMAIN rows
      BY <2>2, <3>1 DEF RowsInOrder
    <3>2. CASE v = m.uid /\ m.epoch # Epoch
      <4>1. v \in Nat /\ u \in Nat
        BY <1>1, <3>2, Numbers, Places DEF TypeOK
      <4> QED  BY <1>1, <2>1, <3>2, <4>1 DEF Settled, Shadowed, Epoch
    <3>3. CASE v = m.uid /\ m.epoch = Epoch
      <4>1. u \in Nat /\ v \in Nat
        BY <1>1, <3>3, Numbers, Places DEF TypeOK
      <4>2. ~Waiting(u, 1 - 1)
        BY DEF Waiting
      <4>3. Settled(u)
        BY <1>1, <3>3, <4>1, <4>2 DEF QueueInOrder
      <4> QED  BY <2>2, <4>3
    <3> QED  BY <2>1, <3>1, <3>2, <3>3
  <2> QED  BY <1>1, <2>2, <2>3, <2>4, TakenOrder
<1>4. CASE /\ UNCHANGED rows
           /\ \/ m.uid \in DOMAIN rows
                 /\ failed' = IF rows[m.uid].epoch = m.epoch THEN failed ELSE failed \cup {Id(m)}
              \/ failed' = failed \cup {Id(m)}
  <2>1. \A u : Settled(u) => Settled(u)'
    BY <1>1, <1>2, <1>4, SettledStays
  <2>2. \A u : m.epoch = Epoch /\ m.uid = u => Settled(u)'
    BY <1>1, <1>4 DEF Settled, Stored, Epoch, Id
  <2>3. RowsInOrder'
    BY <1>1, <1>4, <2>1 DEF RowsInOrder
  <2> QED  BY <1>1, <2>1, <2>2, <2>3, TakenOrder
<1> QED  BY <1>1, <1>3, <1>4 DEF Process

\* A panic drops it.
LEMMA PanicOrder ==
  ASSUME TypeOK, TypeOK', Order, Panic
  PROVE  Order'
<1> USE DEF Order, passVars, serverVars
<1>1. /\ queue # <<>> /\ queue' = Tail(queue) /\ failed' = failed \cup {Id(queue[1])}
      /\ UNCHANGED <<server, mailbox, rows, sel, batch, todo, torn>>
  <2>1. queue # <<>> /\ queue \in Seq(Item)
    BY DEF Panic, TypeOK
  <2> QED  BY <2>1, Taken DEF Panic
<1>2. \A u : Settled(u) => Settled(u)'
  BY <1>1, SettledStays DEF Epoch
<1>3. \A u : queue[1].epoch = Epoch /\ queue[1].uid = u => Settled(u)'
  BY <1>1 DEF Settled, Epoch, Id
<1>4. RowsInOrder'
  BY <1>1, <1>2 DEF RowsInOrder
<1> QED  BY <1>1, <1>2, <1>3, <1>4, TakenOrder

\* A stopped process leaves the rows.
LEMMA RestartOrder ==
  ASSUME TypeOK, Phases, Phases', Order, Restart
  PROVE  Order'
<1> USE DEF Order, passVars, serverVars
<1>1. /\ UNCHANGED <<server, mailbox, rows, failed, torn>>
      /\ DOMAIN queue' = {} /\ sel'.validity = 0 /\ Epoch' \in Nat \ {0}
  BY ConstantsAssumption DEF Restart, Phases, Within, InPass, NoState, Epochs
<1>2. \A u : Settled(u) => Settled(u)'
  BY <1>1, SettledStays DEF Epoch
<1> QED  BY <1>1, <1>2 DEF RowsInOrder, QueueInOrder, PassInOrder

\* Every step keeps the order.
LEMMA OrderKept ==
  TypeOK /\ TypeOK' /\ Phases /\ Phases' /\ Bounded /\ Order /\ [Next]_vars => Order'
<1> SUFFICES ASSUME TypeOK, TypeOK', Phases, Phases', Bounded, Order, [Next]_vars PROVE Order'
  OBVIOUS
<1>1. CASE UNCHANGED vars
  BY <1>1 DEF vars, serverVars, passVars, Order, RowsInOrder, QueueInOrder, PassInOrder, Settled,
              Stored, Shadowed, Waiting, Epoch
<1> QED  BY <1>1, ServerOrder, BoundaryOrder, WithinOrder, PurgeOrder, SubmitOrder, ProcessOrder,
            PanicOrder, RestartOrder, Zenon DEF Next, Pass, Boundary, Midway

-----------------------------------------------------------------------------
(* The flags.                                                              *)

\* The server's steps only add changes above all earlier ones.
LEMMA ServerFlags ==
  ASSUME ModSeqRestarts = FALSE, TypeOK, TypeOK', Phases, FlagsInv, Server
  PROVE  FlagsInv'
<1> USE DEF FlagsInv
<1>1. /\ UNCHANGED <<folder, rows, pc, sel, batch, deltas, queue, behind>>
      /\ server.modseq \in Nat /\ server'.modseq \in Nat /\ folder.modseq \in Nat
      /\ sel.modseq \in Nat
  <2>1. UNCHANGED <<folder, rows, pc, sel, batch, deltas, queue, behind>>
    BY DEF Server, Deliver, Expunge, ChangeFlags, Renumber, passVars
  <2> QED  BY <2>1, StateFields DEF TypeOK
<1>2. server'.modseq >= server.modseq
      /\ \A u \in DOMAIN mailbox' :
           \/ mailbox'[u] > server.modseq /\ mailbox'[u] \in Nat
           \/ u \in DOMAIN mailbox /\ mailbox'[u] = mailbox[u] /\ Epoch' = Epoch
  <2>1. CASE Deliver
    <3>1. Epoch' = Epoch /\ server'.modseq = server.modseq + 1
      BY <2>1, SameEpoch DEF Deliver, TypeOK, State
    <3> QED  BY <1>1, <2>1, <3>1 DEF Deliver
  <2>2. CASE Expunge
    <3>1. Epoch' = Epoch
      BY <2>2, SameEpoch DEF TypeOK
    <3> QED  BY <1>1, <2>2, <3>1 DEF Expunge
  <2>3. CASE ChangeFlags
    <3>1. Epoch' = Epoch /\ server'.modseq = server.modseq + 1
      BY <2>3, SameEpoch DEF ChangeFlags, TypeOK, State
    <3> QED  BY <1>1, <2>3, <3>1 DEF ChangeFlags
  <2>4. CASE Renumber
    BY <1>1, <2>4 DEF Renumber
  <2> QED  BY <2>1, <2>2, <2>3, <2>4 DEF Server
<1>3. \A u \in DOMAIN mailbox' :
        \/ mailbox'[u] > folder.modseq /\ mailbox'[u] > sel.modseq
        \/ u \in DOMAIN mailbox /\ mailbox'[u] = mailbox[u] /\ Epoch' = Epoch
  BY <1>1, <1>2 DEF Watermark
<1>4. \/ Epoch' = Epoch
      \/ \A u \in DOMAIN mailbox' : mailbox'[u] > folder.modseq /\ mailbox'[u] > sel.modseq
  BY <1>3
<1>5. Watermark'
  BY <1>1, <1>2, <1>3 DEF Watermark
<1>6. FlagsFollow'
  <2>1. StoredFollow'
    BY <1>1, <1>3 DEF FlagsFollow, StoredFollow, Seen, Differing, Epoch
  <2>2. QueueFollows'
    BY <1>1, <1>3 DEF FlagsFollow, QueueFollows, Seen, Dropped, Claimed
  <2>3. BatchFollows'
    BY <1>1, <1>3 DEF FlagsFollow, BatchFollows
  <2> QED  BY <2>1, <2>2, <2>3 DEF FlagsFollow
<1>7. Applying'
  <2>1. DeltasApply'
    BY <1>1, <1>3 DEF Applying, DeltasApply
  <2>2. StoredApply'
    BY <1>1, <1>3 DEF Applying, StoredApply, Seen, Differing, Epoch
  <2>3. QueueApplies'
    BY <1>1, <1>3 DEF Applying, QueueApplies, Seen, Dropped, Claimed
  <2> QED  BY <2>1, <2>2, <2>3 DEF Applying
<1> QED  BY <1>5, <1>6, <1>7

\* A pass over an older incarnation has nothing of the current one behind it.
LEMMA OldPass ==
  ASSUME TypeOK, Phases, Bounded, pc \in Within, sel.validity # Epoch
  PROVE  \A i \in DOMAIN queue : queue[i].epoch # Epoch
<1>1. DOMAIN queue = 1..Len(queue) /\ Epoch \in Nat /\ sel.validity \in Nat /\ sel.validity <= Epoch
  BY Places, StateFields DEF TypeOK, Phases, Epoch
<1> QED  BY <1>1, Numbers DEF Bounded

\* Steps that write no flags and do not move the watermark.
LEMMA FollowStays ==
  ASSUME TypeOK, TypeOK', Kept, FlagsFollow, UNCHANGED <<rows, behind>>,
         folder'.modseq = folder.modseq,
         (Claimed => Claimed') \/ \A i \in DOMAIN queue : queue[i].epoch # Epoch
  PROVE  StoredFollow' /\ QueueFollows'
<1>1. Epoch' = Epoch /\ DOMAIN queue = 1..Len(queue) /\ DOMAIN queue' = 1..Len(queue)
  BY Places DEF Kept, TypeOK, Epoch
<1>2. StoredFollow'
  BY <1>1 DEF Kept, FlagsFollow, StoredFollow, Seen, Differing
<1>3. QueueFollows'
  BY <1>1 DEF Kept, FlagsFollow, QueueFollows, Seen, Dropped
<1> QED  BY <1>2, <1>3

\* A pass begins or ends, and the watermark stays.
Idle == RunOnce \/ Serve \/ RunOnceFails \/ Tick \/ Fail \/ NoSweep \/ Stop

\* The steps around a pass leave the watermark.
LEMMA IdleFlags ==
  ASSUME TypeOK, TypeOK', Phases, Phases', FlagsInv, Idle \/ Select
  PROVE  FlagsInv'
<1> USE DEF FlagsInv, passVars, serverVars
<1>1. Kept /\ batch' = Nothing
  BY KeptByPasses, EmptyHanded DEF Boundary, Idle
<1>2. UNCHANGED <<rows, behind>>
  BY DEF Idle, RunOnce, Serve, RunOnceFails, Tick, Fail, NoSweep, Stop, Select
<1>3. folder'.modseq = folder.modseq /\ folder'.validity \in {0, folder.validity}
  <2>1. folder \in State
    BY DEF TypeOK
  <2>2. CASE RunOnce
    BY <2>1, <2>2 DEF RunOnce, UpsertFolder, State
  <2>3. CASE ~RunOnce
    BY <2>3 DEF Idle, Serve, RunOnceFails, Tick, Fail, NoSweep, Stop, Select
  <2> QED  BY <2>2, <2>3
<1>4. StoredFollow' /\ QueueFollows'
  <2>1. Claimed => Claimed'
    BY <1>1, <1>3 DEF Claimed, Kept, Epoch
  <2> QED  BY <1>1, <1>2, <1>3, <2>1, FollowStays
<1>5. BatchFollows'
  BY <1>1, Maps DEF BatchFollows
<1>6. pc' # "apply"
  BY DEF Idle, RunOnce, Serve, RunOnceFails, Tick, Fail, NoSweep, Stop, Ends, Select
<1>7. Watermark'
  <2>1. CASE Select
    <3>1. sel'.validity = Epoch /\ sel'.modseq <= server.modseq
      BY <2>1, StateFields DEF Select, TypeOK, State, Epoch
    <3> QED  BY <1>1, <1>3, <2>1, <3>1 DEF Select, Kept, Watermark, Within, InPass, Epoch
  <2>2. CASE Idle
    <3>1. pc' \notin Within /\ sel' = NoState
      BY <2>2 DEF Idle, RunOnce, Serve, RunOnceFails, Tick, Fail, NoSweep, Stop, Ends, Phases,
                  Within, InPass
    <3>2. 0 <= server.modseq
      BY StateFields DEF TypeOK
    <3> QED  BY <1>1, <1>3, <3>1, <3>2 DEF Watermark, Kept, NoState, Within, InPass
  <2> QED  BY <2>1, <2>2
<1> QED  BY <1>4, <1>5, <1>6, <1>7
            DEF FlagsFollow, Applying, DeltasApply, StoredApply, QueueApplies

\* The steps of a pass up to the sweep.
FetchStep == MaxUIDByFolder \/ UIDsAbove \/ FetchByUIDs \/ Submitted \/ Checkpoint

\* They fetch messages with the flags they have.
LEMMA FetchFlags ==
  ASSUME TypeOK, TypeOK', Phases, Bounded, FlagsInv, FetchStep
  PROVE  FlagsInv'
<1> USE DEF FlagsInv, passVars, serverVars
<1>1. Kept
  BY KeptByPasses DEF Midway, FetchStep
<1>2. UNCHANGED <<rows, behind, sel>> /\ pc \in Within /\ pc' \notin {"apply", "purge"}
  BY DEF FetchStep, MaxUIDByFolder, UIDsAbove, FetchByUIDs, Submitted, Checkpoint, Within, InPass
<1>3. /\ folder'.modseq = folder.modseq /\ folder'.validity \in {folder.validity, sel.validity}
      /\ pc' \in {"flags"} => folder'.validity = sel.validity
  <2>1. folder \in State
    BY DEF TypeOK
  <2>2. CASE UIDsAbove \/ Checkpoint
    BY <2>1, <2>2 DEF UIDsAbove, Checkpoint, UpsertFolder, State
  <2>3. CASE MaxUIDByFolder \/ FetchByUIDs \/ Submitted
    BY <2>3 DEF MaxUIDByFolder, FetchByUIDs, Submitted
  <2> QED  BY <2>2, <2>3 DEF FetchStep
<1>4. StoredFollow' /\ QueueFollows'
  <2>1. CASE sel.validity = Epoch
    <3>1. Claimed => Claimed'
      BY <1>1, <1>3, <2>1 DEF Claimed, Kept, Epoch
    <3> QED  BY <1>1, <1>2, <1>3, <3>1, FollowStays
  <2>2. CASE sel.validity # Epoch
    BY <1>1, <1>2, <1>3, <2>2, OldPass, FollowStays
  <2> QED  BY <2>1, <2>2
<1>5. BatchFollows'
  <2>1. CASE FetchByUIDs
    BY <1>1, <2>1 DEF FetchByUIDs, BatchFollows
  <2>2. CASE ~FetchByUIDs
    <3>1. batch' = batch
      BY <2>2 DEF FetchStep, MaxUIDByFolder, UIDsAbove, Submitted, Checkpoint
    <3> QED  BY <1>1, <1>2, <1>3, <3>1 DEF Kept, BatchFollows, FlagsFollow, Epoch
  <2> QED  BY <2>1, <2>2
<1>6. Watermark'
  BY <1>1, <1>2, <1>3 DEF Watermark, Kept, Epoch
<1> QED  BY <1>2, <1>4, <1>5, <1>6
            DEF FlagsFollow, Applying, DeltasApply, StoredApply, QueueApplies

\* A purge takes no row that a queued message relies upon.
LEMMA PurgeFlags ==
  ASSUME TypeOK, TypeOK', Phases, Bounded, FlagsInv, DeleteMessagesByFolder
  PROVE  FlagsInv'
<1> USE DEF FlagsInv, passVars, serverVars
<1>1. /\ UNCHANGED <<server, mailbox, folder, queue, sel, batch>>
      /\ pc \in Within /\ pc = "purge" /\ pc' = "cursor"
      /\ DOMAIN rows' = {} /\ behind' = behind \cap Queued
  BY Maps DEF DeleteMessagesByFolder, Within, InPass
<1>2. StoredFollow'
  BY <1>1 DEF StoredFollow, Differing
<1>3. QueueFollows'
  <2> SUFFICES ASSUME NEW i \in DOMAIN queue, NEW u \in DOMAIN mailbox,
                      queue[i].epoch = Epoch, queue[i].uid = u
               PROVE  queue[i].mod = mailbox[u] \/ mailbox[u] > folder.modseq \/ u \in behind'
    BY <1>1 DEF QueueFollows, Seen, Epoch
  <2>1. sel.validity = Epoch
    BY <1>1, OldPass
  <2>2. ~Claimed
    BY <1>1, <2>1 DEF Watermark, Claimed
  <2>3. u \in Queued
    BY DEF Queued
  <2> QED  BY <1>1, <2>2, <2>3 DEF FlagsFollow, QueueFollows, Seen, Dropped
<1>4. BatchFollows'
  BY <1>1 DEF FlagsFollow, BatchFollows, Epoch
<1>5. Watermark'
  BY <1>1 DEF Watermark, Within, InPass, Epoch
<1> QED  BY <1>1, <1>2, <1>3, <1>4, <1>5
            DEF FlagsFollow, Applying, DeltasApply, StoredApply, QueueApplies

\* A message is queued with the flags it was fetched with.
LEMMA SubmitFlags ==
  ASSUME TypeOK, TypeOK', Phases, FlagsInv, Submit
  PROVE  FlagsInv'
<1> USE DEF FlagsInv, passVars, serverVars
<1>1. PICK u : u = Min(DOMAIN batch)
  OBVIOUS
<1> DEFINE m == [uid |-> u, epoch |-> sel.validity, mod |-> batch[u], mine |-> TRUE]
<1>2. u \in DOMAIN batch
  <2>1. DOMAIN batch \in SUBSET Nat /\ IsFiniteSet(DOMAIN batch) /\ DOMAIN batch # {}
    BY Maps DEF Submit, TypeOK
  <2> QED  BY <1>1, <2>1, MinIsLeast
<1>3. /\ UNCHANGED <<server, mailbox, folder, rows, pc, sel, behind>>
      /\ queue' = Append(queue, m) /\ pc = "submit"
      /\ DOMAIN batch' = DOMAIN batch \ {u} /\ \A v \in DOMAIN batch' : batch'[v] = batch[v]
  BY <1>1 DEF Submit
<1>4. m \in Item
  BY <1>2, ConstantsAssumption
     DEF Submit, Within, InPass, TypeOK, IsMap, Item, Phases, Epochs, Epoch
<1>5. m.uid = u /\ m.epoch = sel.validity /\ m.mod = batch[u]
  OBVIOUS
<1> HIDE DEF m
<1>6. /\ Len(queue) \in Nat /\ DOMAIN queue = 1..Len(queue) /\ DOMAIN queue' = 1..(Len(queue) + 1)
      /\ queue'[Len(queue) + 1] = m
      /\ \A i \in 1..Len(queue) : queue'[i] = queue[i]
  <2>1. queue \in Seq(Item) /\ queue' \in Seq(Item)
    BY DEF TypeOK
  <2> QED  BY <1>3, <1>4, <2>1, Appended, Places
<1>7. StoredFollow' /\ BatchFollows' /\ Watermark'
  BY <1>3 DEF FlagsFollow, StoredFollow, BatchFollows, Watermark, Seen, Differing, Epoch
<1>8. QueueFollows'
  <2> SUFFICES ASSUME NEW i \in DOMAIN queue', NEW x \in DOMAIN mailbox,
                      queue'[i].epoch = Epoch, queue'[i].uid = x
               PROVE  Seen(x, queue'[i].mod, folder.modseq) \/ Dropped(x)
    BY <1>3 DEF QueueFollows, Seen, Dropped, Claimed, Epoch
  <2>1. CASE i \in 1..Len(queue)
    BY <1>6, <2>1 DEF FlagsFollow, QueueFollows
  <2>2. CASE i = Len(queue) + 1
    BY <1>2, <1>5, <1>6, <2>2 DEF FlagsFollow, BatchFollows, Seen
  <2> QED  BY <1>6, <2>1, <2>2
<1> QED  BY <1>3, <1>7, <1>8
            DEF FlagsFollow, Applying, DeltasApply, StoredApply, QueueApplies

\* The baseline notes all that it passes over.
LEMMA BaselineFlags ==
  ASSUME TypeOK, TypeOK', Phases, FlagsInv, SetBaseline
  PROVE  FlagsInv'
<1> USE DEF FlagsInv, passVars, serverVars
<1>1. Kept /\ batch' = Nothing /\ Epoch' = Epoch
  BY KeptByPasses, EmptyHanded DEF Boundary, Kept, Epoch, SetBaseline, Ends
<1>2. /\ UNCHANGED rows /\ behind' = behind \cup Differing \cup Queued
      /\ pc' = "rest" /\ sel' = NoState
  BY DEF SetBaseline, Ends
<1>3. DOMAIN queue = 1..Len(queue) /\ DOMAIN queue' = 1..Len(queue)
  BY <1>1, Places DEF Kept, TypeOK
<1>4. StoredFollow'
  BY <1>1, <1>2 DEF Kept, StoredFollow, Seen, Differing
<1>5. QueueFollows'
  BY <1>1, <1>2, <1>3 DEF Kept, QueueFollows, Seen, Queued
<1>6. BatchFollows'
  BY <1>1, Maps DEF BatchFollows
<1>7. Watermark'
  <2>1. folder'.modseq = sel.modseq
    BY DEF SetBaseline, TypeOK, State
  <2>2. 0 <= server.modseq
    BY StateFields DEF TypeOK
  <2> QED  BY <1>1, <1>2, <2>1, <2>2 DEF Kept, Watermark, NoState, Within, InPass
<1> QED  BY <1>2, <1>4, <1>5, <1>6, <1>7
            DEF FlagsFollow, Applying, DeltasApply, StoredApply, QueueApplies

\* A sweep fetches all changes since the watermark.
LEMMA SweepFlags ==
  ASSUME TypeOK, TypeOK', Phases, FlagsInv, FetchFlagsChangedSince
  PROVE  FlagsInv'
<1> USE DEF FlagsInv, passVars, serverVars, FetchFlagsChangedSince
<1>1. /\ UNCHANGED <<server, mailbox, folder, rows, sel, batch, queue, behind>>
      /\ pc' = "apply" /\ pc \in Within /\ folder.modseq < sel.modseq /\ pc = "flags"
      /\ DOMAIN deltas' = {v \in DOMAIN mailbox : mailbox[v] > folder.modseq}
      /\ \A u \in DOMAIN deltas' : deltas'[u] = mailbox[u]
  BY DEF Within, InPass
<1>2. FlagsFollow'
  BY <1>1 DEF FlagsFollow, StoredFollow, QueueFollows, BatchFollows, Seen, Dropped, Claimed,
              Differing, Epoch
<1>3. DeltasApply'
  BY <1>1 DEF DeltasApply
<1>4. StoredApply'
  BY <1>1 DEF FlagsFollow, StoredFollow, StoredApply, Seen, Differing, Epoch
<1>5. QueueApplies'
  BY <1>1 DEF FlagsFollow, QueueFollows, QueueApplies, Seen, Dropped, Claimed, Epoch
<1>6. Watermark'
  BY <1>1 DEF Watermark, Epoch
<1> QED  BY <1>2, <1>3, <1>4, <1>5, <1>6 DEF Applying

\* What is applied, or is not, is noted.
LEMMA UpdateFlags ==
  ASSUME TypeOK, TypeOK', Phases, FlagsInv, UpdateFlagsByUID
  PROVE  FlagsInv'
<1> USE DEF FlagsInv, passVars, serverVars
<1>1. PICK u \in DOMAIN deltas :
        /\ deltas' = [v \in DOMAIN deltas \ {u} |-> deltas[v]]
        /\ \/ /\ u \in DOMAIN rows
              /\ rows' = [rows EXCEPT ![u].mod = deltas[u]]
              /\ behind' = behind \ {u}
           \/ /\ u \notin DOMAIN rows
              /\ behind' = behind \cup ({u} \cap Queued)
              /\ UNCHANGED rows
           \/ /\ u \in DOMAIN rows
              /\ behind' = behind \cup {u}
              /\ UNCHANGED rows
  BY DEF UpdateFlagsByUID
<1>2. /\ UNCHANGED <<server, mailbox, folder, pc, sel, batch, queue>> /\ pc = "apply"
      /\ DOMAIN deltas' = DOMAIN deltas \ {u}
      /\ \A v \in DOMAIN deltas' : deltas'[v] = deltas[v]
  BY <1>1 DEF UpdateFlagsByUID
<1>3. /\ DOMAIN rows' = DOMAIN rows
      /\ \A v \in DOMAIN rows : rows'[v].epoch = rows[v].epoch
      /\ \A v \in DOMAIN rows \ {u} : rows'[v] = rows[v]
      /\ \A v \in Uids \ {u} : v \in behind => v \in behind'
  BY <1>1 DEF TypeOK, IsMap
<1>4. u \in DOMAIN mailbox =>
        \/ u \notin DOMAIN rows /\ (u \in behind \/ u \in Queued => u \in behind')
        \/ u \in DOMAIN rows /\ u \in behind'
        \/ u \in DOMAIN rows /\ rows'[u].mod = deltas[u]
  BY <1>1 DEF TypeOK, IsMap
<1>5. Epoch' = Epoch /\ (Claimed' <=> Claimed) /\ DOMAIN mailbox \subseteq Uids
      /\ \A i \in DOMAIN queue : queue[i].uid \in Queued
  BY <1>2 DEF Epoch, Claimed, TypeOK, IsMap, Queued
\* A change to a message of the current incarnation: what it is worth, and that its row,
\* if it has one, makes the writer drop the message.
<1>6. /\ u \in DOMAIN mailbox => deltas[u] = mailbox[u] \/ mailbox[u] > sel.modseq
      /\ \A v \in DOMAIN mailbox : mailbox[v] > sel.modseq => mailbox[v] > folder.modseq
      /\ Claimed \/ \A v \in DOMAIN mailbox : mailbox[v] > sel.modseq
  <2>1. u \in DOMAIN mailbox => deltas[u] = mailbox[u] \/ mailbox[u] > sel.modseq
    BY <1>2 DEF Applying, DeltasApply
  <2>2. \A v \in DOMAIN mailbox : mailbox[v] > sel.modseq => mailbox[v] > folder.modseq
    <3>1. sel.modseq \in Nat /\ folder.modseq \in Nat /\ folder.modseq < sel.modseq
          /\ \A v \in DOMAIN mailbox : mailbox[v] \in Nat
      BY <1>2, StateFields, ConstantsAssumption DEF TypeOK, IsMap, ModSeqs, Watermark
    <3> QED  BY <3>1
  <2>3. Claimed \/ \A v \in DOMAIN mailbox : mailbox[v] > sel.modseq
    BY <1>2 DEF Watermark, Claimed, Within, InPass
  <2> QED  BY <2>1, <2>2, <2>3
<1>7. StoredFollow'
  BY <1>2, <1>3, <1>4, <1>5, <1>6 DEF FlagsFollow, StoredFollow, Seen, Differing, Epoch
<1>8. QueueFollows'
  BY <1>2, <1>3, <1>4, <1>5, <1>6 DEF FlagsFollow, QueueFollows, Seen, Dropped
<1>9. BatchFollows'
  BY <1>2, <1>5 DEF FlagsFollow, BatchFollows
<1>10. DeltasApply'
  BY <1>2 DEF Applying, DeltasApply
<1>11. StoredApply'
  BY <1>2, <1>3, <1>4, <1>5, <1>6 DEF Applying, StoredApply, Seen, Differing, Epoch
<1>12. QueueApplies'
  BY <1>2, <1>3, <1>4, <1>5, <1>6 DEF Applying, QueueApplies, Seen, Dropped
<1>13. Watermark'
  BY <1>2, <1>5 DEF Watermark
<1> QED  BY <1>7, <1>8, <1>9, <1>10, <1>11, <1>12, <1>13 DEF FlagsFollow, Applying

\* The watermark moves when all of the sweep's changes have been dealt with.
LEMMA WatermarkFlags ==
  ASSUME TypeOK, TypeOK', Phases, FlagsInv, SetFolderHighestModSeq
  PROVE  FlagsInv'
<1> USE DEF FlagsInv, passVars, serverVars
<1>1. Kept /\ batch' = Nothing /\ Epoch' = Epoch
  BY KeptByPasses DEF Boundary, Kept, Epoch, SetFolderHighestModSeq, Ends
<1>2. /\ UNCHANGED <<rows, behind>> /\ pc = "apply" /\ pc' = "rest" /\ sel' = NoState
      /\ DOMAIN deltas = {}
  BY Maps DEF SetFolderHighestModSeq, Ends
<1>3. folder'.modseq = sel.modseq /\ folder'.validity = folder.validity
  <2>1. folder \in State /\ folder.modseq < sel.modseq
    BY <1>2 DEF TypeOK, Watermark
  <2> QED  BY <2>1 DEF SetFolderHighestModSeq, State
<1>4. DOMAIN queue = 1..Len(queue) /\ DOMAIN queue' = 1..Len(queue)
  BY <1>1, Places DEF Kept, TypeOK
<1>5. StoredFollow'
  BY <1>1, <1>2, <1>3 DEF Kept, Applying, StoredApply, StoredFollow, Seen, Differing
<1>6. QueueFollows'
  BY <1>1, <1>2, <1>3, <1>4 DEF Kept, Applying, QueueApplies, QueueFollows, Seen, Dropped, Claimed
<1>7. BatchFollows'
  BY <1>1, Maps DEF BatchFollows
<1>8. Watermark'
  <2>1. 0 <= server.modseq
    BY StateFields DEF TypeOK
  <2> QED  BY <1>1, <1>2, <1>3, <2>1 DEF Kept, Watermark, NoState, Within, InPass
<1> QED  BY <1>2, <1>5, <1>6, <1>7, <1>8
            DEF FlagsFollow, Applying, DeltasApply, StoredApply, QueueApplies

\* What the writer stores has the flags it was queued with.
LEMMA WriterFlags ==
  ASSUME TypeOK, TypeOK', FlagsInv, Process \/ Panic
  PROVE  FlagsInv'
<1> USE DEF FlagsInv, passVars, serverVars
<1> DEFINE m == queue[1]
<1>1. /\ UNCHANGED <<server, mailbox, folder, pc, sel, batch, deltas, behind>>
      /\ 1 \in DOMAIN queue
      /\ \A i \in DOMAIN queue' : i + 1 \in DOMAIN queue /\ queue'[i] = queue[i + 1]
      /\ Head(queue) = m
  <2>1. queue # <<>> /\ queue \in Seq(Item) /\ queue' \in Seq(Item) /\ queue' = Tail(queue)
    BY DEF Process, Panic, TypeOK
  <2>2. /\ Len(queue) \in Nat \ {0} /\ DOMAIN queue = 1..Len(queue)
        /\ DOMAIN queue' = 1..(Len(queue) - 1)
    BY <2>1, Taken, Places
  <2> QED  BY <2>1, <2>2, Taken DEF Process, Panic
<1>2. \/ rows' = rows
      \/ /\ m.uid \notin DOMAIN rows
         /\ DOMAIN rows' = DOMAIN rows \cup {m.uid}
         /\ rows'[m.uid].epoch = m.epoch /\ rows'[m.uid].mod = m.mod
         /\ \A v \in DOMAIN rows : rows'[v] = rows[v]
  BY <1>1 DEF Process, Panic
<1>3. Epoch' = Epoch /\ (Claimed' <=> Claimed)
  BY <1>1 DEF Epoch, Claimed
<1>4. StoredFollow'
  BY <1>1, <1>2, <1>3 DEF FlagsFollow, StoredFollow, QueueFollows, Seen, Dropped, Differing, Epoch
<1>5. QueueFollows'
  BY <1>1, <1>2, <1>3 DEF FlagsFollow, QueueFollows, Seen, Dropped
<1>6. BatchFollows' /\ DeltasApply' /\ Watermark'
  BY <1>1, <1>3 DEF FlagsFollow, BatchFollows, Applying, DeltasApply, Watermark
<1>7. StoredApply'
  BY <1>1, <1>2, <1>3 DEF Applying, StoredApply, QueueApplies, Seen, Dropped, Differing, Epoch
<1>8. QueueApplies'
  BY <1>1, <1>2, <1>3 DEF Applying, QueueApplies, Seen, Dropped
<1> QED  BY <1>4, <1>5, <1>6, <1>7, <1>8 DEF FlagsFollow, Applying

\* A new process has an empty queue.
LEMMA RestartFlags ==
  ASSUME Phases', FlagsInv, Restart
  PROVE  FlagsInv'
<1> USE DEF FlagsInv, passVars, serverVars
<1>1. /\ UNCHANGED <<server, mailbox, folder, rows, sel, batch, deltas, behind>>
      /\ pc' = "off" /\ DOMAIN queue' = {}
  BY DEF Restart
<1>2. FlagsFollow'
  BY <1>1 DEF FlagsFollow, StoredFollow, QueueFollows, BatchFollows, Seen, Differing, Epoch
<1>3. Watermark'
  BY <1>1 DEF Watermark, Within, InPass
<1> QED  BY <1>1, <1>2, <1>3 DEF Applying, DeltasApply, StoredApply, QueueApplies

\* Every step keeps the invariant of the flags.
LEMMA FlagsKept ==
  ASSUME ModSeqRestarts = FALSE
  PROVE  Inv /\ Inv' /\ FlagsInv /\ [Next]_vars => FlagsInv'
<1> SUFFICES ASSUME Inv, Inv', FlagsInv, [Next]_vars PROVE FlagsInv'
  OBVIOUS
<1> USE DEF Inv
<1>1. CASE UNCHANGED vars
  BY <1>1 DEF vars, serverVars, passVars, FlagsInv, Watermark, FlagsFollow, StoredFollow,
              QueueFollows, BatchFollows, Applying, DeltasApply, StoredApply, QueueApplies, Seen,
              Dropped, Claimed, Differing, Epoch
<1> QED  BY <1>1, ServerFlags, IdleFlags, FetchFlags, PurgeFlags, SubmitFlags, BaselineFlags,
            SweepFlags, UpdateFlags, WatermarkFlags, WriterFlags, RestartFlags, Zenon
            DEF Next, Pass, Idle, FetchStep

\* It holds at first.
LEMMA InitFlags == Init => FlagsInv
<1> SUFFICES ASSUME Init PROVE FlagsInv
  OBVIOUS
<1>1. DOMAIN rows = {} /\ DOMAIN queue = {} /\ DOMAIN batch = {} /\ pc = "off"
  BY Maps DEF Init
<1>2. FlagsFollow /\ Applying
  BY <1>1 DEF FlagsFollow, StoredFollow, QueueFollows, BatchFollows, Applying, DeltasApply,
              StoredApply, QueueApplies, Differing
<1>3. Watermark
  BY <1>1 DEF Init, Watermark, NoState, Within, InPass
<1> QED  BY <1>2, <1>3 DEF FlagsInv

-----------------------------------------------------------------------------
(* The theorems.                                                           *)

\* Every step keeps the invariant.
LEMMA InvKept == Inv /\ [Next]_vars => Inv'
BY TypesKept, PhasesKept, BoundsKept, OrderKept DEF Inv

\* The invariant holds throughout.
LEMMA Invariance == Spec => []Inv
BY InitInv, InvKept, PTL DEF Spec

\* Every variable keeps its type: in particular the queue never holds more than its
\* capacity, and the cursor and the checkpoint stay within the uids of the mailbox.
THEOREM TypeCorrectness == Spec => []TypeOK
<1>1. Inv => TypeOK
  BY DEF Inv
<1> QED  BY <1>1, Invariance, PTL

\* No pass skips a message: what is below the highest stored uid is stored, was
\* dropped by the writer, is hidden by an older incarnation, or lost its place to a
\* purge that came while the queue was not empty.
THEOREM CursorSkipsNothing == Spec => []NoneSkipped
<1>1. Inv => NoneSkipped
  BY DEF Inv, Order, RowsInOrder, NoneSkipped, Skipped, Settled, Epoch
<1> QED  BY <1>1, Invariance, PTL

\* The flags of a stored message are the server's, or the next sweep asks for the
\* change, or a sweep has passed it over: the watermark hides nothing, provided that a
\* recreated mailbox does not start its mod-sequences anew.
THEOREM WatermarkHidesNothing ==
  ASSUME ModSeqRestarts = FALSE
  PROVE  Spec => []FlagsUpToWatermark
<1>1. FlagsInv => FlagsUpToWatermark
  BY DEF FlagsInv, FlagsFollow, StoredFollow, FlagsUpToWatermark, Seen, Differing
<1> QED  BY <1>1, InitFlags, FlagsKept, Invariance, PTL DEF Spec
=============================================================================
