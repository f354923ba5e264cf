----------------------------- MODULE FolderSync -----------------------------
(***************************************************************************)
(* The synchronisation of one folder: AccountWorker's passes of syncFolder *)
(* over it, the bounded queue to the StoreWriter, the StoreWriter, the     *)
(* folder's rows in the database, the mailbox on the server, and the       *)
(* process, which may stop at any point and start again.                   *)
(*                                                                         *)
(* Of a folder's passes at most one runs at a time: first runOnce's, then  *)
(* those of the one goroutine, runIDLE or runPoll, that runOnce spawns for *)
(* the folder. What a pass reads from the server, and every transaction,   *)
(* is a step of its own.                                                   *)
(*                                                                         *)
(* The flags of a message are represented by the mod-sequence of their     *)
(* last change: two copies of a message agree on the flags if they carry   *)
(* the same number. Uids of different incarnations of the mailbox          *)
(* (UIDVALIDITY) name different messages, hence the pairs <<epoch, uid>>.  *)
(***************************************************************************)
EXTENDS Integers, Sequences, FiniteSets, FiniteSetsExt

CONSTANTS
  BatchSize,      \* fetchBatchSize
  QueueCap,       \* capacity of StoreWriter.in
  CondStore,      \* whether the server supports CONDSTORE
  Panics,         \* whether processing a message may panic
  ModSeqRestarts, \* whether a new incarnation of the mailbox restarts its
                  \* mod-sequences
  MaxUid,         \* bound: uids of an incarnation
  MaxModSeq,      \* bound: mod-sequences
  MaxEpoch,       \* bound: incarnations of the mailbox
  MaxFaults       \* bound: failed calls, lost connections, stops of the process

ASSUME ConstantsAssumption ==
  /\ BatchSize \in Nat \ {0} /\ QueueCap \in Nat \ {0}
  /\ {CondStore, Panics, ModSeqRestarts} \subseteq BOOLEAN
  /\ {MaxUid, MaxFaults} \subseteq Nat /\ {MaxModSeq, MaxEpoch} \subseteq Nat \ {0}

VARIABLES
  \* The server.
  server,    \* UIDVALIDITY, UIDNEXT and HIGHESTMODSEQ of the mailbox
  mailbox,   \* the live messages: uid -> mod-sequence
  \* The database.
  folder,    \* the folder's row: uid_validity, uid_next, highest_modseq
  rows,      \* the folder's rows of messages: uid -> epoch and mod-sequence
  \* The account worker.
  pc,        \* where the worker, or its pass over the folder, is
  serving,   \* whether runOnce has reached its second part
  sel,       \* the answer to the pass's SELECT
  after,     \* dbMaxUID
  todo,      \* live uids still to be fetched
  batch,     \* messages fetched and still to be submitted
  deltas,    \* flag changes fetched and still to be applied
  \* The store writer.
  queue,     \* StoreWriter.in
  writer,    \* "up", or "dead" after a panic
  faults,    \* faults so far
  \* History.
  failed,    \* messages the writer has dropped, be it only once
  torn,      \* uids whose row was purged, or a row at or above them, while the
             \* writer's queue was not empty
  behind     \* stored uids whose flags the watermark has passed over

serverVars == <<server, mailbox>>
passVars   == <<sel, after, todo, batch, deltas>>
vars == <<serverVars, folder, rows, pc, serving, passVars, queue, writer,
          faults, failed, torn, behind>>

Uids    == 1..MaxUid
Epochs  == 1..MaxEpoch
ModSeqs == 0..MaxModSeq
State   == [validity : 0..MaxEpoch, next : 0..(MaxUid + 1), modseq : ModSeqs]
Nothing == <<>>   \* the function with an empty domain
NoState == [validity |-> 0, next |-> 0, modseq |-> 0]

IsMap(f, S) == DOMAIN f \subseteq Uids /\ f \in [DOMAIN f -> S]   \* of uids
Item    == [uid : Uids, epoch : Epochs, mod : ModSeqs, mine : BOOLEAN]

\* The points at which a pass of syncFolder can be.
InPass == {"select", "purge", "cursor", "search", "fetch", "submit", "drain",
           "flags", "apply"}

TypeOK ==
  /\ server \in State /\ IsMap(mailbox, ModSeqs)
  /\ folder \in State
  /\ IsMap(rows, [epoch : Epochs, mod : ModSeqs])
  /\ pc \in {"down", "off", "rest"} \cup InPass
  /\ serving \in BOOLEAN
  /\ sel \in State /\ after \in 0..MaxUid
  /\ todo \subseteq Uids
  /\ IsMap(batch, ModSeqs) /\ IsMap(deltas, ModSeqs)
  /\ queue \in Seq(Item) /\ Len(queue) <= QueueCap
  /\ writer \in {"up", "dead"}
  /\ faults \in 0..MaxFaults
  /\ failed \subseteq Epochs \X Uids /\ torn \subseteq Epochs \X Uids
  /\ behind \subseteq Uids

Init ==
  /\ server = [validity |-> 1, next |-> 1, modseq |-> 1]
  /\ mailbox = Nothing
  /\ folder = NoState /\ rows = Nothing
  /\ pc = "off" /\ serving = FALSE
  /\ sel = NoState /\ after = 0 /\ todo = {}
  /\ batch = Nothing /\ deltas = Nothing
  /\ queue = <<>> /\ writer = "up"
  /\ faults = 0
  /\ failed = {} /\ torn = {} /\ behind = {}

\* Stored messages of this incarnation that are live, with flags that are not
\* the server's.
Differing == {u \in DOMAIN rows \cap DOMAIN mailbox :
                rows[u].epoch = server.validity /\ rows[u].mod # mailbox[u]}

\* What an interrupted pass has left in the queue: it will be stored later, with
\* the flags it was fetched with.
Queued == {queue[i].uid : i \in DOMAIN queue}

Fault == faults < MaxFaults /\ faults' = faults + 1

-----------------------------------------------------------------------------
(* The server.                                                             *)

Deliver ==
  /\ server.next \in Uids /\ server.modseq < MaxModSeq
  /\ server' = [server EXCEPT !.next = @ + 1, !.modseq = @ + 1]
  /\ mailbox' = [u \in DOMAIN mailbox \cup {server.next} |->
                   IF u = server.next THEN server.modseq + 1 ELSE mailbox[u]]
  /\ UNCHANGED <<folder, rows, pc, serving, passVars, queue, writer, faults,
                 failed, torn, behind>>

Expunge ==
  /\ \E u \in DOMAIN mailbox :
       mailbox' = [v \in DOMAIN mailbox \ {u} |-> mailbox[v]]
  /\ UNCHANGED <<server, folder, rows, pc, serving, passVars, queue, writer,
                 faults, failed, torn, behind>>

\* Another client of the mailbox changes the flags of a message.
ChangeFlags ==
  /\ server.modseq < MaxModSeq
  /\ server' = [server EXCEPT !.modseq = @ + 1]
  /\ \E u \in DOMAIN mailbox :
       mailbox' = [mailbox EXCEPT ![u] = server.modseq + 1]
  /\ UNCHANGED <<folder, rows, pc, serving, passVars, queue, writer, faults,
                 failed, torn, behind>>

\* The mailbox is recreated, or its uids are assigned anew.
Renumber ==
  /\ server.validity < MaxEpoch
  /\ ModSeqRestarts \/ server.modseq < MaxModSeq
  /\ \E n \in 0..Cardinality(DOMAIN mailbox) :
       LET m == IF ModSeqRestarts THEN 1 ELSE server.modseq + 1 IN
       /\ server' = [validity |-> server.validity + 1, next |-> n + 1, modseq |-> m]
       /\ mailbox' = [u \in 1..n |-> m]
  /\ UNCHANGED <<folder, rows, pc, serving, passVars, queue, writer, faults, failed,
                 torn, behind>>

Server == Deliver \/ Expunge \/ ChangeFlags \/ Renumber

-----------------------------------------------------------------------------
(* The worker between passes.                                              *)

\* Where the worker is when its pass ends, by success or by failure: runOnce goes
\* on or returns the error; runIDLE and runPoll come back later in either case.
Ends(next) ==
  /\ pc' = next
  /\ sel' = NoState /\ after' = 0 /\ todo' = {}
  /\ batch' = Nothing /\ deltas' = Nothing
  /\ queue' = [i \in DOMAIN queue |-> [queue[i] EXCEPT !.mine = FALSE]]

\* runOnce connects and registers the folder, with no validity and no cursor.
UpsertFolder(validity, next) ==
  folder' = [folder EXCEPT !.validity = validity, !.next = next]

RunOnce ==
  /\ pc = "off"
  /\ UpsertFolder(0, 0)
  /\ pc' = "select"
  /\ UNCHANGED <<serverVars, rows, serving, passVars, queue, writer, faults,
                 failed, torn, behind>>

\* Every folder is synced: runIDLE or runPoll takes over.
Serve ==
  /\ pc = "rest" /\ ~serving
  /\ serving' = TRUE
  /\ UNCHANGED <<serverVars, folder, rows, pc, passVars, queue, writer, faults,
                 failed, torn, behind>>

\* runOnce fails on another folder and is restarted by supervise.
RunOnceFails ==
  /\ pc = "rest" /\ ~serving
  /\ Fault
  /\ pc' = "off"
  /\ UNCHANGED <<serverVars, folder, rows, serving, passVars, queue, writer,
                 failed, torn, behind>>

\* A tick of runPoll, a session of runIDLE or an EXISTS notification.
Tick ==
  /\ pc = "rest" /\ serving
  /\ pc' = "select"
  /\ UNCHANGED <<serverVars, folder, rows, serving, passVars, queue, writer,
                 faults, failed, torn, behind>>

-----------------------------------------------------------------------------
(* A pass of syncFolder.                                                   *)

\* The connection's mailbox is still the one that was selected.
Selected == sel.validity = server.validity

\* A call of the pass fails; so does any call to a mailbox that was recreated. A
\* failed flag sweep is logged and does not fail the pass.
Fail ==
  /\ pc \in InPass
  /\ \/ Fault
     \/ ~Selected /\ pc \in {"search", "fetch", "submit", "flags"} /\ UNCHANGED faults
  /\ Ends(IF serving \/ pc \in {"flags", "apply"} THEN "rest" ELSE "off")
  /\ UNCHANGED <<serverVars, folder, rows, serving, writer, failed, torn, behind>>

\* The row of the folder is compared with the answer; if it cannot be read it
\* passes for a new one.
Select ==
  /\ pc = "select"
  /\ sel' = IF CondStore THEN server ELSE [server EXCEPT !.modseq = 0]
  /\ \/ /\ pc' = IF folder.validity \notin {0, server.validity} THEN "purge" ELSE "cursor"
        /\ UNCHANGED faults
     \/ Fault /\ pc' = "cursor"
  /\ UNCHANGED <<serverVars, folder, rows, serving, after, todo, batch, deltas,
                 queue, writer, failed, torn, behind>>

DeleteMessagesByFolder ==
  /\ pc = "purge"
  /\ rows' = Nothing
  /\ pc' = "cursor"
  /\ behind' = behind \cap Queued
  /\ torn' = IF queue = <<>> THEN torn
             ELSE torn \cup {sel.validity} \X {u \in Uids : \E v \in DOMAIN rows : v >= u}
  /\ UNCHANGED <<serverVars, folder, serving, passVars, queue, writer, faults, failed>>

\* Mutant: the cursor resumes at the checkpoint of the folder's row.
ResumeFromCheckpoint ==
  /\ pc = "cursor"
  /\ after' = IF folder.next = 0 THEN 0 ELSE folder.next - 1
  /\ pc' = "search"
  /\ UNCHANGED <<serverVars, folder, rows, serving, sel, todo, batch, deltas,
                 queue, writer, faults, failed, torn, behind>>

MaxUIDByFolder ==
  /\ pc = "cursor"
  /\ after' = IF rows = Nothing THEN 0 ELSE Max(DOMAIN rows)
  /\ pc' = "search"
  /\ UNCHANGED <<serverVars, folder, rows, serving, sel, todo, batch, deltas,
                 queue, writer, faults, failed, torn, behind>>

\* Mutant: the filter on the answer takes the next uid for a known one.
UIDsAboveNext ==
  /\ pc = "search" /\ Selected
  /\ LET live == {u \in DOMAIN mailbox : u > after + 1} IN
     /\ todo' = live
     /\ IF live = {} THEN UpsertFolder(sel.validity, sel.next) /\ pc' = "flags"
                     ELSE UNCHANGED folder /\ pc' = "fetch"
  /\ UNCHANGED <<serverVars, rows, serving, sel, after, batch, deltas, queue,
                 writer, faults, failed, torn, behind>>

\* SEARCH; if there is nothing new, the checkpoint is written at once.
UIDsAbove ==
  /\ pc = "search" /\ Selected
  /\ LET live == {u \in DOMAIN mailbox : u > after} IN
     /\ todo' = live
     /\ IF live = {} THEN UpsertFolder(sel.validity, sel.next) /\ pc' = "flags"
                     ELSE UNCHANGED folder /\ pc' = "fetch"
  /\ UNCHANGED <<serverVars, rows, serving, sel, after, batch, deltas, queue,
                 writer, faults, failed, torn, behind>>

\* The uids of the next chunk: the BatchSize lowest ones.
Chunk == {u \in todo : Cardinality({v \in todo : v < u}) < BatchSize}

\* FETCH of the chunk; messages expunged meanwhile are not in the answer. The
\* server answers in ascending order.
FetchByUIDs ==
  /\ pc = "fetch" /\ Selected
  /\ batch' = [u \in Chunk \cap DOMAIN mailbox |-> mailbox[u]]
  /\ todo' = todo \ Chunk
  /\ after' = IF DOMAIN batch' = {} THEN after ELSE Max(DOMAIN batch')
  /\ pc' = "submit"
  /\ UNCHANGED <<serverVars, folder, rows, serving, sel, deltas, queue, writer,
                 faults, failed, torn, behind>>

\* Mutant: the queue has no bound.
SubmitUnbounded ==
  /\ pc = "submit" /\ batch # Nothing
  /\ LET u == Min(DOMAIN batch) IN
     /\ queue' = Append(queue, [uid |-> u, epoch |-> sel.validity,
                                mod |-> batch[u], mine |-> TRUE])
     /\ batch' = [v \in DOMAIN batch \ {u} |-> batch[v]]
  /\ UNCHANGED <<serverVars, folder, rows, pc, serving, sel, after, todo, deltas,
                 writer, faults, failed, torn, behind>>

\* Blocks while the queue is full.
Submit ==
  /\ pc = "submit" /\ batch # Nothing
  /\ Len(queue) < QueueCap
  /\ LET u == Min(DOMAIN batch) IN
     /\ queue' = Append(queue, [uid |-> u, epoch |-> sel.validity,
                                mod |-> batch[u], mine |-> TRUE])
     /\ batch' = [v \in DOMAIN batch \ {u} |-> batch[v]]
  /\ UNCHANGED <<serverVars, folder, rows, pc, serving, sel, after, todo, deltas,
                 writer, faults, failed, torn, behind>>

Submitted ==
  /\ pc = "submit" /\ batch = Nothing
  /\ pc' = "drain"
  /\ UNCHANGED <<serverVars, folder, rows, serving, passVars, queue, writer,
                 faults, failed, torn, behind>>

\* All messages of the batch are acknowledged: the checkpoint is written.
Checkpoint ==
  /\ pc = "drain"
  /\ \A i \in DOMAIN queue : ~queue[i].mine
  /\ UpsertFolder(sel.validity, IF after + 1 < sel.next THEN sel.next ELSE after + 1)
  /\ pc' = IF todo = {} THEN "flags" ELSE "fetch"
  /\ UNCHANGED <<serverVars, rows, serving, passVars, queue, writer, faults,
                 failed, torn, behind>>

-----------------------------------------------------------------------------
(* The flag sweep at the end of a pass, syncFlagDeltas.                    *)

\* The server has no mod-sequences, or nothing changed since the watermark.
NoSweep ==
  /\ pc = "flags"
  /\ sel.modseq = 0 \/ (folder.modseq # 0 /\ folder.modseq >= sel.modseq)
  /\ Ends("rest")
  /\ UNCHANGED <<serverVars, folder, rows, serving, writer, faults, failed, torn, behind>>

\* The watermark is set for the first time, and the changes before it skipped.
SetBaseline ==
  /\ pc = "flags"
  /\ sel.modseq # 0 /\ folder.modseq = 0
  /\ folder' = [folder EXCEPT !.modseq = sel.modseq]
  /\ behind' = behind \cup Differing \cup Queued
  /\ Ends("rest")
  /\ UNCHANGED <<serverVars, rows, serving, writer, faults, failed, torn>>

FetchFlagsChangedSince ==
  /\ pc = "flags" /\ Selected
  /\ sel.modseq # 0 /\ folder.modseq # 0 /\ folder.modseq < sel.modseq
  /\ deltas' = [u \in {v \in DOMAIN mailbox : mailbox[v] > folder.modseq} |-> mailbox[u]]
  /\ pc' = "apply"
  /\ UNCHANGED <<serverVars, folder, rows, serving, sel, after, todo, batch, queue,
                 writer, faults, failed, torn, behind>>

\* A change to a message that is not stored is ignored, and so is one that cannot
\* be written.
UpdateFlagsByUID ==
  /\ pc = "apply"
  /\ \E u \in DOMAIN deltas :
       /\ deltas' = [v \in DOMAIN deltas \ {u} |-> deltas[v]]
       /\ \/ /\ u \in DOMAIN rows
             /\ rows' = [rows EXCEPT ![u].mod = deltas[u]]
             /\ behind' = behind \ {u}
             /\ UNCHANGED faults
          \/ /\ u \notin DOMAIN rows
             /\ behind' = behind \cup ({u} \cap Queued)
             /\ UNCHANGED <<rows, faults>>
          \/ /\ u \in DOMAIN rows /\ Fault
             /\ behind' = behind \cup {u}
             /\ UNCHANGED rows
  /\ UNCHANGED <<serverVars, folder, pc, serving, sel, after, todo, batch, queue,
                 writer, failed, torn>>

\* Mutant: the watermark moves to the server's current mod-sequence.
WatermarkNow ==
  /\ pc = "apply" /\ deltas = Nothing
  /\ folder' = [folder EXCEPT !.modseq = server.modseq]
  /\ Ends("rest")
  /\ UNCHANGED <<serverVars, rows, serving, writer, faults, failed, torn, behind>>

\* The watermark only ever grows.
SetFolderHighestModSeq ==
  /\ pc = "apply" /\ deltas = Nothing
  /\ folder' = [folder EXCEPT !.modseq = IF @ < sel.modseq THEN sel.modseq ELSE @]
  /\ Ends("rest")
  /\ UNCHANGED <<serverVars, rows, serving, writer, faults, failed, torn, behind>>

Pass ==
  \/ Select \/ DeleteMessagesByFolder \/ MaxUIDByFolder \/ UIDsAbove
  \/ FetchByUIDs \/ Submit \/ Submitted \/ Checkpoint
  \/ NoSweep \/ SetBaseline \/ FetchFlagsChangedSince \/ UpdateFlagsByUID
  \/ SetFolderHighestModSeq

-----------------------------------------------------------------------------
(* The store writer.                                                       *)

Id(item) == <<item.epoch, item.uid>>

\* The message at the head is inserted, unless its uid is taken, or is dropped.
Process ==
  /\ writer = "up" /\ queue # <<>>
  /\ queue' = Tail(queue)
  /\ LET m == Head(queue)  u == m.uid IN
     \/ /\ u \notin DOMAIN rows
        /\ rows' = [v \in DOMAIN rows \cup {u} |->
                      IF v = u THEN [epoch |-> m.epoch, mod |-> m.mod] ELSE rows[v]]
        /\ UNCHANGED <<failed, faults>>
     \/ /\ u \in DOMAIN rows
        /\ failed' = IF rows[u].epoch = m.epoch THEN failed ELSE failed \cup {Id(m)}
        /\ UNCHANGED <<rows, faults>>
     \/ /\ u \notin DOMAIN rows /\ Fault
        /\ failed' = failed \cup {Id(m)}
        /\ UNCHANGED rows
  /\ UNCHANGED <<serverVars, folder, pc, serving, passVars, writer, torn, behind>>

\* A panic is recovered from at the end of Run: the goroutine is gone.
Panic ==
  /\ Panics
  /\ writer = "up" /\ queue # <<>>
  /\ Fault
  /\ queue' = Tail(queue)
  /\ failed' = failed \cup {Id(Head(queue))}
  /\ writer' = "dead"
  /\ UNCHANGED <<serverVars, folder, rows, pc, serving, passVars, torn, behind>>

-----------------------------------------------------------------------------
(* The process.                                                            *)

\* The contexts are cancelled. The writer may write what is queued until the
\* process is gone, which, if it was killed, is at once.
Stop ==
  /\ pc # "down"
  /\ Fault
  /\ Ends("down")
  /\ serving' = FALSE
  /\ UNCHANGED <<serverVars, folder, rows, writer, failed, torn, behind>>

Restart ==
  /\ pc = "down"
  /\ pc' = "off"
  /\ queue' = <<>> /\ writer' = "up"
  /\ UNCHANGED <<serverVars, folder, rows, serving, passVars, faults, failed, torn, behind>>

Next ==
  \/ Server
  \/ RunOnce \/ Serve \/ RunOnceFails \/ Tick
  \/ Fail \/ Pass
  \/ Process \/ Panic
  \/ Stop \/ Restart

Spec == Init /\ [][Next]_vars

\* Passes follow one another and run to their end (runPoll ticks every 30 seconds
\* and runIDLE reconnects at least every 25 minutes; a call on a dead connection
\* returns), the writer serves its queue, a stopped process is started again.
FairSpec ==
  /\ Spec
  /\ WF_vars(RunOnce \/ Serve \/ Tick) /\ WF_vars(Pass)
  /\ WF_vars(Fail /\ ~Selected) /\ WF_vars(Process) /\ WF_vars(Restart)

-----------------------------------------------------------------------------
(* Properties.                                                             *)

\* Stored as itself, not under the uid of another incarnation.
Stored(u) == u \in DOMAIN rows /\ rows[u].epoch = server.validity

\* A row of another incarnation of the mailbox holds the cursor above u.
Shadowed(u) == \E v \in DOMAIN rows : v >= u /\ rows[v].epoch # server.validity

\* The cursor has passed a live message that is not stored, nor dropped by the
\* writer, nor hidden by a row of an older incarnation.
Skipped(u) ==
  /\ u \in DOMAIN mailbox /\ \E v \in DOMAIN rows : v > u
  /\ ~Stored(u) /\ <<server.validity, u>> \notin failed /\ ~Shadowed(u)

\* No message is skipped by a lost connection, a stop of the process or a batch
\* left in the queue, unless a purge removed it amid its batch.
NoneSkipped ==
  \A u \in Uids : Skipped(u) => <<server.validity, u>> \in torn

\* The flags of a stored message are the server's, or were changed after the
\* watermark, so that the next sweep will see the change; but for the changes
\* that a sweep passed over and the messages queued behind its back.
FlagsUpToWatermark ==
  \A u \in Differing :
    mailbox[u] > folder.modseq \/ u \in behind

\* Every message that stays in the mailbox is stored in the end, but for the ones
\* that a dropped message or an older incarnation hides from the cursor, and for
\* a writer that has panicked: it comes back with the process only.
MailArrives ==
  <>[](\/ writer = "dead"
       \/ \A u \in DOMAIN mailbox :
            Stored(u) \/ <<server.validity, u>> \in failed \cup torn \/ Shadowed(u))
=============================================================================
