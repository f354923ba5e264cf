------------------------------- MODULE FlagSync -------------------------------
(***************************************************************************)
(* The flags of an account's messages, which change on both sides: a       *)
(* request of the user changes the database first and then queues one      *)
(* operation per folder, which the account worker turns into a STORE;      *)
(* other clients change the server, and the sweeps of syncFlagDeltas bring *)
(* the changes into the database. A request is one transaction, then one   *)
(* step per operation; a sweep is one step per answer and transaction.     *)
(*                                                                         *)
(* The messages are those of one thread, all synced, and no folder is      *)
(* renumbered (see FolderSync); each folder has had its first watermark.   *)
(***************************************************************************)
EXTENDS Integers, Sequences, FiniteSets, SequencesExt

CONSTANTS
  Msgs, Folders,
  FolderOf,     \* the folder of a message
  Latest,       \* the message of the thread with the latest date
  Handlers,     \* API requests that may run at the same time
  None,         \* no folder
  QueueCap,     \* capacity of AccountWorker.flagOps
  MaxRequests,  \* bound: requests of the user
  MaxChanges,   \* bound: mod-sequences at which other clients change flags
  MaxFaults     \* bound: failed calls, broken connections, restarts

ASSUME ConstantsAssumption ==
  /\ FolderOf \in [Msgs -> Folders] /\ Latest \in Msgs
  /\ None \notin Folders
  /\ QueueCap \in Nat \ {0}
  /\ {MaxRequests, MaxChanges, MaxFaults} \subseteq Nat

VARIABLES
  \* The server.
  server,      \* message -> flags and mod-sequence
  modseq,      \* HIGHESTMODSEQ of each folder
  \* The database.
  db,          \* message -> flags
  watermark,   \* folders.highest_modseq
  \* The requests and the queue.
  handler,     \* operations each request still has to submit
  queue,       \* AccountWorker.flagOps
  \* The account worker's main connection.
  serving,     \* whether runOnce has reached its loop
  link,        \* whether the connection is alive
  selected,    \* the mailbox the server has selected on it
  currentSel,  \* the mailbox runOnce believes selected
  storing,     \* the operation in hand, as a sequence of at most one
  \* The sweep, of which syncMu lets one run at a time.
  sweep,       \* its point, its folder, the mod-sequence SELECT told
  deltas,      \* changes fetched and still to be applied
  requests, faults,  \* so far
  \* History.
  diverged     \* messages with an operation or a change that was dropped

serverVars == <<server, modseq>>
dbVars     == <<db, watermark>>
workerVars == <<serving, link, selected, currentSel, storing>>
sweepVars  == <<sweep, deltas>>
vars == <<serverVars, dbVars, handler, queue, workerVars, sweepVars, requests, faults,
          diverged>>

Flags == {"Seen", "Flagged"}
In(f) == {m \in Msgs : FolderOf[m] = f}

\* flagop.Op, with messages for their uids.
Op(f, S, add, flag) == [folder |-> f, msgs |-> S, add |-> add, flag |-> flag]
Ops == [folder : Folders, msgs : SUBSET Msgs, add : BOOLEAN, flag : Flags]

Sweep(pc, f, n) == [pc |-> pc, folder |-> f, modseq |-> n]
NoSweep == Sweep("idle", None, 0)

TypeOK ==
  /\ server \in [Msgs -> [flags : SUBSET Flags, mod : Nat]]
  /\ modseq \in [Folders -> Nat]
  /\ db \in [Msgs -> SUBSET Flags]
  /\ watermark \in [Folders -> Nat]
  /\ handler \in [Handlers -> SUBSET Ops]
  /\ queue \in Seq(Ops) /\ Len(queue) <= QueueCap
  /\ {serving, link} \subseteq BOOLEAN
  /\ selected \in Folders \cup {None} /\ currentSel \in Folders \cup {None}
  /\ storing \in Seq(Ops) /\ Len(storing) <= 1
  /\ sweep \in [pc : {"idle", "fetch", "apply"}, folder : Folders \cup {None},
                modseq : Nat]
  /\ DOMAIN deltas \subseteq Msgs /\ deltas \in [DOMAIN deltas -> SUBSET Flags]
  /\ requests \in 0..MaxRequests /\ faults \in 0..MaxFaults
  /\ diverged \subseteq Msgs

Init ==
  /\ server = [m \in Msgs |-> [flags |-> {}, mod |-> 1]]
  /\ modseq = [f \in Folders |-> 1]
  /\ db = [m \in Msgs |-> {}] /\ watermark = [f \in Folders |-> 1]
  /\ handler = [h \in Handlers |-> {}] /\ queue = <<>>
  /\ serving = FALSE /\ link = FALSE /\ selected = None /\ currentSel = None
  /\ storing = <<>>
  /\ sweep = NoSweep /\ deltas = <<>>
  /\ requests = 0 /\ faults = 0 /\ diverged = {}

Fault == faults < MaxFaults /\ faults' = faults + 1

\* An operation is given up, with a warning in the log.
Drop(op) == diverged' = diverged \cup op.msgs

-----------------------------------------------------------------------------
(* The server.                                                             *)

With(flags, op) == IF op.add THEN flags \cup {op.flag} ELSE flags \ {op.flag}

\* STORE. The messages it changes get the next mod-sequence of their folder.
Store(op) ==
  LET S == {m \in op.msgs : With(server[m].flags, op) # server[m].flags}
      n == modseq[op.folder] + 1
  IN
  IF S = {} THEN UNCHANGED serverVars
  ELSE /\ modseq' = [modseq EXCEPT ![op.folder] = n]
       /\ server' = [m \in Msgs |->
            IF m \in S THEN [flags |-> With(server[m].flags, op), mod |-> n]
            ELSE server[m]]

OtherClient ==
  /\ \E m \in Msgs, add \in BOOLEAN, flag \in Flags :
       LET op == Op(FolderOf[m], {m}, add, flag) IN
       /\ modseq[FolderOf[m]] <= MaxChanges
       /\ With(server[m].flags, op) # server[m].flags
       /\ Store(op)
  /\ UNCHANGED <<dbVars, handler, queue, workerVars, sweepVars, requests, faults,
                 diverged>>

-----------------------------------------------------------------------------
(* The user's requests.                                                    *)

\* One transaction changes S, then the operations are to be submitted: one per
\* folder, since uids are the folder's.
Request(h, S, add, flag) ==
  /\ handler[h] = {} /\ requests < MaxRequests
  /\ requests' = requests + 1
  /\ db' = [m \in Msgs |->
       IF m \in S THEN With(db[m], Op(FolderOf[m], {m}, add, flag)) ELSE db[m]]
  /\ handler' = [handler EXCEPT ![h] =
       {Op(f, S \cap In(f), add, flag) : f \in {FolderOf[m] : m \in S}}]
  /\ UNCHANGED <<serverVars, watermark, queue, workerVars, sweepVars, faults, diverged>>

\* MarkRead of some messages; MarkFolderRead of a folder's.
MarkRead(h) ==
  \E S \in SUBSET Msgs :
    LET unread == {m \in S : "Seen" \notin db[m]} IN
    /\ unread # {}
    /\ Request(h, unread, TRUE, "Seen")

\* The star is taken from every message that has it, or given to the latest.
ToggleThreadFlagged(h) ==
  LET flagged == {m \in Msgs : "Flagged" \in db[m]} IN
  IF flagged # {} THEN Request(h, flagged, FALSE, "Flagged")
                  ELSE Request(h, {Latest}, TRUE, "Flagged")

\* Mutant: the queue has no bound.
SubmitUnbounded(h) ==
  \E op \in handler[h] :
    /\ queue' = Append(queue, op)
    /\ handler' = [handler EXCEPT ![h] = @ \ {op}]
    /\ UNCHANGED <<serverVars, dbVars, workerVars, sweepVars, requests, faults, diverged>>

SubmitFlagOp(h) ==
  \E op \in handler[h] :
    /\ Len(queue) < QueueCap
    /\ queue' = Append(queue, op)
    /\ handler' = [handler EXCEPT ![h] = @ \ {op}]
    /\ UNCHANGED <<serverVars, dbVars, workerVars, sweepVars, requests, faults, diverged>>

\* The queue stays full for two seconds; or the request is cancelled, or the
\* account has no worker. The request succeeds all the same.
FlagOpDropped(h) ==
  \E op \in handler[h] :
    /\ \/ Len(queue) = QueueCap /\ UNCHANGED faults
       \/ Fault
    /\ handler' = [handler EXCEPT ![h] = @ \ {op}]
    /\ Drop(op)
    /\ UNCHANGED <<serverVars, dbVars, queue, workerVars, sweepVars, requests>>

-----------------------------------------------------------------------------
(* The account worker.                                                     *)

\* runOnce has synced every folder, the last of which is selected.
Serve ==
  /\ ~serving
  /\ serving' = TRUE /\ link' = TRUE
  /\ selected' \in Folders /\ currentSel' = None
  /\ UNCHANGED <<serverVars, dbVars, handler, queue, storing, sweepVars, requests,
                 faults, diverged>>

\* The connection breaks; runOnce does not notice, nor end.
Break ==
  /\ link
  /\ Fault
  /\ link' = FALSE
  /\ UNCHANGED <<serverVars, dbVars, handler, queue, serving, selected, currentSel,
                 storing, sweepVars, requests, diverged>>

\* The folder's name is looked up; an operation on an unknown one is dropped.
TakeOp ==
  /\ serving /\ storing = <<>> /\ queue # <<>>
  /\ queue' = Tail(queue)
  /\ \/ storing' = <<Head(queue)>> /\ UNCHANGED <<faults, diverged>>
     \/ Fault /\ Drop(Head(queue)) /\ UNCHANGED storing
  /\ UNCHANGED <<serverVars, dbVars, handler, serving, link, selected, currentSel,
                 sweepVars, requests>>

\* Mutant: the mailbox is believed selected before the answer.
SelectBelieved ==
  /\ storing # <<>> /\ currentSel # storing[1].folder
  /\ currentSel' = storing[1].folder
  /\ \/ link /\ selected' = currentSel' /\ UNCHANGED <<storing, faults, diverged>>
     \/ /\ Fault \/ (~link /\ UNCHANGED faults)
        /\ selected' \in {selected, None}
        /\ storing' = <<>>
        /\ Drop(storing[1])
  /\ UNCHANGED <<serverVars, dbVars, handler, queue, serving, link, sweepVars, requests>>

\* A server that refuses SELECT may or may not leave the old mailbox selected.
Select ==
  /\ storing # <<>> /\ currentSel # storing[1].folder
  /\ \/ /\ link
        /\ currentSel' = storing[1].folder /\ selected' = currentSel'
        /\ UNCHANGED <<storing, faults, diverged>>
     \/ /\ Fault \/ (~link /\ UNCHANGED faults)
        /\ selected' \in {selected, None}
        /\ storing' = <<>>
        /\ Drop(storing[1])
        /\ UNCHANGED currentSel
  /\ UNCHANGED <<serverVars, dbVars, handler, queue, serving, link, sweepVars, requests>>

\* A STORE that fails, or that no mailbox is selected for, is not repeated, even if
\* only its answer was lost.
StoreFlags ==
  /\ storing # <<>> /\ currentSel = storing[1].folder
  /\ storing' = <<>>
  /\ \/ /\ link /\ selected = currentSel
        /\ Store(storing[1])
        /\ UNCHANGED <<faults, diverged>>
     \/ /\ Fault /\ link /\ selected = currentSel
        /\ Store(storing[1])
        /\ Drop(storing[1])
     \/ /\ Fault \/ ((~link \/ selected # currentSel) /\ UNCHANGED faults)
        /\ Drop(storing[1])
        /\ UNCHANGED serverVars
  /\ UNCHANGED <<dbVars, handler, queue, serving, link, selected, currentSel, sweepVars,
                 requests>>

-----------------------------------------------------------------------------
(* The sweep of a folder, syncFlagDeltas.                                  *)

\* Mutant: news of a single change is not noticed.
BeginSweepLate(f) ==
  /\ sweep = NoSweep
  /\ watermark[f] + 1 < modseq[f]
  /\ sweep' = Sweep("fetch", f, modseq[f])
  /\ UNCHANGED <<serverVars, dbVars, handler, queue, workerVars, deltas, requests,
                 faults, diverged>>

\* The pass has selected the folder, and the server has news.
BeginSweep(f) ==
  /\ sweep = NoSweep
  /\ watermark[f] < modseq[f]
  /\ sweep' = Sweep("fetch", f, modseq[f])
  /\ UNCHANGED <<serverVars, dbVars, handler, queue, workerVars, deltas, requests,
                 faults, diverged>>

FetchFlagsChangedSince ==
  LET f == sweep.folder IN
  /\ sweep.pc = "fetch"
  /\ deltas' = [m \in {d \in In(f) : server[d].mod > watermark[f]} |-> server[m].flags]
  /\ sweep' = [sweep EXCEPT !.pc = "apply"]
  /\ UNCHANGED <<serverVars, dbVars, handler, queue, workerVars, requests, faults,
                 diverged>>

\* The server's flags replace the row's, whatever is still queued for it. A change
\* that cannot be written is skipped.
UpdateFlagsByUID ==
  /\ sweep.pc = "apply"
  /\ \E m \in DOMAIN deltas :
       /\ deltas' = [d \in DOMAIN deltas \ {m} |-> deltas[d]]
       /\ \/ /\ db' = [db EXCEPT ![m] = deltas[m]]
             /\ diverged' = diverged \ {m}
             /\ UNCHANGED faults
          \/ /\ Fault
             /\ diverged' = diverged \cup {m}
             /\ UNCHANGED db
  /\ UNCHANGED <<serverVars, watermark, handler, queue, workerVars, sweep, requests>>

\* Mutant: the watermark moves to the server's current mod-sequence.
SetWatermarkNow ==
  /\ sweep.pc = "apply" /\ DOMAIN deltas = {}
  /\ watermark' = [watermark EXCEPT ![sweep.folder] = modseq[sweep.folder]]
  /\ sweep' = NoSweep /\ deltas' = <<>>
  /\ UNCHANGED <<serverVars, db, handler, queue, workerVars, requests, faults, diverged>>

SetFolderHighestModSeq ==
  /\ sweep.pc = "apply" /\ DOMAIN deltas = {}
  /\ watermark' = [watermark EXCEPT ![sweep.folder] = sweep.modseq]
  /\ sweep' = NoSweep /\ deltas' = <<>>
  /\ UNCHANGED <<serverVars, db, handler, queue, workerVars, requests, faults, diverged>>

\* The pass fails: the watermark stays, the changes will be fetched again.
SweepFails ==
  /\ sweep # NoSweep
  /\ Fault
  /\ sweep' = NoSweep /\ deltas' = <<>>
  /\ UNCHANGED <<serverVars, dbVars, handler, queue, workerVars, requests, diverged>>

-----------------------------------------------------------------------------
\* Operations on their way from a request to the server.
Pending == (UNION {handler[h] : h \in Handlers}) \cup ToSet(queue) \cup ToSet(storing)

\* The process stops and starts again.
Restart ==
  /\ Fault
  /\ handler' = [h \in Handlers |-> {}] /\ queue' = <<>> /\ storing' = <<>>
  /\ diverged' = diverged \cup (UNION {op.msgs : op \in Pending})
  /\ serving' = FALSE /\ link' = FALSE /\ selected' = None /\ currentSel' = None
  /\ sweep' = NoSweep /\ deltas' = <<>>
  /\ UNCHANGED <<serverVars, dbVars, requests>>

User(h)   == MarkRead(h) \/ ToggleThreadFlagged(h)
Submit(h) == SubmitFlagOp(h) \/ FlagOpDropped(h)
Drain     == TakeOp \/ Select \/ StoreFlags
SweepStep ==
  \/ \E f \in Folders : BeginSweep(f)
  \/ FetchFlagsChangedSince \/ UpdateFlagsByUID \/ SetFolderHighestModSeq

Next ==
  \/ OtherClient
  \/ \E h \in Handlers : User(h) \/ Submit(h)
  \/ Serve \/ Break \/ Drain
  \/ SweepStep \/ SweepFails
  \/ Restart

Spec == Init /\ [][Next]_vars

\* Requests end, the worker comes to serve and serves its queue, and passes follow
\* one another in every folder.
FairSpec ==
  /\ Spec
  /\ \A h \in Handlers : WF_vars(Submit(h))
  /\ WF_vars(Serve) /\ WF_vars(Drain) /\ WF_vars(SweepStep)

-----------------------------------------------------------------------------
(* Properties.                                                             *)

Agrees(m) == db[m] = server[m].flags

\* Where the two sides differ on a message, an operation or a sweep that will make
\* them agree is under way, but for the messages a change of which was dropped.
DifferencesAreUnderWay ==
  \A m \in Msgs :
    \/ Agrees(m)
    \/ server[m].mod > watermark[FolderOf[m]]
    \/ \E op \in Pending : m \in op.msgs
    \/ m \in diverged

\* A STORE is never sent to a mailbox other than its own, whatever has become of
\* the SELECTs before it.
StoresGoToTheirFolder ==
  \A i \in DOMAIN storing :
    currentSel = storing[i].folder => selected \in {storing[i].folder, None}

\* Database and server agree in the end on every message, whoever changed it, but
\* for the dropped changes.
FlagsConverge == <>[](\A m \in Msgs : Agrees(m) \/ m \in diverged)
=============================================================================
