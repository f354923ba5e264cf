----------------------------- MODULE BlobStore ------------------------------
(***************************************************************************)
(* The content-addressed blob store and every operation that takes or      *)
(* drops a reference to it: the attachment downloader, the capture of raw  *)
(* messages (at sync time and on demand), the backfill of legacy           *)
(* attachments, the two paths that clear a link whose file went missing,   *)
(* the deletion of a folder's or an account's messages, the retention      *)
(* sweep of raw captures and the garbage collection of unreferenced blobs. *)
(*                                                                         *)
(* Every SQL transaction is one step (the store has a single writer        *)
(* connection); between two transactions of an operation, and around each  *)
(* file system call, any other operation may run, and the process may stop.*)
(*                                                                         *)
(* Row ids are abstracted. An attachment and a message are named by their  *)
(* row id, which SQLite hands out again after a delete, so a row deleted   *)
(* and inserted anew keeps its name. A blob is named by its content; a     *)
(* candidate of the garbage collector whose row was meanwhile deleted by   *)
(* the other collector is marked stale, since its id may name any row.     *)
(***************************************************************************)
EXTENDS Integers, FiniteSets

CONSTANTS
  Blobs,        \* contents
  Atts,         \* attachment row ids
  Msgs,         \* message row ids
  Null,         \* SQL's NULL, and no row
  MsgOf,        \* the message an attachment belongs to
  PartBytes,    \* contents a fetch of the attachment's part may return
  RawBytes,     \* contents a fetch of the whole message may return
  Scopes,       \* sets of messages deleted together: a folder, an account
  LegacyMsgs,   \* messages of a database that predates the blob store
  Workers,      \* goroutines that download, capture, open or back-fill
  MaxRefcount,  \* bound: references ever counted for one blob
  MaxFaults,    \* bound: failed transactions, crashes and disk losses
  DiskLoss      \* whether files may vanish behind the program's back

ASSUME FinitenessAssumption ==
  IsFiniteSet(Atts) /\ IsFiniteSet(Msgs) /\ IsFiniteSet(Workers)

ASSUME ConstantsAssumption ==
  /\ Null \notin Blobs \cup Atts \cup Msgs
  /\ MsgOf \in [Atts -> Msgs]
  /\ PartBytes \in [Atts -> SUBSET Blobs]
  /\ RawBytes \in [Msgs -> SUBSET Blobs]
  /\ Scopes \subseteq SUBSET Msgs
  /\ LegacyMsgs \subseteq Msgs
  /\ MaxRefcount \in Nat /\ MaxFaults \in Nat
  /\ DiskLoss \in BOOLEAN

VARIABLES
  \* The database.
  rows,         \* contents with a row in blobs
  refcount,     \* blobs.refcount; 0 where there is no row
  messages,     \* rows of messages
  rawBlob,      \* messages.raw_blob_id
  attachments,  \* rows of attachments
  attBlob,      \* attachments.blob_id
  localPath,    \* attachments with a legacy local_path
  \* The disk.
  files,        \* contents with a file at BlobPath
  \* The process.
  worker,       \* the operation each worker is in
  sweeper,      \* the garbage collections of the two sweeping goroutines
  due,          \* raw links the retention sweep cleared and must decrement
  faults,       \* faults so far
  \* History.
  leaked,       \* units of refcount whose holder is gone for good
  lost          \* contents whose file was removed while somebody relied on it

refVars  == <<rawBlob, attBlob, localPath>>
liveVars == <<messages, attachments>>
vars == <<rows, refcount, refVars, liveVars, files, worker, sweeper, due,
          faults, leaked, lost>>

-----------------------------------------------------------------------------
(* The state of an operation.                                              *)

Sweepers == {"maintenance", "raw"}
AttJobs  == {"download", "backfill", "open"}
MsgJobs  == {"capture", "view"}

Op(pc, job, row, blob) == [pc |-> pc, job |-> job, row |-> row, blob |-> blob]
Idle == Op("idle", "none", Null, Null)

Operations ==
  [pc : {"idle", "store", "insert", "link", "clear", "release"},
   job : AttJobs \cup MsgJobs \cup {"none"},
   row : Atts \cup Msgs \cup {Null}, blob : Blobs \cup {Null}]

Sweep(pc, cand, stale, blob) ==
  [pc |-> pc, cand |-> cand, stale |-> stale, blob |-> blob]

Sweeps ==
  [pc : {"idle", "list", "unlink", "delete", "done"},
   cand : SUBSET Blobs, stale : SUBSET Blobs, blob : Blobs \cup {Null}]

TypeOK ==
  /\ rows \subseteq Blobs
  /\ refcount \in [Blobs -> Nat]
  /\ messages \subseteq Msgs
  /\ rawBlob \in [Msgs -> Blobs \cup {Null}]
  /\ attachments \subseteq Atts
  /\ attBlob \in [Atts -> Blobs \cup {Null}]
  /\ localPath \subseteq Atts
  /\ files \subseteq Blobs
  /\ worker \in [Workers -> Operations]
  /\ sweeper \in [Sweepers -> Sweeps]
  /\ due \in [Msgs -> Blobs \cup {Null}]
  /\ faults \in Nat
  /\ leaked \in [Blobs -> Nat]
  /\ lost \subseteq Blobs

\* Who refers to a content: rows, and operations between their transactions.
AttRefs(b) == {a \in Atts : attBlob[a] = b}
RawRefs(b) == {m \in Msgs : rawBlob[m] = b}
DueRefs(b) == {m \in Msgs : due[m] = b}
Holds(op, b) == op.pc \in {"link", "release"} /\ op.blob = b
Holders(b)   == {w \in Workers : Holds(worker[w], b)}

Become(w, op) == worker' = [worker EXCEPT ![w] = op]

Init ==
  /\ rows = {} /\ refcount = [b \in Blobs |-> 0] /\ files = {}
  /\ messages = LegacyMsgs /\ rawBlob = [m \in Msgs |-> Null]
  /\ attachments = {a \in Atts : MsgOf[a] \in LegacyMsgs}
  /\ attBlob = [a \in Atts |-> Null]
  /\ localPath = attachments
  /\ worker = [w \in Workers |-> Idle]
  /\ sweeper = [s \in Sweepers |->
                  Sweep(IF s = "raw" THEN "idle" ELSE "list", {}, {}, Null)]
  /\ due = [m \in Msgs |-> Null]
  /\ faults = 0
  /\ leaked = [b \in Blobs |-> 0] /\ lost = {}

-----------------------------------------------------------------------------
(* Transactions on blobs, as the operations below use them.                *)

\* UPDATE blobs SET refcount = refcount - 1 WHERE id = b.
Decrement(b) == refcount' = [refcount EXCEPT ![b] = @ - 1]

\* A unit of b's refcount is never given back.
Leak(b) == leaked' = [leaked EXCEPT ![b] = @ + 1]

\* A reference to prev, possibly Null, is overwritten and forgotten.
Forget(prev) == IF prev = Null THEN UNCHANGED leaked ELSE Leak(prev)

Fault == faults < MaxFaults /\ faults' = faults + 1

-----------------------------------------------------------------------------
(* Operations start from a read of the read pool, which takes no lock.     *)

Start(w, op) ==
  /\ worker[w] = Idle
  /\ Become(w, op)
  /\ UNCHANGED <<rows, refcount, refVars, liveVars, files, sweeper, due,
                 faults, leaked, lost>>

\* AttachmentDownloader.runOnce: a pending row is listed, its part fetched.
StartDownload(w) ==
  \E a \in attachments : \E b \in PartBytes[a] :
    /\ attBlob[a] = Null /\ a \notin localPath
    /\ Start(w, Op("store", "download", a, b))

\* BackfillLegacyAttachments: the legacy file is opened, or found missing. The
\* one maintenance goroutine goes over the rows before it sweeps.
StartBackfill(w) ==
  /\ sweeper["maintenance"].pc = "list"
  /\ \A v \in Workers : worker[v].job # "backfill"
  /\ \E a \in attachments :
       /\ attBlob[a] = Null /\ a \in localPath
       /\ \/ \E b \in PartBytes[a] : Start(w, Op("store", "backfill", a, b))
          \/ Start(w, Op("clear", "backfill", a, Null))

\* StoreWriter.captureRaw of the message just inserted, or GetRawMessage of a
\* message whose slot is empty: the raw bytes are in hand.
StartCapture(w) ==
  \E m \in messages : \E b \in RawBytes[m] :
    /\ rawBlob[m] = Null
    /\ Start(w, Op("store", "capture", m, b))

\* GetAttachmentLocalPath finds that the blob's file, or the legacy file of a
\* row without a blob, is gone.
StartOpen(w) ==
  \E a \in attachments :
    /\ IF attBlob[a] # Null THEN attBlob[a] \notin files ELSE a \in localPath
    /\ Start(w, Op("clear", "open", a, attBlob[a]))

\* tryCached finds that the raw capture's file is gone.
StartView(w) ==
  \E m \in messages :
    /\ rawBlob[m] # Null /\ rawBlob[m] \notin files
    /\ Start(w, Op("clear", "view", m, rawBlob[m]))

-----------------------------------------------------------------------------
(* Taking a reference.                                                     *)

\* Mutant: the row, not the file, tells whether the bytes are already stored.
WriteUnlessCounted(w) ==
  LET op == worker[w] IN
  /\ op.pc = "store"
  /\ files' = IF op.blob \in rows THEN files ELSE files \cup {op.blob}
  /\ lost' = lost \ {op.blob}
  /\ Become(w, [op EXCEPT !.pc = "insert"])
  /\ UNCHANGED <<rows, refcount, refVars, liveVars, sweeper, due, faults, leaked>>

\* The file exists and is left alone, or a rename puts it there: either way it
\* is there at the moment the call takes effect.
WriteContentAddressed(w) ==
  LET op == worker[w] IN
  /\ op.pc = "store"
  /\ files' = files \cup {op.blob}
  /\ lost' = lost \ {op.blob}
  /\ Become(w, [op EXCEPT !.pc = "insert"])
  /\ UNCHANGED <<rows, refcount, refVars, liveVars, sweeper, due, faults, leaked>>

\* Mutant: an upsert that resets the count of a row it finds.
InsertOrReplaceBlob(w) ==
  LET op == worker[w] IN
  /\ op.pc = "insert"
  /\ rows' = rows \cup {op.blob}
  /\ refcount' = [refcount EXCEPT ![op.blob] = 1]
  /\ Become(w, [op EXCEPT !.pc = "link"])
  /\ UNCHANGED <<refVars, liveVars, files, sweeper, due, faults, leaked, lost>>

InsertOrIncBlob(w) ==
  LET op == worker[w] IN
  /\ op.pc = "insert"
  /\ refcount[op.blob] < MaxRefcount
  /\ rows' = rows \cup {op.blob}
  /\ refcount' = [refcount EXCEPT ![op.blob] = IF op.blob \in rows THEN @ + 1 ELSE 1]
  /\ Become(w, [op EXCEPT !.pc = "link"])
  /\ UNCHANGED <<refVars, liveVars, files, sweeper, due, faults, leaked, lost>>

\* The downloader and the backfill point the attachment at the blob. An UPDATE
\* that matches no row succeeds, and nobody gives the reference back.
UpdateAttachmentDownloaded(w) ==
  LET op == worker[w]  a == op.row  b == op.blob IN
  /\ op.pc = "link" /\ op.job \in {"download", "backfill"}
  /\ \/ /\ a \in attachments
        /\ attBlob' = [attBlob EXCEPT ![a] = b]
        /\ localPath' = localPath \ {a}
        /\ Forget(attBlob[a])
     \/ /\ a \notin attachments
        /\ UNCHANGED <<attBlob, localPath>>
        /\ Leak(b)
  /\ Become(w, Idle)
  /\ UNCHANGED <<rows, refcount, rawBlob, liveVars, files, sweeper, due, faults, lost>>

\* captureRaw and persistRaw link the message and give back the reference that
\* is one too many: the replaced one, their own, or their own for want of a row.
SetMessageRawBlob(w) ==
  LET op == worker[w]  m == op.row  b == op.blob
      GiveBack(c) == Become(w, [op EXCEPT !.pc = "release", !.blob = c])
  IN
  /\ op.pc = "link" /\ op.job = "capture"
  /\ \/ /\ m \in messages /\ rawBlob[m] = Null                  \* SetFresh
        /\ rawBlob' = [rawBlob EXCEPT ![m] = b]
        /\ Become(w, Idle)
     \/ /\ m \in messages /\ rawBlob[m] = b                     \* SetNoop
        /\ UNCHANGED rawBlob
        /\ GiveBack(b)
     \/ /\ m \in messages /\ rawBlob[m] \notin {Null, b}        \* SetReplaced
        /\ rawBlob' = [rawBlob EXCEPT ![m] = b]
        /\ GiveBack(rawBlob[m])
     \/ /\ m \notin messages                                    \* sql.ErrNoRows
        /\ UNCHANGED rawBlob
        /\ GiveBack(b)
  /\ UNCHANGED <<rows, refcount, attBlob, localPath, liveVars, files, sweeper,
                 due, faults, leaked, lost>>

-----------------------------------------------------------------------------
(* Dropping a reference.                                                   *)

\* The caller that saw a blob's file missing gives back whatever link the row
\* had when it was cleared; the two that saw a legacy file missing discard it.
ClearAttachmentBlob(w) ==
  LET op == worker[w]  a == op.row IN
  /\ op.pc = "clear" /\ op.job \in AttJobs
  /\ \/ /\ a \in attachments
        /\ attBlob' = [attBlob EXCEPT ![a] = Null]
        /\ localPath' = localPath \ {a}
        /\ \/ /\ op.blob # Null /\ attBlob[a] # Null
              /\ Become(w, [op EXCEPT !.pc = "release", !.blob = attBlob[a]])
              /\ UNCHANGED leaked
           \/ /\ op.blob = Null \/ attBlob[a] = Null
              /\ Become(w, Idle)
              /\ Forget(attBlob[a])
     \/ /\ a \notin attachments
        /\ Become(w, Idle)
        /\ UNCHANGED <<attBlob, localPath, leaked>>
  /\ UNCHANGED <<rows, refcount, rawBlob, liveVars, files, sweeper, due, faults, lost>>

ClearMessageRawBlob(w) ==
  LET op == worker[w]  m == op.row IN
  /\ op.pc = "clear" /\ op.job = "view"
  /\ \/ /\ m \in messages /\ rawBlob[m] # Null
        /\ rawBlob' = [rawBlob EXCEPT ![m] = Null]
        /\ Become(w, [op EXCEPT !.pc = "release", !.blob = rawBlob[m]])
     \/ /\ m \notin messages \/ rawBlob[m] = Null
        /\ Become(w, Idle)
        /\ UNCHANGED rawBlob
  /\ UNCHANGED <<rows, refcount, attBlob, localPath, liveVars, files, sweeper,
                 due, faults, leaked, lost>>

DecBlobRef(w) ==
  /\ worker[w].pc = "release"
  /\ Decrement(worker[w].blob)
  /\ Become(w, Idle)
  /\ UNCHANGED <<rows, refVars, liveVars, files, sweeper, due, faults, leaked, lost>>

\* A call of w's operation fails (a disk or database error, a cancelled
\* context). The backfill and the raw capture give their reference back when the
\* link cannot be written, the downloader does not; a failed DecBlobRef is
\* logged at most. Losing a reference is for good.
Fail(w) ==
  LET op == worker[w] IN
  /\ op # Idle
  /\ Fault
  /\ \/ /\ op.pc = "link" /\ op.job # "download"
        /\ Become(w, [op EXCEPT !.pc = "release"])
        /\ UNCHANGED leaked
     \/ /\ op.pc = "release" \/ (op.pc = "link" /\ op.job = "download")
        /\ Become(w, Idle)
        /\ Leak(op.blob)
     \/ /\ op.pc \in {"store", "insert", "clear"}
        /\ Become(w, Idle)
        /\ UNCHANGED leaked
  /\ UNCHANGED <<rows, refcount, refVars, liveVars, files, sweeper, due, lost>>

Operation(w) ==
  \/ StartDownload(w) \/ StartBackfill(w) \/ StartCapture(w)
  \/ StartOpen(w) \/ StartView(w)
  \/ WriteContentAddressed(w) \/ InsertOrIncBlob(w)
  \/ UpdateAttachmentDownloaded(w) \/ SetMessageRawBlob(w)
  \/ ClearAttachmentBlob(w) \/ ClearMessageRawBlob(w)
  \/ DecBlobRef(w) \/ Fail(w)

-----------------------------------------------------------------------------
(* Messages come and go, with their attachments, in one transaction each.  *)

InsertParsedMessageBundle ==
  \E m \in Msgs \ messages :
    /\ messages' = messages \cup {m}
    /\ attachments' = attachments \cup {a \in Atts : MsgOf[a] = m}
    /\ UNCHANGED <<rows, refcount, refVars, files, worker, sweeper, due, faults,
                   leaked, lost>>

\* Mutant: one UPDATE per blob of the scope, however many rows refer to it.
DecBlobRefsOnce(A, S) ==
  refcount' = [b \in Blobs |->
                 IF AttRefs(b) \cap A = {} THEN refcount[b] ELSE refcount[b] - 1]

\* decBlobRefs, for the attachments A and for the raw captures of the messages S.
DecBlobRefs(A, S) ==
  refcount' = [b \in Blobs |-> refcount[b] - Cardinality(AttRefs(b) \cap A)
                                           - Cardinality(RawRefs(b) \cap S)]

\* DeleteMessagesByFolder and DeleteAccount.
DeleteMessages ==
  \E S \in Scopes :
    LET A == {a \in Atts : MsgOf[a] \in S} IN
    /\ S \cap messages # {}
    /\ DecBlobRefs(A, S)
    /\ messages' = messages \ S
    /\ attachments' = attachments \ A
    /\ rawBlob' = [m \in Msgs |-> IF m \in S THEN Null ELSE rawBlob[m]]
    /\ attBlob' = [a \in Atts |-> IF a \in A THEN Null ELSE attBlob[a]]
    /\ localPath' = localPath \ A
    /\ UNCHANGED <<rows, files, worker, sweeper, due, faults, leaked, lost>>

-----------------------------------------------------------------------------
(* The retention sweep of raw captures, RawSweeper.sweepOnceAt.            *)

SetSweeper(s, sw) == sweeper' = [sweeper EXCEPT ![s] = sw]

\* Mutant: the expired links are listed and decremented, and left in place.
SweepExpiredRawKeepsLinks ==
  /\ sweeper["raw"].pc = "idle"
  /\ \E S \in SUBSET {m \in messages : rawBlob[m] # Null} :
       /\ S # {}
       /\ due' = [m \in Msgs |-> IF m \in S THEN rawBlob[m] ELSE Null]
  /\ SetSweeper("raw", [sweeper["raw"] EXCEPT !.pc = "list"])
  /\ UNCHANGED <<rows, refcount, refVars, liveVars, files, worker, faults,
                 leaked, lost>>

\* Which captures are old enough is not modelled: any set of them may be.
SweepExpiredRaw ==
  /\ sweeper["raw"].pc = "idle"
  /\ \E S \in SUBSET {m \in messages : rawBlob[m] # Null} :
       /\ S # {}
       /\ rawBlob' = [m \in Msgs |-> IF m \in S THEN Null ELSE rawBlob[m]]
       /\ due' = [m \in Msgs |-> IF m \in S THEN rawBlob[m] ELSE Null]
  /\ SetSweeper("raw", [sweeper["raw"] EXCEPT !.pc = "list"])
  /\ UNCHANGED <<rows, refcount, attBlob, localPath, liveVars, files, worker,
                 faults, leaked, lost>>

\* One DecBlobRef of the loop, which goes on if it fails.
DecDue(m) ==
  /\ due[m] # Null
  /\ due' = [due EXCEPT ![m] = Null]
  /\ \/ Decrement(due[m]) /\ UNCHANGED <<faults, leaked>>
     \/ Fault /\ Leak(due[m]) /\ UNCHANGED refcount
  /\ UNCHANGED <<rows, refVars, liveVars, files, worker, sweeper, lost>>

-----------------------------------------------------------------------------
(* The garbage collection, SweepBlobs. It runs in the maintenance goroutine*)
(* once per process, after the backfill, and in the raw sweeper whenever   *)
(* that one has cleared a capture.                                         *)

ZeroRefBlobs == {b \in rows : refcount[b] = 0}

\* The sweeper's state with the candidates cand left to visit.
Visit(s, cand, stale) ==
  IF cand # {} THEN Sweep("unlink", cand, stale, Null)
  ELSE Sweep(IF s = "raw" THEN "idle" ELSE "done", {}, {}, Null)

ListZeroRefBlobs(s) ==
  /\ sweeper[s].pc = "list"
  /\ IF s = "raw" THEN \A m \in Msgs : due[m] = Null
                  ELSE \A w \in Workers : worker[w].job # "backfill"
  /\ SetSweeper(s, Visit(s, ZeroRefBlobs, {}))
  /\ UNCHANGED <<rows, refcount, refVars, liveVars, files, worker, due, faults,
                 leaked, lost>>

\* Somebody has found b's file in place and counts on it, or has counted it.
ReliesOnFile(b) ==
  \/ refcount[b] > 0
  \/ \E w \in Workers : worker[w].pc = "insert" /\ worker[w].blob = b

LoseFile(b) ==
  /\ files' = files \ {b}
  /\ lost' = IF ReliesOnFile(b) THEN lost \cup {b} ELSE lost

\* os.Remove of a candidate's file; if it fails the candidate is left alone.
UnlinkBlob(s) ==
  LET sw == sweeper[s] IN
  /\ sw.pc = "unlink"
  /\ \E b \in sw.cand :
       \/ /\ LoseFile(b)
          /\ SetSweeper(s, [sw EXCEPT !.pc = "delete", !.blob = b])
          /\ UNCHANGED faults
       \/ /\ Fault
          /\ SetSweeper(s, Visit(s, sw.cand \ {b}, sw.stale))
          /\ UNCHANGED <<files, lost>>
  /\ UNCHANGED <<rows, refcount, refVars, liveVars, worker, due, leaked>>

\* The rows that DELETE ... WHERE id = ? AND refcount = 0 may match: the
\* candidate's own, or whichever row has taken over a stale id.
Deletable(sw) ==
  IF sw.blob \in sw.stale THEN ZeroRefBlobs ELSE ZeroRefBlobs \cap {sw.blob}

\* The transaction may match no row, or fail; the sweep goes on. The other
\* sweeper's candidate of the deleted row, if it has one, becomes stale.
DeleteBlobIfZero(s) ==
  LET sw == sweeper[s]
      next == Visit(s, sw.cand \ {sw.blob}, sw.stale)
  IN
  /\ sw.pc = "delete"
  /\ \/ \E b \in Deletable(sw) :
          /\ rows' = rows \ {b}
          /\ sweeper' = [t \in Sweepers |->
               IF t = s THEN next
               ELSE [sweeper[t] EXCEPT !.stale = @ \cup ({b} \cap sweeper[t].cand)]]
          /\ UNCHANGED faults
     \/ /\ Deletable(sw) = {} \/ sw.blob \in sw.stale
        /\ SetSweeper(s, next)
        /\ UNCHANGED <<rows, faults>>
     \/ /\ Fault
        /\ SetSweeper(s, next)
        /\ UNCHANGED rows
  /\ UNCHANGED <<refcount, refVars, liveVars, files, worker, due, leaked, lost>>

Collect(s) == ListZeroRefBlobs(s) \/ UnlinkBlob(s) \/ DeleteBlobIfZero(s)

-----------------------------------------------------------------------------
(* The environment.                                                        *)

\* The process stops, whether killed or shut down: what the goroutines were
\* about to do is not done. The database and the disk stay as they are.
Crash ==
  /\ Fault
  /\ leaked' = [b \in Blobs |-> leaked[b] + Cardinality(Holders(b))
                                          + Cardinality(DueRefs(b))]
  /\ worker' = [w \in Workers |-> Idle]
  /\ sweeper' = [s \in Sweepers |->
                   Sweep(IF s = "raw" THEN "idle" ELSE "list", {}, {}, Null)]
  /\ due' = [m \in Msgs |-> Null]
  /\ UNCHANGED <<rows, refcount, refVars, liveVars, files, lost>>

\* A file of the blob tree is removed from outside.
LoseFileOnDisk ==
  /\ DiskLoss
  /\ Fault
  /\ \E b \in files : LoseFile(b)
  /\ UNCHANGED <<rows, refcount, refVars, liveVars, worker, sweeper, due, leaked>>

Next ==
  \/ \E w \in Workers : Operation(w)
  \/ InsertParsedMessageBundle
  \/ DeleteMessages
  \/ SweepExpiredRaw
  \/ \E m \in Msgs : DecDue(m)
  \/ \E s \in Sweepers : Collect(s)
  \/ Crash
  \/ LoseFileOnDisk

Spec == Init /\ [][Next]_vars

-----------------------------------------------------------------------------
(* Properties.                                                             *)

\* Every unit of a blob's refcount has a holder: an attachment, a message's raw
\* slot, an operation or the retention sweep between two of its transactions,
\* or one of the known leaks. A blob without a row has none.
RefcountExact ==
  /\ \A b \in Blobs :
       refcount[b] = Cardinality(AttRefs(b)) + Cardinality(RawRefs(b))
                     + Cardinality(Holders(b)) + Cardinality(DueRefs(b)) + leaked[b]
  /\ \A b \in Blobs \ rows : refcount[b] = 0

\* A blob in use whose file is missing lost it while somebody relied on it: no
\* operation takes a reference without having seen the file in place.
FileLostOnlyUnderUse ==
  \A b \in Blobs : ReliesOnFile(b) /\ b \notin files => b \in lost

\* Every attachment and every raw capture that is linked has its file.
\* BlobStore does not satisfy this: see the README on the race of SweepBlobs
\* with a download of the same content.
LinkedFilesExist ==
  \A b \in Blobs : AttRefs(b) \cup RawRefs(b) # {} => b \in files

\* The store implements the abstract one: a content is in use while it has a
\* holder, and only a content without one is reclaimed.
InUse == {b \in Blobs : \/ AttRefs(b) # {} \/ RawRefs(b) # {}
                        \/ Holders(b) # {} \/ DueRefs(b) # {}}

Abstract == INSTANCE ContentStore WITH
  Contents <- Blobs, stored <- rows, inUse <- InUse

RefinesContentStore == Abstract!Spec
=============================================================================
