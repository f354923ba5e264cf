# Formal specifications of spk-mail

spk-mail is a desktop mail client: a Go process that mirrors IMAP accounts into
SQLite and serves the mirror to a web frontend. These specifications model the
parts of it where several goroutines, a remote server, a database, a disk and a
process that may stop at any moment have to agree, and check what they promise.

    tlc -config MCBlobStore.cfg MCBlobStore          # model-check
    tlapm BlobStoreProofs.tla                        # check the proofs

All source paths below are under `src/internal/` unless they say otherwise.

## The system

| Component | State | Operations | Hard behaviour |
|---|---|---|---|
| Blob store (`storage/blobs.go`, `fsutil/blob.go`, `sync/attachment_downloader.go`, `sync/raw_sweeper.go`, `api/raw.go`, `api/attachment_stub.go`, `storage/backfill.go`) | table `blobs` with `refcount`, files named by sha256, links `attachments.blob_id` and `messages.raw_blob_id` | download, capture, open, view, back-fill, delete a folder or an account, expire, collect | counting, linking and the file are three separate steps; two garbage collectors; crashes in between |
| Folder sync (`sync/sync_folder.go`, `imap/fetch.go`, `storage/folders.go`) | the folder's row, the messages' uids, the server's mailbox | SELECT, SEARCH, FETCH, submit, checkpoint, flag sweep | interrupted passes, UIDVALIDITY, a queue that outlives the pass |
| Store writer (`sync/store_writer.go`) | queue of 256 messages | insert with thread and attachments, capture, emit | one goroutine for all accounts; failure, panic, shutdown drain |
| Account worker (`sync/account_worker.go`, `idle_session.go`, `poll.go`, `flag_ops.go`) | IMAP sessions, queue of 64 flag operations, status | runOnce, runIDLE, runPoll, STORE | reconnects, dropped operations |
| Engine (`sync/engine.go`, `status.go`) | workers, downloaders, cancel functions, status | Run, StartAccount, StopAccount, supervise | removal against a running worker, panics, shutdown |
| IDLE (`imap/idle.go`, `imap/client.go`) | the notification channel and the missed flag | push, Idle, stop | hand-over between the read loop and successive IDLEs |
| Flags (`storage/messages.go`, `api/thread_stub.go`) | `messages.flags`, pending STOREs | mark read, toggle, server's deltas | local change against the server's |
| Threads (`storage/threads.go`, `thread/`, `storage/tx.go`) | `threads` and its statistics | look up, insert, recount, delete orphans | two lookups outside the transaction; recounts after the change |
| Events (`events/events.go`) | subscriptions with a buffer of 64 | Subscribe, Emit, close | drop on full |
| Badge (`tray/tray.go`) | the number on the icon | refresh on events, every 30 seconds, at the start | lost events, refreshes that overtake one another |
| Notifications (`tray/notify.go`, `pending.go`) | 256 pending contexts; the daemon's screen | Notify, Put, Take, Delete | click before Put, eviction, a daemon that fails and restarts |
| Accounts and secrets (`api/account_stub.go`, `storage/accounts.go`, `secrets/`) | account rows, encrypted map | add, remove | one step of several failing; row ids that are used again |
| Frontend (`frontend/src/api/events.ts`, `App.tsx`, `components/ThreadList.tsx`) | the list, the filter, the open thread | refetch on events, open, filter, mark read | answers that come too late |
| Migrations (`storage/migrations.go`, `store.go`) | `schema_migrations`, the schema | nine steps | crashes, two processes |
| Search, MIME, transports, desktop, UI | – | – | none that a state machine would show |

They interact as follows. The account worker reads the server and submits
messages to the store writer; the writer writes rows, emits events and captures
raw messages into the blob store; the tray and the frontend hear the events through
channels that drop what they cannot hold; the downloader and the API take and drop blob
references beside it; the engine starts, restarts and stops all of them. All
writes go through one database connection, so that a transaction is atomic and
everything between two transactions is not: that is the granularity of the
models.

What makes them correct: no blob in use is reclaimed and none leaks but where
known; every message of a folder is mirrored once and its flags follow the
server's; a user's flag change reaches the server; a stopped account leaves
nothing behind; no notification is lost; threads and messages belong together and
the statistics are theirs; what the tray and the frontend show is what the database
holds once all is quiet; every database that was ever in use can be opened.

## Modules

| Module | What it is |
|---|---|
| `ContentStore` | What the blob store promises: contents in use are stored. |
| `BlobStore` | The blob store and all that uses it; implements `ContentStore`. |
| `MCBlobStore` | A small instance of `BlobStore`. |
| `FiniteLemmas` | Lemmas on finite sets and queues: cardinalities, greatest and least elements, places; the proof modules extend it. |
| `BlobStoreProofs` | The theorems on `BlobStore`. |
| `FolderSync` | The synchronisation of one folder with its mailbox. |
| `MCFolderSync` | A small instance of `FolderSync`. |
| `FolderSyncProofs` | The theorems on `FolderSync`. |
| `IdleNotify` | How the server's EXISTS becomes a pass: read loop, `Client.Idle`, `runIDLESession`. |
| `MCIdleNotify` | A small instance of `IdleNotify`. |
| `IdleNotifyProofs` | The theorems on `IdleNotify`. |
| `FlagSync` | The flags of a thread: requests, the queue of operations, STORE and sweeps. |
| `MCFlagSync` | A small instance of `FlagSync`. |
| `FlagSyncProofs` | The theorems on `FlagSync`. |
| `ThreadStore`, `MCThreadStore` | Threads: lookup, insertion, statistics, deletions, flag changes. |
| `Engine`, `MCEngine` | Accounts from `AddAccount` to `RemoveAccount`, and the supervision of their workers. |
| `EngineProofs` | The theorems on `Engine`. |
| `EventBus` | The emitter as one subscriber sees it, with that subscriber's channel; `Badge`, `Notices` and `View` extend it. |
| `Badge`, `MCBadge` | The unread badge of the tray, composed with the event bus. |
| `Notices`, `MCNotices` | Desktop notifications and what a click on them does, composed with the event bus. |
| `View`, `MCView` | The list and the open thread of the frontend, composed with the event bus. |
| `Migrations`, `MCMigrations` | `storage.Open` in several processes. |
| `StoreProofs` | The theorems on what the database holds: `ThreadStore` and `Migrations`. |
| `DesktopProofs` | The theorems on the subscribers of the event bus: `Badge`, `Notices` and `View`. |

A proof module that speaks of several components extends them all, so their names must
differ: `Badge`, `Notices`, `View` and `Migrations` prefix the usual ones (`BadgeInit`,
`BadgeNext`, `BadgeTypeOK`, ...), and the three subscribers share what `EventBus` declares:
the capacity and the channel of a subscription, and the bound on faults. Each is still a
specification of its own, and each run is of one.

### BlobStore

A worker is any goroutine that downloads, captures, opens or back-fills; its `pc`
is the next step of its operation:

| State or action | Code |
|---|---|
| `rows`, `refcount` | table `blobs` |
| `rawBlob`, `attBlob`, `localPath` | `messages.raw_blob_id`, `attachments.blob_id`, `attachments.local_path` |
| `files` | files at `BlobPath` |
| `Start*` | the reads an operation begins with |
| `WriteContentAddressed`, `InsertOrIncBlob`, then `UpdateAttachmentDownloaded` or `SetMessageRawBlob`, then perhaps `DecBlobRef` | taking a reference, in the code's order |
| `ClearAttachmentBlob` or `ClearMessageRawBlob`, then `DecBlobRef` | a file was found missing |
| `DeleteMessages` | `DeleteMessagesByFolder`, `DeleteAccount` with `decBlobRefs` |
| `SweepExpiredRaw`, `DecDue` | `RawSweeper.sweepOnceAt` |
| `ListZeroRefBlobs`, `UnlinkBlob`, `DeleteBlobIfZero` | `SweepBlobs`, by the maintenance goroutine and by the raw sweeper |
| `Fail`, `Crash`, `LoseFileOnDisk` | a failing call, the end of the process, the disk |

A message and an attachment are named by their row id, which SQLite reuses, so a
row that is deleted and inserted again is the same name: a stale operation then
works on the new row, as it does in the code. A candidate of one collector whose
row the other one has deleted is `stale`; its id may name any row.

`leaked` counts units of refcount whose holder is gone for good. The code loses
them in four places: a crash between two steps, a failed decrement, a downloader
whose link fails or matches no row, and an attachment's link that is overwritten
or cleared without its old blob. `lost` remembers the contents whose file went
while somebody relied on it. Both are history: no action reads them.

Which captures are old enough to expire is left open: any set may be. Whether a
download is retried, and what a fetch returns, is up to `PartBytes` and
`RawBytes`.

### FolderSync

One folder. A pass of `syncFolder` is the sequence of values of `pc`: select,
purge, cursor, search, then fetch, submit and drain once per chunk, then flags and
apply. `runOnce` makes the first pass, with the folder's row reset by its
`UpsertFolder`; afterwards `runIDLE` or `runPoll` makes all others, one at a time.

| State or action | Code |
|---|---|
| `server`, `mailbox` | UIDVALIDITY, UIDNEXT, HIGHESTMODSEQ and the messages on the server |
| `folder`, `rows` | the row of `folders`, the folder's rows of `messages` |
| `sel`, `after`, `todo`, `batch`, `deltas` | locals of the pass: the SELECT answer, `dbMaxUID` and `maxUID`, `liveUIDs`, the fetched messages, the flag deltas |
| `queue`, `writer` | `StoreWriter.in`; whether its goroutine is alive |
| `Deliver`, `Expunge`, `ChangeFlags`, `Renumber` | the server |
| `Process`, `Panic` | one round of `StoreWriter.Run` |
| `Fail` | a call of the pass fails, or its session's time is up |
| `Stop`, `Restart` | the end and the start of the process; while it is down the writer may still drain its queue, as `drainOnShutdown` does, up to any point |

A message is named by UIDVALIDITY and uid, and its flags by the mod-sequence of
their last change, so that "the same flags" is equality of numbers.

`failed`, `torn` and `behind` are history: messages the writer dropped, uids that a purge
under a non-empty queue took the row of, or a row at or above them, and messages a sweep
passed over. The properties exempt
exactly these, because there the code does lose messages or flags: see the
findings.

### IdleNotify

One connection after another, with the server at the other end. Messages are
counted: `arrived` in the mailbox, `told` to the connection, `seen` by the database.
A pass is its three commands, which matter here because an EXISTS may arrive beside
each of their answers, when no IDLE is there to take it; what else a pass does is
`FolderSync`.

| State or action | Code |
|---|---|
| `mode`, `conn`, `requests`, `wire` | the server's side of the connection, and what is under way in both directions |
| `registered`, `missed` | `Client.idleNotifs` (whether it is set), `Client.idleMissed`, both under `idleMu` |
| `push`, `ReadExists`, `Push`, `PushMissed` | `pushIdleNotif`: the look under the lock, the send after it, the flag if the channel is full |
| `buffer` | notifications in the channel that the latest `Idle` made |
| `Idle`, `Replay` | `Idle` up to its `go`: registration, and the replay of the flag |
| `idler`, `AskIdle`, `IdleFails`, `RetryIdle`, `Take`, `Forward`, `EndIdle` | the goroutine of `Idle`, from `start` through `asked`, `idling`, `forward` or `backoff` to `off` |
| `notifs`, `stop` | the channel between that goroutine and the session, and `stopCh` |
| `pc`, `asked` | `runIDLESession`: where it is, and whether it waits for an answer |
| `Dial`, `Ask`, `ReadAnswer`, `SyncFails`, `Receive`, `Stopped`, `Leave`, `Left`, `Expire` | its steps, the deferred close and the end of `sessionCtx` |

The read loop handles one response at a time, so while it is inside `pushIdleNotif`
no answer is read. The 28-minute refresh of IDLE is left out: a session ends after
25. `ignored` is history: a pass was left out because the folder's id was not found.

### FlagSync

A thread whose messages lie in several folders. A message stands for its uid; a
message's flags are a set; a mod-sequence is the server's counter of its folder.

| State or action | Code |
|---|---|
| `server`, `modseq` | flags, MODSEQ and HIGHESTMODSEQ on the server |
| `db`, `watermark` | `messages.flags`, `folders.highest_modseq` |
| `MarkRead`, `ToggleThreadFlagged` | the API's transactions, which group the changed messages by folder |
| `handler`, `SubmitFlagOp`, `FlagOpDropped` | the loop that submits one operation per folder, with its two seconds of patience |
| `queue`, `storing`, `TakeOp` | `AccountWorker.flagOps`, and the operation in the hands of the main loop |
| `link`, `selected`, `currentSel`, `Select`, `StoreFlags` | the main connection: alive, the mailbox the server has selected, the one `runOnce` believes selected |
| `sweep`, `deltas`, `BeginSweep`, `FetchFlagsChangedSince`, `UpdateFlagsByUID`, `SetFolderHighestModSeq`, `SweepFails` | `syncFlagDeltas`, one at a time under `syncMu` |
| `OtherClient`, `Break`, `Restart` | the rest of the world |

The requests that change flags come down to one operator, `Request`: one
transaction, then one operation per folder. That the database is changed before
anything is queued, and that a sweep writes the server's flags over a row whatever
is still queued for it, is the order in the code.

`diverged` is history: messages of which an operation or a change was dropped, until
a sweep overwrites the row with the server's flags. A message leaves it only then.

### ThreadStore

A mail is a message of one folder on the server, with its headers as constants;
several may have one Message-ID.

| State or action | Code |
|---|---|
| `threads`, `messages` | the tables: statistics by row id, thread and flags by message |
| `writer`, `FindThreadByMessageIDs`, `FindThreadBySubject` | `StoreWriter.process`: two reads outside the transaction, each of which counts as a miss if it fails |
| `InsertParsedMessageBundle`, `InsertFails` | the transaction, and its rollback upon a foreign key or a message that is stored already |
| `DeleteMessagesByFolder`, `DeleteAccount` | with `deleteOrphanThreads`, which leaves the statistics of the remaining threads alone |
| `MarkRead`, `ToggleThreadFlagged` | one transaction of flags and recounts |
| `sweep`, `UpdateFlagsByUID`, `Fetched`, `FetchFails`, `UpdateThreadStats` | `syncFlagDeltas`: a transaction per message, then one per thread |

`stale` is history: threads with statistics that were left wrong. `bridged` are the
threads a reference from another account has joined, which the lookup by references
permits. The flags a message arrives with are any of `ServerFlags`.

### Engine

An account is a mailbox: `rows[id]` is the one its row stands for, and a password is
named by the mailbox it opens, so that a password under a reused row id shows.

| State or action | Code |
|---|---|
| `memory`, `disk` | `secrets.Store.data` and its file, which a failing `save` leaves apart |
| `engine`, `ListAccounts`, `StartListed`, `Shutdown`, `Return` | `Engine.Run` |
| `workers` | the goroutines of `supervise`; `owned` is the one in `Engine.workers`, `stopped` has its context cancelled |
| `GetAccount`, `Dial`, `RunOnceFails`, `Served`, `Panic`, `Leave` | a worker as the status tracker sees it, and `supervise` around it |
| `request` | `AddAccount` (`InsertAccount`, `SecretsSet`, `UndoAdd`, `StartAdded`) and `RemoveAccount` (`RemoveAccount` with `StopAccount`, `DeleteAccount`, `SecretsDelete`), a step per call they make |
| `Restart` | the end of the process at any point, or after `Run`; `secrets.Open` reads the file |

Between connecting and failing a worker is `FolderSync`, `IdleNotify` and `FlagSync`,
and its downloader comes and goes with it. `tangled`, `half` and `misreported` are
history: ids about which two callers, or a caller and `Run`, acted at once; rows that a
failed call left behind; and ids whose status was set by a worker that had been stopped
or that has panicked since.

### EventBus, Badge, Notices, View

`Emitter.Emit` holds one lock while it sends to all subscribers, so each sees a
subsequence of the same sequence: one bounded channel per model is enough.

| Badge | Code |
|---|---|
| `stored`, `unread`, `muted` | what `TotalUnreadExcludingMuted` counts |
| `outbox`, `Store`, `ReadMessage`, `Emit` | the writer and the API commit, then emit |
| `ChangeSilently` | `SetProfileMuted` and the deletions emit nothing |
| `refresh`, `DispatchEvent`, `Tick`, `ReadTotal`, `SetIcon` | `refreshUnread` on the consumer, the ticker and the goroutine of the start, unsynchronised |
| `RefreshFails`, `Panic` | its errors; `dispatchEvent` and `tickRefresh` recover |

| Notices | Code |
|---|---|
| `MessageArrived` | the writer's event of a new message |
| `handler`, `Dispatch`, `AccountIsMuted`, `Notify`, `NotifyFails`, `Put` | the goroutine of `handleMessageArrived` |
| `order`, `by` | `pendingActions` |
| `daemon`, `signals`, `ClickNotification`, `Close`, `DaemonRestarts` | the notification daemon (external) |
| `DispatchSignal` | `dispatchSignal`, in the order of the signals |
| `opened` | the thread `onNotificationAction` routes the window to |

| View | Code |
|---|---|
| `mail`, `seen` | the messages of each thread, and how many of them are read |
| `channel`, `connected`, `Disconnect`, `Reconnect` | the event stream: `HTTP.sse` and `EventSource` |
| `view`, `Refilter`, `SetFilter`, `SetActiveProfile` | filter and list of the store; `ThreadList`'s effect upon a new filter |
| `open`, `Click`, `DeepLink`, `Focus` | the open thread and what opens it, in `ThreadList`, `App` and `events.ts` |
| `tasks` | asynchronous functions between a request and its answer; the backend answers in `AnswerList`, `AnswerThread` and `MarkRead`, the page goes on in `ListArrives`, `ThreadArrives` and `MarkThreadRead` |

A task carries the answer that is under way, and `stale` is the generation
`fetchThreads` compares. `clock`, `at` and `owed` are history: how many changes the
database has seen, the one the list was read after, and the latest the list should have been
read after, because an event was lost, a request failed or a later answer was overwritten.

### Migrations

`tables` counts those of `schema.sql` that exist, `added` the later steps whose tables
and columns exist, `versions` is `schema_migrations`. `CreateTable` is one statement of
`schema.sql`, which the driver commits by itself; `Apply` is any other step, in one
transaction with its version, and `Repairs` is what steps 2, 4 and 5 do to the rows an
older version left: accounts without a profile (`unassigned`), threads with wrong
statistics (`drifted`) and without messages (`ghosts`). `MigrationsInit` is an empty database
or one of any version with the flaws of its time.

## Runs

| Run | Checks | Bounds and why they suffice |
|---|---|---|
| `blobs` | `TypeOK`, `RefcountExact`, `FileLostOnlyUnderUse`, refinement of `ContentStore` | One content, two attachments and a raw slot sharing it, two workers, two faults: every pair of operations meets on one blob, with a crash and a failure around them. Several contents, as when captures replace one another's link, are left to the proofs, which lift all bounds. |
| `blobs_race` | `LinkedFilesExist`, violated | As `blobs`, without any fault. |
| `folder` | `TypeOK`, `NoneSkipped`, `FlagsUpToWatermark`, `MailArrives` | Three uids in batches of two and a queue of two: a second chunk, a full queue, a rest in the queue. Two incarnations. Three changes of the mailbox: a delivery, a flag change and a renumbering, or three deliveries. Three faults: two interrupted passes and a dropped message, or a panic. |
| `idle` | `TypeOK`, `QuietIsCaughtUp`, `DoneBeforeCommands`, `ArrivalsAreSeen` | Four messages against channels of two and one: both are full and one notification is left for the flag. Two faults: a connection that breaks after an IDLE that failed or a pass that was left out. |
| `flags` | `TypeOK`, `DifferencesAreUnderWay`, `StoresGoToTheirFolder`, `FlagsConverge` | Two messages in two folders, so that a star needs two STOREs and a SELECT between them; two requests at a time against a queue of one; a change by another client in each folder; one fault at any point. The proofs lift the bounds. |
| `threads` | `TypeOK`, `StatsExact`, `NoGhosts`, `AccountsMeetByReference` | Two accounts with a folder each; a mail in one, and in the other a copy that refers to it and a mail with the same subject by accident, which may join the thread only once the copy has. One change by the user, two faults: a deletion on either side of a lookup, a sweep cut short. The proofs lift the bounds. |
| `threads_seen` | `SeenIsCounted`, violated | As `threads`, with one fault: the sweep's fetch fails. |
| `accounts` | `TypeOK`, `WorkersAreOwned`, `RowsAreServed`, `PasswordsAreTheirOwn`, `StatusIsCurrent` | Two callers and two accounts, which suffice for a row id to be used again while its former worker runs and its former password lies in the file. One fault: a failed save, whose undo may fail as well, a failed read or a crash; an orderly shutdown is none. |
| `badge` | `BadgeTypeOK`, `QuietBadgeIsRight`, `BadgeConverges` | Two messages against a channel of one; one silent change; two faults. Three goroutines refresh, as in the code. |
| `notices` | `NoticesTypeOK`, `PendingFollowsScreen`, `ClicksOpenTheirOwn`, `ArrivalsAreNotified` | Two messages against a channel and a table of one, so that the first is evicted; two faults: the daemon restarts and its ids come again. |
| `view` | `ViewTypeOK`, `QuietViewIsCurrent`, `ReadWasSeen`, `OnlyTheUserOpens`, `Settles` | Two threads, two profiles, two functions at work at a time: two answers that overtake one another. One message arrives; two moves of the user, so that the second undoes the first before its answer; one fault. |
| `migrations` | `SchemaMatchesVersions`, `OpenIsMigrated`, `Reopens` | Two processes, three tables, a database of any version, two faults. The proofs lift the bounds of all but `Reopens`; the type invariant is proved and not run. |

Deadlock is checked in `blobs`, `blobs_race`, `threads`, `accounts` and `migrations`.
It is not checked where the system comes to rest or may hang. In `folder` the writer may
panic: it does not come back, and a pass that waits for it waits for ever. In `idle`
`Idle` may block for good (`Blocked`, below). `flags`, `badge`, `notices` and `view` come
to rest when the bounds on requests, messages and changes are used up.

Each property of a passing run is paired with a mutant of the code, an operator
marked "Mutant" beside the one it replaces, that the property rejects: a resume from the checkpoint instead of the largest
stored uid, a watermark taken after the sweep instead of from SELECT, and so on.

### What the properties say

* `RefcountExact`: every unit of a count has a holder, a row, an operation between
  two of its steps or the retention sweep, or is a known leak. From it follows that
  no count is too low, hence no blob in use is collected.
* `FileLostOnlyUnderUse`: if a blob somebody relies on has no file, the file was
  there when they began to rely on it. Nobody takes a reference on a file unseen.
* `RefinesContentStore`: seen without counts, files and garbage collectors, the
  store only forgets contents nobody uses.
* `NoneSkipped`: the cursor, the largest stored uid, has passed over no live
  message.
* `FlagsUpToWatermark`: flags that differ from the server's were changed after the
  watermark, so the next sweep will fetch them.
* `MailArrives`: every message that stays in the mailbox is stored in the end, unless
  the writer has panicked.
* `QuietIsCaughtUp`: when everybody waits for the server, the database has caught up
  with every announcement. A notification in transit while one IDLE ends and the next
  one begins is in a channel, in the flag or in the read loop's hand, never gone.
* `DoneBeforeCommands`: a pass never sends a command into an IDLE (RFC 2177).
* `ArrivalsAreSeen`: every message is caught up with, by push alone. Two states are
  exempted, since the code can be in them until the session expires, or longer.
  `Blocked`: `Idle` replays the missed notification into its channel before anybody
  reads it, and the read loop may have filled the channel since it was registered;
  the send is outside any select, so the session then hangs even when its time is up.
  The channel holds 16, so it takes as many notifications in that instant. `Parked`:
  see below on connections that die.
* `DifferencesAreUnderWay`: where database and server differ on a message, a pending
  operation or the next sweep will see to it. What makes it hard is that an operation
  may be a no-op on the server, and then no sweep follows, and that a sweep may undo
  a change that is still queued.
* `StoresGoToTheirFolder`: uids are a folder's, so a STORE in the wrong mailbox would
  flag the wrong mail. `runOnce` skips the SELECT when it believes the mailbox is
  selected.
* `FlagsConverge`: with the changes over, both sides agree but for dropped changes.
* `StatsExact`: a thread's statistics are those of its messages, or a sweep is about to
  recount it, or they are known to have been left wrong (`stale`).
* `NoGhosts`: the threads are exactly those of the messages. The lookup may yield a
  thread that a deletion removes before the insertion; the foreign key then rejects the
  message, which is lost to this pass, and the thread does not come back.
* `AccountsMeetByReference`: the fallback by subject never merges accounts, as its
  comment promises (`storage/threads.go:208`), even when the thread it found has changed
  by the time of the insertion.
* `WorkersAreOwned`: a worker is the registered one of its account until it is stopped,
  and a registered one does not give up; with one registration per account, no account
  is served twice but for a stopped worker's last moments.
* `RowsAreServed`, `PasswordsAreTheirOwn`: accounts, workers and passwords match when
  no call on the account is under way. Exempted are ids about which two callers acted at
  once and rows a failed call left behind.
* `StatusIsCurrent`: a status is shown only for a registered worker, and a worker that
  waits shows its error, one that serves is shown healthy.
* `QuietBadgeIsRight`: with no event under way the badge is right, however many events
  the channel dropped: the events before them cause a later read. Exempted (`behind`) are
  silent changes, failed refreshes and refreshes that overtook one another.
* `BadgeConverges`: those are made good by the ticker, unless the ticker has panicked.
* `PendingFollowsScreen`: what is on the screen has its entry in the table and what is
  not has none, or is about to. `excused` lists the exceptions one by one: an answer that
  never came, a notification that went without a signal or before it was recorded, an
  evicted entry.
* `ClicksOpenTheirOwn`: a click opens its own thread or nothing, except where a restarted
  daemon has used an id again.
* `ArrivalsAreNotified`: every arrival is shown, or was dropped, muted or failed.
* `QuietViewIsCurrent`: with nothing under way, the list is that of the database for the
  filter shown. The answer of an old filter or profile never stays. `owed` exempts lost
  events, failed requests, and answers for one filter that overtook each other.
* `OnlyTheUserOpens`: an event's answer never changes which thread is open, as the
  comment in `events.ts` promises.
* `ReadWasSeen`: mail is marked read only after the user had it on a focused screen.
* `Settles`: marking read emits events, events refetch, refetching marks read: this ends.
* `SchemaMatchesVersions`: but for the first step, what the database has is what its
  versions say, at every instant.
* `OpenIsMigrated`: when `Open` returns, the database is that of the last version and free
  of older flaws, even if another process applied some of the steps.
* `Reopens`: starting again and again opens the database, unless `schema.sql` was
  interrupted (`Torn`).

### Fairness

`FairSpec` of `FolderSync` assumes that passes follow one another and go on, that the writer serves
its queue, that a call on a connection whose mailbox was renumbered fails and that
a stopped process is started again. The code justifies it: `runPoll` ticks every 30
seconds; `runIDLE` reconnects two seconds after a session ends and at least every 25
minutes; TCP keep-alive fails a call on a dead connection within a minute
(`imap/keepalive_linux.go`); supervise restarts `runOnce`. Nothing is assumed of the
server: it need not deliver, and faults are bounded. Folders with the role trash or
spam are synced by `runOnce` alone, so `MailArrives` is not claimed for them. A writer
that has panicked stays dead until the process ends, which nothing forces: the property
exempts that state.

In `IdleNotify` the goroutines run, the server answers, and during IDLE it announces
what arrives, which is what IDLE is for; outside it may or may not. `Expire` is not
fair: that a session ends after 25 minutes would make every message arrive on its own
and hide what the notifications are for.

In `FlagSync` a request goes on to submit its operations, `runOnce` comes to serve,
its loop empties the queue, and passes follow one another, for the reasons given for
`FolderSync`. Faults and changes are bounded, and a broken main connection is not
repaired, since `runOnce` does not notice it (`Break`): operations that follow are
dropped.

`ThreadStore` assumes that sweeps follow one another and come to their recounts; without
that `SeenIsCounted` would fail for the want of a next step. `Badge` and `Notices` assume
that the tray's goroutines run, that the ticker ticks (every 30 seconds, `tray/tray.go:25`)
and that calls of the database and the daemon return, which have deadlines. `View`
assumes that requests are answered or fail and that the page's functions go on, nothing
of the user or of the connection. `Migrations` assumes that a process that is closed is
started again, and goes on. `Engine` assumes no fairness and claims no liveness.

## What the checks found

1. **Garbage collection against a download** (`blobs_race`). `SweepBlobs` unlinks a
   candidate's file before it knows whether the blob is still unreferenced. A
   download of the same bytes that runs in between finds the file, keeps no copy of
   its own, and links a blob whose file is then removed. The comment at
   `storage/blobs.go:168` calls this interleaving harmless. Opening the attachment
   heals it, by clearing the link.
2. **Interrupted sweeps of flags** (`threads_seen`). `syncFlagDeltas` changes messages
   while the answer streams in and recounts their threads after it. If the fetch fails
   on the way it returns without the recount, and the next sweep finds the messages
   unchanged and reports no thread (`storage/messages.go:54` says the thread is returned
   for that recount). The unread count stays wrong until something else touches the
   thread.

Beyond these two runs, the models show the following, each as an exemption that a
property had to make and that a history variable or a named state marks.

In the synchronisation:

* `runOnce` writes 0 to `uid_validity` before its pass compares it
  (`sync/account_worker.go:123`), so a change that happened between two connections is
  not noticed; rows of the old incarnation stay, and hide lower uids of the new one from
  the cursor (`Shadowed`).
* After a change of UIDVALIDITY the new value is stored with the first checkpoint. If the
  connection is lost before it, the next pass purges a second time, while the rest of the
  first batch is still in the queue; the cursor then starts above messages that were
  purged (`torn`). It is not only those: a message that was still queued below a purged
  row is dropped or comes later than one above it. The run's bounds do not show this; the
  proof of `NoneSkipped` did, and TLC gives the trace with a queue and a batch of one,
  three uids, two incarnations, six mod-sequences and two faults.
* The first watermark is recorded when the first pass succeeds. Messages stored by an
  earlier pass that failed, and changed since, keep their flags (`behind`).
* A connection that dies under IDLE is not noticed. `imap/keepalive_linux.go:17` promises
  that the kernel wakes the blocked read and that the session then dials afresh. The read
  does wake, but nothing waits for it: the goroutine of `Idle` selects on its stop
  channel, the context, a timer and notifications, and `runIDLESession` on the context and
  notifications. The session stays parked until its 25 minutes are over (`Parked`).
* `api/thread_stub.go:288` says that a dropped flag operation is delayed and not lost, as
  the worker re-syncs flags. The sweeps only copy from the server, and only what changed
  there: the operation never reaches the server (`diverged`).

In threads and accounts:

* Purging a folder or removing an account recounts no thread that keeps messages
  elsewhere (`stale`).
* A message whose thread was looked up and then deleted fails its foreign key and is
  dropped (`InsertFails`).
* A worker that has been stopped may report a status once more, for an account that is
  gone or was added again; after a panic the old status stays (`misreported`).
* Two callers on one row id interleave freely, and `Engine.Run` starts the accounts of a
  list it has read before: a worker may be started for an account that has just been
  removed (`tangled`). The comment that account ids are never reused
  (`frontend/src/store/index.ts:57`) does not hold for SQLite's row ids.
* `main` does not wait for `Engine.Run` before it closes the database.

In the tray:

* Muting a profile, purging a folder and removing an account emit no event; only the
  ticker notices. Its comment (`tray/tray.go:200`) calls it a backstop, but its `recover`
  is outside its loop: a panic ends it (`behind`, and the exemption of `BadgeConverges`).
* After the notification daemon restarts its ids begin anew, while the contexts of the
  old ones are kept: a click may open another thread (`reused`).

In the frontend:

* `App.tsx:157` remembers the last deep link and never forgets it: a second click on a
  notification of the same thread does nothing.
* A stream that is lost and reconnected refetches nothing, and an older answer of the page
  may overwrite the newer one of an event (`owed`).
* A click on a row that is answered after the profile has changed opens the thread again
  (`OnlyTheUserOpens` counts it as the user's).

In the migrations: `schema.sql` is not applied in a transaction. A process that stops
amid it, or a second one that starts at the same moment, leaves tables without a version,
and every later `Open` fails on the first of them (`Torn`). No lock keeps a second
instance from starting.

Also visible in the models: a failed link leaks a reference in the downloader,
where the raw capture and the back-fill give it back (`leaked`); a message the
writer drops is not fetched again once a higher uid is stored (`failed`); a
mod-sequence that starts again with a new UIDVALIDITY stays below the watermark
(`ModSeqRestarts = TRUE` in `MCFolderSync.cfg` gives the counterexample); a panic of
the writer stops the passes of every account.

## What is proved

`BlobStoreProofs` proves, for any sets of contents, messages, attachments and
workers and any bounds, from `FinitenessAssumption` (finite sets of rows and
workers) and `ConstantsAssumption` (the types of the constants):

* `Accounting`: `Spec => [](TypeOK /\ RefcountExact)`, and `TypeCorrectness` by itself,
* `ReferencesFindTheirFile`: `Spec => []FileLostOnlyUnderUse`,
* `Refinement`: `Spec => RefinesContentStore`.

The inductive invariant is `TypeOK /\ RefcountExact /\ WellFormed`. Type correctness
alone is not inductive: a decrement keeps `refcount` a natural number only because
some holder accounts for the unit. Nor is `RefcountExact`: that an operation about
to link holds a reference to a real content, and that the sweep has nothing due
when it begins, is `WellFormed`. There is one lemma per action. Each says how the
four sets of holders change, by one element or by a set, with the cardinality lemmas
of `FiniteLemmas`, and adds up. `FileLostOnlyUnderUse` is not a consequence of the
invariant but is preserved beside it: whoever comes to rely on a blob has either
just seen the file or relies on it already, and whoever removes a file notes it.
The refinement maps `stored` to `rows` and `inUse` to the contents with a holder;
that a collected row has no holder is `RefcountExact` at zero.

`FlagSyncProofs` proves, for any messages, folders, requests, queue capacity and
bounds, from `ConstantsAssumption`:

* `NoDifferenceIsForgotten`: `Spec => []DifferencesAreUnderWay`,
* `StoresReachTheirFolder`: `Spec => []StoresGoToTheirFolder`,
* `TypeCorrectness`: `Spec => []TypeOK`.

`DifferencesAreUnderWay` is not inductive: a pending operation that asks for what the
server has already does nothing and leaves the difference. The invariant says it flag
by flag (`Settled`): the sides agree on the flag, or an operation is pending that gives
the server the database's value, or a change was dropped. `Covered` says that what is
not settled lies above the watermark; `Applied`, that it lies above the mod-sequence of
the sweep in progress or among its changes, so that moving the watermark is sound;
`Ordered`, that the watermark, the sweep and the server's counter come in this order.
`OwnFolder`: operations name messages of their folder, whence a STORE raises the
counter that matters. Two lemmas carry most steps: `Move` for those that only hand
operations on or drop them, `Stored` for those in which the server changes a message.
`StoresGoToTheirFolder` follows from `Belief`, that the mailbox believed selected is
selected or none is, with the operation's folder being a folder.

`StoreProofs` proves on `ThreadStore`, for any mails, headers, folders, accounts and bounds, from
`ConstantsAssumption`:

* `SubjectsDoNotMerge`: `Spec => []AccountsMeetByReference`,
* `StatisticsAreExact`: `Spec => []StatsExact`,
* `ThreadsAreOfMessages`: `Spec => []NoGhosts`,
* `TypeCorrectness`: `Spec => []TypeOK`.

`AccountsMeetByReference` is not inductive, because what a lookup found is used in a later
step. `Meeting` says that a thread is bridged or has one owner; `Held`, that a thread the
subject led to is still bridged or all the account's, if it exists at all. `NextIdIsNew`
rests on a finite set of ids having a maximum, which `FiniteLemmas` proves from a smallest
subset without one, for want of an induction. `Relabelled` carries the steps that move no message, `SameStats` those in
which the messages of a thread stay as they are. `StatsExact` is preserved beside the
invariant: its exceptions (`Pending`, `stale`) are part of the property, so the theorem
says that these are the only ways for a count to be wrong.

On `Migrations` it proves, for any number of processes, tables and failures, from
`MigrationsAssumption`:

* `SchemaIsThatOfItsVersions`: `MigrationsSpec => []SchemaMatchesVersions`,
* `OpenFindsItMigrated`: `MigrationsSpec => []OpenIsMigrated`,
* `MigrationsTypeCorrectness`: `MigrationsSpec => []MigrationsTypeOK`.

Neither property is inductive: that another process may apply a step between the reading
of the version and the own attempt is harmless because a process only ever attempts the
step after one that is recorded (`InOrder`) and the versions have no gap (`Gapless`), so
that a version which is missing is the next one. `Repaired` and `Matching` say what a
recorded version implies. A step of one process that leaves the database alone is the
lemma `Moving`, cited by most steps.

`FolderSyncProofs` proves, for any sizes of batch, queue and mailbox and any number of
incarnations and faults, from `ConstantsAssumption`:

* `CursorSkipsNothing`: `Spec => []NoneSkipped`,
* `WatermarkHidesNothing`: `ModSeqRestarts = FALSE` implies `Spec => []FlagsUpToWatermark`,
* `TypeCorrectness`: `Spec => []TypeOK`.

`NoneSkipped` speaks of rows, but a row is stored from the queue, which is filled from a
batch, which is fetched from the uids SEARCH has named; an interrupted pass leaves its
part of the queue to the next one. `Order` says the same thing at each place: what is
below a row is settled (`RowsInOrder`); what is below a queued message is settled or ahead
of it in the queue (`QueueInOrder`); what is below a message of the batch, or below a uid
to be fetched, is settled, queued, or with it (`PassInOrder`). `Bounded` keeps messages of
the past apart from those of the present incarnation, `Phases` says what a pass holds at
its points. `FlagsUpToWatermark` follows a change likewise (`FlagsFollow`), and in a sweep
with regard to the watermark the sweep will set (`Applying`): what differs from the server
then is above the answer to SELECT or among the deltas. The hypothesis is the one under
which the run checks it: with mod-sequences that start again the property is false.

`IdleNotifyProofs` proves, for any capacities of the two channels and any bounds, from
`ConstantsAssumption`:

* `DoneComesFirst`: `Spec => []DoneBeforeCommands`,
* `SleepersAreCaughtUp`: `Spec => []QuietIsCaughtUp`,
* `TypeCorrectness`: `Spec => []TypeOK`.

Neither property is inductive. `Protocol` says what the connection owes: at most one
command is awaited; it is on its way to the server, with a DONE ahead of it at most, or
its answer is on its way back. `HandOver` says who holds the news at each point of the
session: the wire, the missed flag, the read loop's hand, the channel, the goroutine of
`Idle`, the session's channel. `Full` is the reason why a notification may be dropped
when the channel is full: others are ahead of it, and one is enough for a pass.

`EngineProofs` proves, for any number of callers, accounts, failures and steps, from
`ConstantsAssumption`:

* `WorkersServeTheirOwner`: `Spec => []WorkersAreOwned`,
* `AccountsAreServed`: `Spec => []RowsAreServed`,
* `NoPasswordIsInherited`: `Spec => []PasswordsAreTheirOwn`,
* `ShownStatusIsTrue`: `Spec => []StatusIsCurrent`,
* `TypeCorrectness`: `Spec => []TypeOK`.

That accounts, workers and passwords match when no call is under way is not inductive:
`AddAccount` and `RemoveAccount` undo and redo it step by step. `Book(id)` says, for an
account on which no two callers acted at once and no call failed half-way, what holds at
each point of the one call about it. Most steps are about another account, or about a
worker only; `Elsewhere` and `ElsewhereKeeps` dispose of those. That a new row has an id
nobody uses, and so no password to inherit, is again the maximum of a finite set.
`TypeCorrectness` includes that no account has two workers. The invariant was checked
with TLC on the bounds of the run `accounts` first.

`DesktopProofs` proves on `Badge`, for any messages, capacity of the channel and bounds,
from `CapacityAssumption` and `BadgeAssumption`:

* `BadgeIsRightAtRest`: `BadgeSpec => []QuietBadgeIsRight`,
* `BadgeTypeCorrectness`: `BadgeSpec => []BadgeTypeOK`.

The invariant says of every state what the property says of quiet ones: the badge is right,
or excused, or an event or a goroutine that has yet to read stands for all changes before it
(`Coming`), or one is about to show what it has read (`Showing`); and what that one has read
is still the total, unless another will show after it (`TotalsAreRight`).

On `Notices`, for any messages and any limit of `pendingActions`, from `CapacityAssumption`
and `NoticesAssumption`:

* `PendingActionsFollowTheScreen`: `NoticesSpec => []PendingFollowsScreen`,
* `AClickOpensItsOwn`: `NoticesSpec => ClicksOpenTheirOwn`,
* `NoticesTypeCorrectness`: `NoticesSpec => []NoticesTypeOK`.

The last is itself not inductive: that list and map of `pendingActions` have the same ids
needs the list to name each once. `ScreenAgrees` says that whoever knows the id of a
notification on the screen, the table or a goroutine about to store it, means its message;
`ClicksAreAligned`, that each click that is under way has its signal, in order, and whoever
knows its id means what was clicked, so that the theorem on clicks follows at the moment
the signal is handled. `IdsAreGiven` says why a new id belongs to nobody: those in use are
below the daemon's next one, unless it has restarted. `Follows` is the other half of the
property.

On `View`, for any threads, profiles, number of functions at work, mail and moves, from
`CapacityAssumption` and `ViewAssumption`:

* `ViewIsCurrentAtRest`: `ViewSpec => []QuietViewIsCurrent`,
* `WhatIsReadWasSeen`: `ViewSpec => []ReadWasSeen`,
* `OpenedByTheUser`: `ViewSpec => OnlyTheUserOpens`,
* `ViewTypeCorrectness`: `ViewSpec => []ViewTypeOK`.

`TaskIsSound` says what a function may rely on after it has waited: an answer is still true
if nothing has changed since, the page a filter asked for is of that filter or outdated,
and what is about to be marked read was seen. `NothingForgotten`: the last change of the
database is in the list, owed, or on its way, as an event or in a function that will fetch
it. `OpenedByTheUser` needs no invariant: it holds of each single step.

Only model-checked: liveness, which is beyond the prover (`MailArrives`, `ArrivalsAreSeen`,
`FlagsConverge`, `BadgeConverges`, `ArrivalsAreNotified`, `Settles`, `Reopens`), and the two
properties the code violates.

## What is not modelled, and the plan

Partly modelled: the engine without a `StartAccount` that comes before the first section
of `Run` and without the lengths of the back-off; flag operations of a folder that is renumbered
while they are queued; the event bus without the close of a subscription during a send,
which its two locks serialise; the tray without its menu and window; accounts and profiles
without their editing; the frontend without account status, attachments, folders, paging,
pinned rows and search; the transports but for the event stream.

Not modelled: MIME parsing (a pure function on byte strings), search (one query, no
state), the rendering of the user interface, the desktop shell, configuration, and the
test servers.

Every safety property of the passing runs is proved. What is left for the proofs is to
connect the components: that `FolderSync`, seen from its rows, and `FlagSync`, seen from its
database, mirror a mailbox whose abstract form says nothing of passes and queues.
