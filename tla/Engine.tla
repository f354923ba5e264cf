--------------------------------- MODULE Engine --------------------------------
(***************************************************************************)
(* Accounts from AddAccount to RemoveAccount: their rows, their passwords  *)
(* in memory and on disk, and the worker that the engine supervises for    *)
(* each. Requests run beside each other and beside Engine.Run; a stopped   *)
(* worker runs on for a moment; row ids are reused.                        *)
(*                                                                         *)
(* What a worker does between connecting and failing is FolderSync,        *)
(* IdleNotify and FlagSync.                                                *)
(***************************************************************************)
EXTENDS Integers, FiniteSetsExt, Functions

CONSTANTS
  Clients,   \* callers of the API
  MaxAdds,   \* bound: accounts added
  MaxFaults  \* bound: failed writes and reads, panics, crashes

ASSUME ConstantsAssumption ==
  IsFiniteSet(Clients) /\ MaxAdds \in Nat \ {0} /\ MaxFaults \in Nat

VARIABLES
  rows,         \* accounts: the mailbox each row stands for, by row id
  memory,       \* secrets.Store.data: whose password it is, by row id
  disk,         \* the secrets file
  engine,       \* Engine.Run: where it is, the accounts it has still to start
  workers,      \* the workers of this process, each under its supervise
  status,       \* statusTracker.by
  request,      \* AddAccount or RemoveAccount, as far as it has come
  added,        \* accounts added so far: each is a mailbox of its own
  faults,       \* faults so far
  \* History.
  tangled,      \* ids about which two callers acted at once, or which had a worker already
  half,         \* ids of rows that were not listed, or not wholly added or removed
  misreported  \* ids with a status by a stopped worker, or from before a panic

vars == <<rows, memory, disk, engine, workers, status, request, added, faults,
          tangled, half, misreported>>

Mailboxes == 1..MaxAdds
Ids == 1..MaxAdds
NoRequest == [pc |-> "none"]

\* owned: it is the one in Engine.workers. Two that have been stopped and are in the
\* same state are one.
Workers == [id : Ids, owned : BOOLEAN, stopped : BOOLEAN,
            pc : {"read", "dial", "serve", "sleep", "gone"}]

Fault == faults < MaxFaults /\ faults' = faults + 1

Without(f, i) == Restrict(f, DOMAIN f \ {i})
With(f, i, v) == [j \in DOMAIN f \cup {i} |-> IF j = i THEN v ELSE f[j]]

\* INTEGER PRIMARY KEY: one more than the largest id in use.
NextId == Max(DOMAIN rows \cup {0}) + 1

\* The root context is done.
Closing == engine.pc \in {"closing", "returned"}

\* The context of a worker.
Cancelled(w) == w.stopped \/ Closing

\* Engine.workers.
Registered == {w.id : w \in {v \in workers : v.owned}}

\* Whoever is at work on an account: the callers, and Run until it has started it.
About(id) == {c \in Clients : request[c].pc # "none" /\ request[c].id = id}
Starting(id) == engine.pc = "starting" /\ id \in engine.left

Requests ==
  {NoRequest} \cup [pc : {"set", "undo", "start"}, id : Ids, mailbox : Mailboxes]
              \cup [pc : {"delete", "forget"}, id : Ids]

TypeOK ==
  /\ \A f \in {rows, memory, disk} :
       DOMAIN f \subseteq Ids /\ \A i \in DOMAIN f : f[i] \in Mailboxes
  /\ engine.pc \in {"listing", "starting", "up", "closing", "returned"}
  /\ engine.left \subseteq Ids
  /\ workers \subseteq Workers
  /\ \A w, v \in workers : w.owned /\ v.owned /\ v.id = w.id => v = w
  /\ DOMAIN status \subseteq Ids
  /\ Range(status) \subseteq {"connecting", "ok", "error"}
  /\ \A c \in Clients : request[c] \in Requests
  /\ added \in 0..MaxAdds /\ faults \in 0..MaxFaults

Init ==
  /\ rows = <<>> /\ memory = <<>> /\ disk = <<>>
  /\ engine = [pc |-> "listing", left |-> {}]
  /\ workers = {} /\ status = <<>>
  /\ request = [c \in Clients |-> NoRequest]
  /\ added = 0 /\ faults = 0
  /\ tangled = {} /\ half = {} /\ misreported = {}

-----------------------------------------------------------------------------
(* Engine.                                                                 *)

\* Mutant: whether there is one is not asked.
StartAccountAgain(id) ==
  workers' = workers \cup {[id |-> id, owned |-> TRUE, stopped |-> FALSE, pc |-> "read"]}

\* A worker, unless the account has one; its downloader comes and goes with it.
StartAccount(id) ==
  workers' = IF id \in Registered THEN workers
             ELSE workers \cup {[id |-> id, owned |-> TRUE, stopped |-> FALSE, pc |-> "read"]}

\* Mutant: the status of the account is kept.
StopAccountKeepsStatus(id) ==
  /\ workers' = {IF w.id = id /\ w.owned THEN [w EXCEPT !.owned = FALSE, !.stopped = TRUE] ELSE w :
                   w \in {v \in workers : ~(v.id = id /\ v.owned /\ v.pc = "gone")}}
  /\ UNCHANGED <<status, misreported>>

\* Mutant: the worker is forgotten and not cancelled.
StopAccountForgets(id) ==
  /\ workers' = {IF w.id = id THEN [w EXCEPT !.owned = FALSE] ELSE w :
                   w \in {v \in workers : ~(v.id = id /\ v.owned /\ v.pc = "gone")}}
  /\ status' = Without(status, id) /\ misreported' = misreported \ {id}

\* Cancelled and forgotten, while its goroutine runs on.
StopAccount(id) ==
  /\ workers' = {IF w.id = id /\ w.owned THEN [w EXCEPT !.owned = FALSE, !.stopped = TRUE] ELSE w :
                   w \in {v \in workers : ~(v.id = id /\ v.owned /\ v.pc = "gone")}}
  /\ status' = Without(status, id) /\ misreported' = misreported \ {id}

\* ListAccounts. If it fails there are no workers until the next start.
ListAccounts ==
  /\ engine.pc = "listing"
  /\ \/ /\ engine' = [pc |-> "starting", left |-> DOMAIN rows]
        /\ tangled' = tangled \cup {i \in DOMAIN rows : About(i) # {}}
        /\ UNCHANGED <<half, faults>>
     \/ /\ Fault
        /\ engine' = [pc |-> "up", left |-> {}]
        /\ half' = half \cup DOMAIN rows
        /\ UNCHANGED tangled
  /\ UNCHANGED <<rows, memory, disk, workers, status, request, added, misreported>>

StartListed ==
  /\ engine.pc = "starting"
  /\ IF engine.left = {}
     THEN engine' = [engine EXCEPT !.pc = "up"] /\ UNCHANGED workers
     ELSE LET id == Min(engine.left)
          IN StartAccount(id) /\ engine' = [engine EXCEPT !.left = @ \ {id}]
  /\ UNCHANGED <<rows, memory, disk, status, request, added, faults, tangled, half, misreported>>

\* The context of the process is done: all contexts under it are. (While Run still
\* starts workers this is Restart.)
Shutdown ==
  /\ engine.pc = "up"
  /\ engine' = [engine EXCEPT !.pc = "closing"]
  /\ UNCHANGED <<rows, memory, disk, workers, status, request, added, faults,
                 tangled, half, misreported>>

\* wg.Wait: every supervise has returned.
Return ==
  /\ engine.pc = "closing"
  /\ \A w \in workers : w.pc = "gone"
  /\ engine' = [engine EXCEPT !.pc = "returned"]
  /\ UNCHANGED <<rows, memory, disk, workers, status, request, added, faults,
                 tangled, half, misreported>>

\* Rows whose AddAccount was cut short, and which have not their password on disk.
HalfAdded ==
  {i \in DOMAIN rows :
     /\ \/ i \in half \cup tangled
        \/ \E c \in About(i) : request[c].pc \in {"set", "undo"}
     /\ i \notin DOMAIN disk \/ disk[i] # rows[i]}

\* The process ends, and what callers had begun is left as it is. At the next start
\* secrets.Open reads the file.
Reopen ==
  /\ engine' = [pc |-> "listing", left |-> {}]
  /\ workers' = {} /\ status' = <<>>
  /\ request' = [c \in Clients |-> NoRequest]
  /\ memory' = disk
  /\ half' = HalfAdded /\ tangled' = {} /\ misreported' = {}
  /\ UNCHANGED <<rows, disk, added>>

Restart == Reopen /\ (IF engine.pc = "returned" THEN UNCHANGED faults ELSE Fault)

-----------------------------------------------------------------------------
(* supervise, and AccountWorker.Run as the status tracker sees it.         *)

Become(w, v) == workers' = (workers \ {w}) \cup (IF v.pc = "gone" /\ ~v.owned THEN {} ELSE {v})
Goto(w, pc) == Become(w, [w EXCEPT !.pc = pc])

SetStatus(w, state) ==
  /\ status' = With(status, w.id, state)
  /\ misreported' = IF w.owned THEN misreported \ {w.id} ELSE misreported \cup {w.id}

WorkerOnly == UNCHANGED <<rows, memory, disk, engine, request, added, tangled, half>>
Quietly == UNCHANGED <<status, misreported, faults>>

\* runOnce, at first or when the back-off is over: GetAccount, then the password.
GetAccount(w) ==
  /\ w.pc \in {"read", "sleep"} /\ ~Cancelled(w)
  /\ w.id \in DOMAIN rows \cap DOMAIN memory
  /\ Goto(w, "dial") /\ SetStatus(w, "connecting")
  /\ UNCHANGED faults /\ WorkerOnly

\* The context may be done by the time the connection stands.
Dial(w) ==
  /\ w.pc = "dial"
  /\ Goto(w, "serve") /\ SetStatus(w, "ok")
  /\ UNCHANGED faults /\ WorkerOnly

\* supervise, after a run.
AfterRun(w) == IF Cancelled(w) \/ ~w.owned THEN "gone" ELSE "sleep"

\* A read, the connection or a command fails, or the context is done amid one. If the
\* back-off ends as well as the context, supervise may run the worker once more.
RunOnceFails(w) ==
  /\ w.pc \in {"read", "sleep", "dial", "serve"}
  /\ Goto(w, AfterRun(w)) /\ SetStatus(w, "error")
  /\ UNCHANGED faults /\ WorkerOnly

\* The main loop returns nil.
Served(w) ==
  /\ w.pc = "serve" /\ Cancelled(w)
  /\ Goto(w, AfterRun(w)) /\ Quietly /\ WorkerOnly

\* Recovered by supervise.
Panic(w) ==
  /\ w.pc \in {"dial", "serve"}
  /\ Fault
  /\ Goto(w, AfterRun(w))
  /\ misreported' = misreported \cup {w.id}
  /\ UNCHANGED status /\ WorkerOnly

\* The back-off is left.
Leave(w) ==
  /\ w.pc = "sleep" /\ Cancelled(w)
  /\ Goto(w, "gone") /\ Quietly /\ WorkerOnly

-----------------------------------------------------------------------------
(* Stub.AddAccount.                                                        *)

\* Once the process is to end no new calls are taken.
Idle(c) == request[c].pc = "none" /\ ~Closing

InsertAccount(c) ==
  /\ Idle(c) /\ added < MaxAdds
  /\ added' = added + 1
  /\ rows' = With(rows, NextId, added + 1)
  /\ request' = [request EXCEPT ![c] = [pc |-> "set", id |-> NextId, mailbox |-> added + 1]]
  /\ tangled' = IF About(NextId) # {} \/ Starting(NextId) \/ NextId \in Registered
                THEN tangled \cup {NextId} ELSE tangled \ {NextId}
  /\ half' = half \ {NextId}
  /\ UNCHANGED <<memory, disk, engine, workers, status, faults, misreported>>

\* Mutant: a password that is there is kept.
SecretsSetKeeps(c) ==
  LET id == request[c].id IN
  /\ request[c].pc = "set"
  /\ memory' = IF id \in DOMAIN memory THEN memory ELSE With(memory, id, request[c].mailbox)
  /\ \/ disk' = memory' /\ request' = [request EXCEPT ![c].pc = "start"] /\ UNCHANGED faults
     \/ Fault /\ request' = [request EXCEPT ![c].pc = "undo"] /\ UNCHANGED disk
  /\ UNCHANGED <<rows, engine, workers, status, added, tangled, half, misreported>>

\* The map has the password even if saving it fails.
SecretsSet(c) ==
  LET id == request[c].id IN
  /\ request[c].pc = "set"
  /\ memory' = With(memory, id, request[c].mailbox)
  /\ \/ disk' = memory' /\ request' = [request EXCEPT ![c].pc = "start"] /\ UNCHANGED faults
     \/ Fault /\ request' = [request EXCEPT ![c].pc = "undo"] /\ UNCHANGED disk
  /\ UNCHANGED <<rows, engine, workers, status, added, tangled, half, misreported>>

Answer(c) == request' = [request EXCEPT ![c] = NoRequest]

\* Mutant: the row stays.
UndoNothing(c) ==
  /\ request[c].pc = "undo"
  /\ Answer(c)
  /\ UNCHANGED <<rows, memory, disk, engine, workers, status, added, faults, tangled,
                 half, misreported>>

\* DeleteAccount after a failed Set; its own failure, bounded by that one, is ignored.
UndoAdd(c) ==
  LET id == request[c].id IN
  /\ request[c].pc = "undo"
  /\ \/ rows' = Without(rows, id) /\ UNCHANGED half
     \/ half' = half \cup {id} /\ UNCHANGED rows
  /\ Answer(c)
  /\ UNCHANGED <<memory, disk, engine, workers, status, added, faults, tangled, misreported>>

StartAdded(c) ==
  /\ request[c].pc = "start"
  /\ StartAccount(request[c].id)
  /\ Answer(c)
  /\ UNCHANGED <<rows, memory, disk, engine, status, added, faults, tangled, half, misreported>>

-----------------------------------------------------------------------------
(* Stub.RemoveAccount.                                                     *)

RemoveAccount(c, id) ==
  /\ Idle(c) /\ id \in DOMAIN rows
  /\ StopAccount(id)
  /\ request' = [request EXCEPT ![c] = [pc |-> "delete", id |-> id]]
  /\ tangled' = IF About(id) # {} \/ Starting(id) THEN tangled \cup {id} ELSE tangled
  /\ UNCHANGED <<rows, memory, disk, engine, added, faults, half>>

\* If it fails, or finds nothing, the call ends here: the worker stays stopped.
DeleteAccount(c) ==
  LET id == request[c].id IN
  /\ request[c].pc = "delete"
  /\ \/ /\ id \in DOMAIN rows
        /\ rows' = Without(rows, id)
        /\ request' = [request EXCEPT ![c].pc = "forget"]
        /\ UNCHANGED <<half, faults>>
     \/ /\ IF id \in DOMAIN rows THEN Fault /\ half' = half \cup {id} ELSE UNCHANGED <<half, faults>>
        /\ Answer(c)
        /\ UNCHANGED rows
  /\ UNCHANGED <<memory, disk, engine, workers, status, added, tangled, misreported>>

\* The password goes, if only from memory.
SecretsDelete(c) ==
  LET id == request[c].id IN
  /\ request[c].pc = "forget"
  /\ memory' = Without(memory, id)
  /\ \/ disk' = memory' /\ UNCHANGED faults
     \/ Fault /\ UNCHANGED disk
  /\ Answer(c)
  /\ UNCHANGED <<rows, engine, workers, status, added, tangled, half, misreported>>

-----------------------------------------------------------------------------
Run(w) == \/ GetAccount(w) \/ Dial(w) \/ RunOnceFails(w)
          \/ Served(w) \/ Leave(w)
Worker(w) == Run(w) \/ Panic(w)
Lifecycle == ListAccounts \/ StartListed \/ Shutdown \/ Return \/ Restart
Call(c) == \/ InsertAccount(c) \/ SecretsSet(c) \/ UndoAdd(c) \/ StartAdded(c)
           \/ \E id \in Ids : RemoveAccount(c, id)
           \/ DeleteAccount(c) \/ SecretsDelete(c)

Next == \/ Lifecycle
        \/ \E w \in workers : Worker(w)
        \/ \E c \in Clients : Call(c)
Spec == Init /\ [][Next]_vars

-----------------------------------------------------------------------------
(* Properties.                                                             *)

\* A worker is the registered one of its account until it is stopped, whoever adds
\* and removes accounts meanwhile, and a registered one does not give up: at most one
\* worker serves an account, and none serves it for nobody.
WorkersAreOwned ==
  \A w \in workers :
    /\ w.owned <=> ~w.stopped
    /\ w.pc = "gone" => Cancelled(w)

Settled(id) == About(id) = {} /\ id \notin tangled \cup half

\* Every account has a worker and every worker an account, when no call is under way,
\* unless two callers were at it at once or a call has failed half-way.
RowsAreServed ==
  \A id \in Ids : Settled(id) /\ engine.pc = "up" => (id \in DOMAIN rows <=> id \in Registered)

\* An account has its own password in memory and on disk: never that of an account
\* that had its row id before, which a failed or interrupted call may have left there.
PasswordsAreTheirOwn ==
  \A id \in DOMAIN rows :
    Settled(id) => /\ id \in DOMAIN memory /\ memory[id] = rows[id]
                   /\ id \in DOMAIN disk /\ disk[id] = rows[id]

\* What ListAccounts shows is the word of the account's worker and still true: an
\* account that waits to be tried again is never shown as healthy, nor without cause
\* as failing.
StatusIsCurrent ==
  /\ DOMAIN status \subseteq Registered \cup misreported
  /\ \A w \in {v \in workers : v.owned /\ ~Cancelled(v) /\ v.id \notin misreported} :
       /\ w.pc = "sleep" => w.id \in DOMAIN status /\ status[w.id] = "error"
       /\ w.pc = "serve" => w.id \in DOMAIN status /\ status[w.id] = "ok"
=============================================================================
