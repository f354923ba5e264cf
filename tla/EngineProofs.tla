------------------------------ MODULE EngineProofs ------------------------------
(***************************************************************************)
(* Proofs about Engine, for any number of callers, accounts and faults:    *)
(* who owns a worker, whose password an account has, which accounts are    *)
(* served, and what the shown status is worth.                             *)
(*                                                                         *)
(* That rows, workers and passwords agree when nobody is at work on an     *)
(* account is not inductive. Book says, for one account about which no two *)
(* callers act at once, what holds at each point of a call: AddAccount and *)
(* RemoveAccount undo and redo the agreement step by step.                 *)
(***************************************************************************)
EXTENDS Engine, FiniteLemmas, TLAPS

\* A function on some of the ids.
Table(f, S) == DOMAIN f \subseteq Ids /\ \A i \in DOMAIN f : f[i] \in S

Single == \A w, v \in workers : w.owned /\ v.owned /\ v.id = w.id => v = w

Adding   == [pc : {"set", "undo", "start"}, id : Ids, mailbox : Mailboxes]
Removing == [pc : {"delete", "forget"}, id : Ids]
States   == {"read", "dial", "serve", "sleep", "gone"}

\* TypeOK, and that row ids do not outrun the accounts added.
Types ==
  /\ Table(rows, Mailboxes) /\ Table(memory, Mailboxes) /\ Table(disk, Mailboxes)
  /\ DOMAIN rows \subseteq 1..added
  /\ engine \in [pc : {"listing", "starting", "up", "closing", "returned"}, left : SUBSET Ids]
  /\ workers \subseteq Workers /\ Single
  /\ Table(status, {"connecting", "ok", "error"})
  /\ request \in [Clients -> Requests]
  /\ added \in 0..MaxAdds /\ faults \in 0..MaxFaults

\* No two callers were at it at once, and no call about it has failed half-way.
Clean(id) == id \notin tangled \cup half

OwnPassword(id) ==
  /\ id \in DOMAIN memory /\ memory[id] = rows[id]
  /\ id \in DOMAIN disk /\ disk[id] = rows[id]

Unsaved(id) == \E c \in About(id) : request[c].pc \in {"set", "undo"}

\* How an account stands at each point of the one call about it, or without one.
Book(id) ==
  Clean(id) =>
    /\ \A c, d \in About(id) : c = d
    /\ Starting(id) => About(id) = {} /\ id \in DOMAIN rows
    /\ \A c \in About(id) :
         /\ request[c].pc \in {"set", "undo"} =>
              id \in DOMAIN rows /\ rows[id] = request[c].mailbox /\ id \notin Registered
         /\ request[c].pc = "start"  => id \in DOMAIN rows
         /\ request[c].pc = "delete" => id \in DOMAIN rows /\ id \notin Registered
         /\ request[c].pc = "forget" => id \notin DOMAIN rows /\ id \notin Registered
    /\ About(id) = {} =>
         /\ id \in Registered => id \in DOMAIN rows
         /\ id \in DOMAIN rows /\ engine.pc # "listing" /\ ~Starting(id) => id \in Registered
    /\ id \in DOMAIN rows /\ ~Unsaved(id) => OwnPassword(id)

Inv == Types /\ WorkersAreOwned /\ StatusIsCurrent /\ \A id \in Ids : Book(id)

-----------------------------------------------------------------------------
(* Tables, ids and requests.                                               *)

LEMMA Entered ==
  ASSUME NEW f, NEW i, NEW v
  PROVE  /\ DOMAIN With(f, i, v) = DOMAIN f \cup {i} /\ With(f, i, v)[i] = v
         /\ \A j \in DOMAIN f : j # i => With(f, i, v)[j] = f[j]
BY DEF With

LEMMA EnteredInTable ==
  ASSUME NEW f, NEW S, Table(f, S), NEW i \in Ids, NEW v \in S
  PROVE  Table(With(f, i, v), S)
BY DEF With, Table

LEMMA Removed ==
  ASSUME NEW f, NEW i
  PROVE  /\ DOMAIN Without(f, i) = DOMAIN f \ {i}
         /\ \A j \in DOMAIN f : j # i => Without(f, i)[j] = f[j]
BY DEF Without, Restrict

LEMMA RemovedFromTable ==
  ASSUME NEW f, NEW S, Table(f, S), NEW i
  PROVE  Table(Without(f, i), S)
BY DEF Without, Restrict, Table

\* A new row has an id of its own.
LEMMA NextIdIsNew ==
  ASSUME Types, added < MaxAdds
  PROVE  NextId \in 1..(added + 1) /\ NextId \in Ids /\ NextId \notin DOMAIN rows
<1> DEFINE S == DOMAIN rows \cup {0}
<1>1. added \in Nat /\ MaxAdds \in Nat /\ S \subseteq 0..added
  BY ConstantsAssumption DEF Types
<1>2. IsFiniteSet(S)
  <2>1. IsFiniteSet(0..added)
    BY <1>1, FS_Interval
  <2> HIDE DEF S
  <2> QED  BY <1>1, <2>1, FS_Subset
<1>3. S \in SUBSET Nat /\ S # {}
  BY <1>1
<1> HIDE DEF S
<1>4. Max(S) \in S /\ \A y \in S : Max(S) >= y
  BY <1>2, <1>3, MaxIsGreatest
<1>5. PICK m : m = Max(S)
  OBVIOUS
<1>6. m \in 0..added /\ \A y \in S : m >= y
  BY <1>1, <1>4, <1>5
<1>7. NextId = m + 1
  BY <1>5 DEF NextId, S
<1>8. m + 1 \notin S
  BY <1>6
<1> QED  BY <1>1, <1>6, <1>7, <1>8 DEF S, Ids

LEMMA LeftIsFinite ==
  ASSUME Types
  PROVE  engine.left \in SUBSET Nat /\ engine.left \in SUBSET Ids /\ IsFiniteSet(engine.left)
<1>1. IsFiniteSet(1..MaxAdds) /\ MaxAdds \in Nat
  BY ConstantsAssumption, FS_Interval
<1>2. engine.left \in SUBSET (1..MaxAdds)
  BY DEF Types, Ids
<1> QED  BY <1>1, <1>2, FS_Subset DEF Ids

\* What a request is.
LEMMA RequestIs ==
  ASSUME Types, NEW c \in Clients
  PROVE  /\ request[c].pc \in {"none", "set", "undo", "start", "delete", "forget"}
         /\ request[c].pc \in {"set", "undo", "start"} => request[c] \in Adding
         /\ request[c].pc \in {"delete", "forget"} => request[c] \in Removing
         /\ request[c].pc # "none" => request[c].id \in Ids
BY DEF Types, Requests, NoRequest, Adding, Removing

\* A caller goes on to something else.
LEMMA Changed ==
  ASSUME Types, NEW c \in Clients, NEW q \in Requests, request' = [request EXCEPT ![c] = q]
  PROVE  /\ request' \in [Clients -> Requests] /\ request'[c] = q
         /\ \A d \in Clients : d # c => request'[d] = request[d]
BY DEF Types

LEMMA Advanced ==
  ASSUME Types, NEW c \in Clients, NEW pc, request' = [request EXCEPT ![c].pc = pc],
         \/ request[c].pc = "set" /\ pc \in {"start", "undo"}
         \/ request[c].pc = "delete" /\ pc = "forget"
  PROVE  /\ request' \in [Clients -> Requests]
         /\ request'[c].pc = pc /\ request'[c].id = request[c].id
         /\ request[c].pc = "set" => request'[c].mailbox = request[c].mailbox
         /\ \A d \in Clients : d # c => request'[d] = request[d]
<1> DEFINE q == [request[c] EXCEPT !.pc = pc]
<1>1. CASE request[c].pc = "set"
  <2>1. request[c] \in Adding
    BY <1>1, RequestIs
  <2>2. q \in Adding /\ q.pc = pc /\ q.id = request[c].id /\ q.mailbox = request[c].mailbox
    BY <1>1, <2>1 DEF Adding
  <2>3. q \in Requests /\ request' = [request EXCEPT ![c] = q]
    BY <2>2 DEF Requests, Adding
  <2> HIDE DEF q
  <2> QED  BY <2>2, <2>3, Changed
<1>2. CASE request[c].pc = "delete"
  <2>1. request[c] \in Removing
    BY <1>2, RequestIs
  <2>2. q \in Removing /\ q.pc = pc /\ q.id = request[c].id
    BY <1>2, <2>1 DEF Removing
  <2>3. q \in Requests /\ request' = [request EXCEPT ![c] = q]
    BY <2>2 DEF Requests, Removing
  <2> HIDE DEF q
  <2> QED  BY <1>2, <2>2, <2>3, Changed
<1> QED  BY <1>1, <1>2

LEMMA Answers ==
  ASSUME Types, NEW c \in Clients, Answer(c)
  PROVE  /\ request' \in [Clients -> Requests] /\ request'[c].pc = "none"
         /\ \A d \in Clients : d # c => request'[d] = request[d]
<1>1. NoRequest \in Requests /\ NoRequest.pc = "none"
  BY DEF Requests, NoRequest
<1> QED  BY <1>1, Changed DEF Answer

-----------------------------------------------------------------------------
(* Workers.                                                                *)

LEMMA Started ==
  ASSUME workers \subseteq Workers, Single, NEW id \in Ids, StartAccount(id)
  PROVE  /\ workers' \subseteq Workers /\ Single' /\ Registered' = Registered \cup {id}
         /\ \A w \in workers' :
              w \in workers \/ (w.owned = TRUE /\ w.stopped = FALSE /\ w.pc = "read" /\ w.id = id)
<1>1. CASE id \in Registered
  <2>1. workers' = workers
    BY <1>1 DEF StartAccount
  <2> QED  BY <1>1, <2>1 DEF Single, Registered
<1>2. CASE id \notin Registered
  <2> DEFINE n == [id |-> id, owned |-> TRUE, stopped |-> FALSE, pc |-> "read"]
  <2>1. n \in Workers /\ n.id = id /\ n.owned = TRUE /\ n.stopped = FALSE /\ n.pc = "read"
    BY DEF Workers
  <2>2. workers' = workers \cup {n}
    BY <1>2 DEF StartAccount
  <2>3. \A w \in workers : w.owned => w.id # id
    BY <1>2 DEF Registered
  <2> HIDE DEF n
  <2>4. Single'
    BY <2>1, <2>2, <2>3 DEF Single
  <2>5. Registered' = Registered \cup {id}
    BY <2>1, <2>2 DEF Registered
  <2> QED  BY <2>1, <2>2, <2>4, <2>5
<1> QED  BY <1>1, <1>2

LEMMA StoppedAccount ==
  ASSUME workers \subseteq Workers, Single, NEW id \in Ids, StopAccount(id)
  PROVE  /\ workers' \subseteq Workers /\ Single' /\ Registered' = Registered \ {id}
         /\ \A w \in workers' : \/ w \in workers /\ (w.owned => w.id # id)
                                \/ w.owned = FALSE /\ w.stopped = TRUE
<1> DEFINE off(w) == [w EXCEPT !.owned = FALSE, !.stopped = TRUE]
           kept   == {v \in workers : ~(v.id = id /\ v.owned /\ v.pc = "gone")}
<1>1. workers' = {IF w.id = id /\ w.owned THEN off(w) ELSE w : w \in kept}
  BY DEF StopAccount
<1>2. \A w \in workers : /\ off(w) \in Workers /\ off(w).owned = FALSE /\ off(w).stopped = TRUE
                         /\ w.owned \in BOOLEAN /\ w.id \in Ids
  BY DEF Workers
<1> HIDE DEF off
<1>3. \A w \in workers' : \/ w \in workers /\ (w.owned => w.id # id)
                          \/ w \in Workers /\ w.owned = FALSE /\ w.stopped = TRUE
  BY <1>1, <1>2
<1>4. \A w \in workers : w.owned /\ w.id # id => w \in workers'
  BY <1>1
<1>5. workers' \subseteq Workers /\ Single'
  BY <1>3 DEF Single
<1>6. Registered' = Registered \ {id}
  BY <1>3, <1>4 DEF Registered
<1> QED  BY <1>3, <1>5, <1>6

LEMMA Becomes ==
  ASSUME workers \subseteq Workers, Single, NEW w \in workers, NEW pc \in States, Goto(w, pc)
  PROVE  /\ workers' \subseteq Workers /\ Single' /\ Registered' = Registered
         /\ \A v \in workers' :
              \/ v \in workers /\ v # w
              \/ v.id = w.id /\ v.owned = w.owned /\ v.stopped = w.stopped /\ v.pc = pc
<1> DEFINE u == [w EXCEPT !.pc = pc]
<1>1. /\ u \in Workers /\ u.id = w.id /\ u.owned = w.owned /\ u.stopped = w.stopped /\ u.pc = pc
      /\ w.owned \in BOOLEAN
  BY DEF Workers, States
<1>2. workers' = (workers \ {w}) \cup (IF u.pc = "gone" /\ ~u.owned THEN {} ELSE {u})
  BY DEF Goto, Become
<1> HIDE DEF u
<1>3. \A v \in workers' : (v \in workers /\ v # w) \/ v = u
  BY <1>2
<1>4. \A v \in workers : v.owned => v \in workers' \/ (v = w /\ u \in workers')
  BY <1>1, <1>2
<1>5. workers' \subseteq Workers /\ Single'
  BY <1>1, <1>3 DEF Single
<1>6. Registered' = Registered
  BY <1>1, <1>3, <1>4 DEF Registered
<1> QED  BY <1>1, <1>3, <1>5, <1>6

\* What a step of a worker is.
LEMMA WorkerSteps ==
  ASSUME Types, WorkersAreOwned, NEW w \in workers, Worker(w)
  PROVE  \E pc \in States :
           /\ Goto(w, pc) /\ WorkerOnly /\ faults' \in 0..MaxFaults
           /\ pc = "gone" => w.stopped \/ Closing
           /\ \/ \E s \in {"connecting", "ok", "error"} :
                   SetStatus(w, s) /\ (pc = "sleep" => s = "error") /\ (pc = "serve" => s = "ok")
              \/ pc # "serve" /\ UNCHANGED status /\ misreported' = misreported \cup {w.id}
              \/ pc = "gone" /\ UNCHANGED <<status, misreported>>
<1>0. /\ faults \in 0..MaxFaults /\ (~w.owned => w.stopped) /\ w.owned \in BOOLEAN
      /\ MaxFaults \in Nat
  BY ConstantsAssumption DEF Types, WorkersAreOwned, Workers
<1>1. CASE GetAccount(w)
  BY <1>0, <1>1 DEF GetAccount, States
<1>2. CASE Dial(w)
  BY <1>0, <1>2 DEF Dial, States
<1>3. CASE RunOnceFails(w)
  <2>1. AfterRun(w) \in {"gone", "sleep"} /\ (AfterRun(w) = "gone" => w.stopped \/ Closing)
    BY <1>0 DEF AfterRun, Cancelled
  <2> QED  BY <1>0, <1>3, <2>1 DEF RunOnceFails, States
<1>4. CASE Served(w)
  <2>1. AfterRun(w) = "gone" /\ (w.stopped \/ Closing)
    BY <1>4 DEF Served, AfterRun, Cancelled
  <2> QED  BY <1>0, <1>4, <2>1 DEF Served, Quietly, States
<1>5. CASE Leave(w)
  BY <1>0, <1>5 DEF Leave, Cancelled, Quietly, States
<1>6. CASE Panic(w)
  <2>1. AfterRun(w) \in {"gone", "sleep"} /\ (AfterRun(w) = "gone" => w.stopped \/ Closing)
    BY <1>0 DEF AfterRun, Cancelled
  <2>2. faults' \in 0..MaxFaults
    BY <1>0, <1>6 DEF Panic, Fault
  <2> QED  BY <1>6, <2>1, <2>2 DEF Panic, States
<1> QED  BY <1>1, <1>2, <1>3, <1>4, <1>5, <1>6 DEF Worker, Run

-----------------------------------------------------------------------------
(* Types.                                                                  *)

LEMMA TypesGiveTypeOK == Types => TypeOK
<1> SUFFICES ASSUME Types PROVE TypeOK
  OBVIOUS
<1>1. \A f \in {rows, memory, disk} : DOMAIN f \subseteq Ids /\ \A i \in DOMAIN f : f[i] \in Mailboxes
  BY DEF Types, Table
<1>2. /\ engine.pc \in {"listing", "starting", "up", "closing", "returned"}
      /\ engine.left \subseteq Ids
  BY DEF Types
<1>3. DOMAIN status \subseteq Ids /\ Range(status) \subseteq {"connecting", "ok", "error"}
  BY DEF Types, Table, Range
<1> QED  BY <1>1, <1>2, <1>3 DEF Types, Single, TypeOK

LEMMA TypesKept == Types /\ WorkersAreOwned /\ [Next]_vars => Types'
<1> SUFFICES ASSUME Types, WorkersAreOwned, [Next]_vars PROVE Types'
  OBVIOUS
<1>1. faults \in 0..MaxFaults /\ MaxFaults \in Nat /\ MaxAdds \in Nat \ {0}
      /\ added \in 0..MaxAdds /\ (Fault => faults' \in 0..MaxFaults)
  BY ConstantsAssumption DEF Types, Fault
<1>2. CASE ListAccounts
  <2>1. engine' \in [pc : {"listing", "starting", "up", "closing", "returned"}, left : SUBSET Ids]
    BY <1>2 DEF ListAccounts, Types, Table
  <2>2. faults' \in 0..MaxFaults
    BY <1>1, <1>2 DEF ListAccounts
  <2> QED  BY <1>2, <2>1, <2>2 DEF ListAccounts, Types, Table, Single
<1>3. CASE StartListed
  <2>1. CASE engine.left = {}
    BY <1>3, <2>1 DEF StartListed, Types, Table, Single
  <2>2. CASE engine.left # {}
    <3>1. PICK id : id = Min(engine.left)
      OBVIOUS
    <3>2. id \in Ids
      BY <2>2, <3>1, LeftIsFinite, MinIsLeast DEF Types
    <3>3. StartAccount(id) /\ engine' = [engine EXCEPT !.left = @ \ {id}]
      BY <1>3, <2>2, <3>1 DEF StartListed
    <3>4. engine' \in [pc : {"listing", "starting", "up", "closing", "returned"}, left : SUBSET Ids]
      BY <3>3 DEF Types
    <3>5. workers' \subseteq Workers /\ Single'
      BY <3>2, <3>3, Started DEF Types
    <3> QED  BY <1>3, <3>4, <3>5 DEF StartListed, Types, Table
  <2> QED  BY <2>1, <2>2
<1>4. CASE Shutdown \/ Return
  <2>1. engine' \in [pc : {"listing", "starting", "up", "closing", "returned"}, left : SUBSET Ids]
    BY <1>4 DEF Shutdown, Return, Types
  <2> QED  BY <1>4, <2>1 DEF Shutdown, Return, Types, Table, Single
<1>5. CASE Restart
  <2>1. /\ engine' \in [pc : {"listing", "starting", "up", "closing", "returned"}, left : SUBSET Ids]
        /\ request' \in [Clients -> Requests]
    BY <1>5 DEF Restart, Reopen, Requests
  <2>2. faults' \in 0..MaxFaults
    BY <1>1, <1>5 DEF Restart
  <2>3. DOMAIN status' = {} /\ workers' = {}
    BY <1>5 DEF Restart, Reopen
  <2> QED  BY <1>5, <2>1, <2>2, <2>3 DEF Restart, Reopen, Types, Table, Single
<1>6. ASSUME NEW w \in workers, Worker(w) PROVE Types'
  <2>1. PICK pc \in States : /\ Goto(w, pc) /\ WorkerOnly /\ faults' \in 0..MaxFaults
                             /\ UNCHANGED status \/ \E s \in {"connecting", "ok", "error"} : SetStatus(w, s)
    BY <1>6, WorkerSteps
  <2>2. workers' \subseteq Workers /\ Single' /\ w.id \in Ids
    BY <2>1, Becomes DEF Types, Workers
  <2>3. Table(status, {"connecting", "ok", "error"})'
    <3>1. CASE UNCHANGED status
      BY <3>1 DEF Types, Table
    <3>2. CASE \E s \in {"connecting", "ok", "error"} : SetStatus(w, s)
      BY <2>2, <3>2, EnteredInTable DEF SetStatus, Types
    <3> QED  BY <2>1, <3>1, <3>2
  <2> QED  BY <2>1, <2>2, <2>3 DEF WorkerOnly, Types, Table
<1>7. ASSUME NEW c \in Clients, InsertAccount(c) PROVE Types'
  <2>1. PICK n : n = NextId
    OBVIOUS
  <2>2. /\ n \in 1..(added + 1) /\ n \in Ids /\ added' = added + 1 /\ added' \in 0..MaxAdds
        /\ added + 1 \in Mailboxes
    BY <1>1, <1>7, <2>1, NextIdIsNew DEF InsertAccount, Mailboxes
  <2>3. /\ rows' = With(rows, n, added + 1)
        /\ request' = [request EXCEPT ![c] = [pc |-> "set", id |-> n, mailbox |-> added + 1]]
    BY <1>7, <2>1 DEF InsertAccount
  <2>4. DOMAIN rows' \subseteq 1..added' /\ Table(rows, Mailboxes)'
    <3>1. DOMAIN rows' = DOMAIN rows \cup {n}
      BY <2>3, Entered
    <3>2. Table(rows', Mailboxes)
      BY <2>2, <2>3, EnteredInTable DEF Types
    <3> QED  BY <1>1, <2>2, <3>1, <3>2 DEF Types, Table
  <2>5. request' \in [Clients -> Requests]
    BY <2>2, <2>3, Changed DEF Requests
  <2> QED  BY <1>7, <2>2, <2>4, <2>5 DEF InsertAccount, Types, Table, Single
<1>8. ASSUME NEW c \in Clients, SecretsSet(c) PROVE Types'
  <2>1. /\ request[c].id \in Ids /\ request[c].mailbox \in Mailboxes
        /\ memory' = With(memory, request[c].id, request[c].mailbox) /\ disk' \in {memory', disk}
        /\ faults' \in 0..MaxFaults
    BY <1>1, <1>8, RequestIs DEF SecretsSet, Adding
  <2>2. Table(memory', Mailboxes) /\ Table(disk', Mailboxes)
    BY <2>1, EnteredInTable DEF Types
  <2>3. request' \in [Clients -> Requests]
    BY <1>8, Advanced DEF SecretsSet
  <2> QED  BY <1>8, <2>1, <2>2, <2>3 DEF SecretsSet, Types, Table, Single
<1>9. ASSUME NEW c \in Clients, UndoAdd(c) PROVE Types'
  <2>1. rows' = rows \/ rows' = Without(rows, request[c].id)
    BY <1>9 DEF UndoAdd
  <2>2. Table(rows', Mailboxes) /\ DOMAIN rows' \subseteq 1..added
    <3>1. Table(rows', Mailboxes)
      BY <2>1, RemovedFromTable DEF Types
    <3>2. DOMAIN rows' \subseteq DOMAIN rows
      BY <2>1, Removed
    <3> QED  BY <3>1, <3>2 DEF Types
  <2>3. request' \in [Clients -> Requests]
    BY <1>9, Answers DEF UndoAdd
  <2> QED  BY <1>9, <2>2, <2>3 DEF UndoAdd, Types, Table, Single
<1>10. ASSUME NEW c \in Clients, StartAdded(c) PROVE Types'
  <2>1. workers' \subseteq Workers /\ Single'
    BY <1>10, RequestIs, Started DEF StartAdded, Types
  <2>2. request' \in [Clients -> Requests]
    BY <1>10, Answers DEF StartAdded
  <2> QED  BY <1>10, <2>1, <2>2 DEF StartAdded, Types, Table
<1>11. ASSUME NEW c \in Clients, NEW id \in Ids, RemoveAccount(c, id) PROVE Types'
  <2>1. workers' \subseteq Workers /\ Single'
    BY <1>11, StoppedAccount DEF RemoveAccount, Types
  <2>2. Table(status', {"connecting", "ok", "error"})
    BY <1>11, RemovedFromTable DEF RemoveAccount, StopAccount, Types
  <2>3. request' \in [Clients -> Requests]
    BY <1>11, Changed DEF RemoveAccount, Requests
  <2> QED  BY <1>11, <2>1, <2>2, <2>3 DEF RemoveAccount, Types, Table
<1>12. ASSUME NEW c \in Clients, DeleteAccount(c) PROVE Types'
  <2>1. (rows' = rows \/ rows' = Without(rows, request[c].id)) /\ faults' \in 0..MaxFaults
    BY <1>1, <1>12 DEF DeleteAccount
  <2>2. Table(rows', Mailboxes) /\ DOMAIN rows' \subseteq 1..added
    <3>1. Table(rows', Mailboxes)
      BY <2>1, RemovedFromTable DEF Types
    <3>2. DOMAIN rows' \subseteq DOMAIN rows
      BY <2>1, Removed
    <3> QED  BY <3>1, <3>2 DEF Types
  <2>3. request' \in [Clients -> Requests]
    BY <1>12, Answers, Advanced DEF DeleteAccount
  <2> QED  BY <1>12, <2>1, <2>2, <2>3 DEF DeleteAccount, Types, Table, Single
<1>13. ASSUME NEW c \in Clients, SecretsDelete(c) PROVE Types'
  <2>1. memory' = Without(memory, request[c].id) /\ disk' \in {memory', disk} /\ faults' \in 0..MaxFaults
    BY <1>1, <1>13 DEF SecretsDelete
  <2>2. Table(memory', Mailboxes) /\ Table(disk', Mailboxes)
    BY <2>1, RemovedFromTable DEF Types
  <2>3. request' \in [Clients -> Requests]
    BY <1>13, Answers DEF SecretsDelete
  <2> QED  BY <1>13, <2>1, <2>2, <2>3 DEF SecretsDelete, Types, Table, Single
<1>14. CASE UNCHANGED vars
  BY <1>14 DEF vars, Types, Table, Single
<1> QED  BY <1>2, <1>3, <1>4, <1>5, <1>6, <1>7, <1>8, <1>9, <1>10, <1>11, <1>12, <1>13, <1>14
         DEF Next, Lifecycle, Call

-----------------------------------------------------------------------------
(* Workers and their status.                                               *)

LEMMA OwnedKept == Types /\ WorkersAreOwned /\ [Next]_vars => WorkersAreOwned'
<1> SUFFICES ASSUME Types, WorkersAreOwned, [Next]_vars PROVE WorkersAreOwned'
  OBVIOUS
<1>1. workers \subseteq Workers /\ Single
  BY DEF Types
<1>2. CASE engine' = engine /\ UNCHANGED workers
  BY <1>2 DEF WorkersAreOwned, Cancelled, Closing
<1>3. ASSUME Closing => Closing',
             \A w \in workers' : w \in workers \/ (w.owned = TRUE /\ w.stopped = FALSE /\ w.pc = "read")
                                 \/ (w.owned = FALSE /\ w.stopped = TRUE)
      PROVE  WorkersAreOwned'
  BY <1>3 DEF WorkersAreOwned, Cancelled
<1>4. CASE ListAccounts \/ Shutdown \/ Return
  <2>1. workers' = workers /\ (Closing => Closing')
    BY <1>4 DEF ListAccounts, Shutdown, Return, Closing, Types
  <2> QED  BY <1>3, <2>1
<1>5. CASE StartListed
  <2>1. Closing => Closing'
    BY <1>5 DEF StartListed, Closing
  <2>2. CASE engine.left = {}
    BY <1>3, <1>5, <2>1, <2>2 DEF StartListed
  <2>3. CASE engine.left # {}
    <3>1. PICK id : id = Min(engine.left)
      OBVIOUS
    <3>2. id \in Ids /\ StartAccount(id)
      BY <1>5, <2>3, <3>1, LeftIsFinite, MinIsLeast DEF StartListed, Types
    <3> QED  BY <1>1, <1>3, <2>1, <3>2, Started
  <2> QED  BY <2>2, <2>3
<1>6. CASE Restart
  BY <1>6 DEF Restart, Reopen, WorkersAreOwned
<1>7. ASSUME NEW w \in workers, Worker(w) PROVE WorkersAreOwned'
  <2>1. PICK pc \in States : Goto(w, pc) /\ WorkerOnly /\ (pc = "gone" => w.stopped \/ Closing)
    BY <1>7, WorkerSteps
  <2>2. engine' = engine
    BY <2>1 DEF WorkerOnly
  <2>3. \A v \in workers' : \/ v \in workers
                            \/ v.owned = w.owned /\ v.stopped = w.stopped /\ v.pc = pc
    BY <1>1, <2>1, Becomes
  <2> QED  BY <2>1, <2>2, <2>3 DEF WorkersAreOwned, Cancelled, Closing
<1>8. ASSUME NEW c \in Clients, Call(c) PROVE WorkersAreOwned'
  <2>1. engine' = engine /\ (Closing => Closing')
    BY <1>8 DEF Call, InsertAccount, SecretsSet, UndoAdd, StartAdded, RemoveAccount, DeleteAccount,
                SecretsDelete, Closing
  <2>2. CASE StartAdded(c)
    BY <1>1, <1>3, <2>1, <2>2, RequestIs, Started DEF StartAdded
  <2>3. ASSUME NEW id \in Ids, RemoveAccount(c, id) PROVE WorkersAreOwned'
    BY <1>1, <1>3, <2>1, <2>3, StoppedAccount DEF RemoveAccount
  <2>4. CASE InsertAccount(c) \/ SecretsSet(c) \/ UndoAdd(c) \/ DeleteAccount(c) \/ SecretsDelete(c)
    BY <1>2, <2>1, <2>4 DEF InsertAccount, SecretsSet, UndoAdd, DeleteAccount, SecretsDelete
  <2> QED  BY <1>8, <2>2, <2>3, <2>4 DEF Call
<1>9. CASE UNCHANGED vars
  BY <1>2, <1>9 DEF vars
<1> QED  BY <1>4, <1>5, <1>6, <1>7, <1>8, <1>9 DEF Next, Lifecycle

LEMMA StatusKept == Types /\ WorkersAreOwned /\ StatusIsCurrent /\ [Next]_vars => StatusIsCurrent'
<1> SUFFICES ASSUME Types, WorkersAreOwned, StatusIsCurrent, [Next]_vars PROVE StatusIsCurrent'
  OBVIOUS
<1>1. workers \subseteq Workers /\ Single
  BY DEF Types
<1>2. CASE engine' = engine /\ UNCHANGED <<workers, status, misreported>>
  BY <1>2 DEF StatusIsCurrent, Cancelled, Closing, Registered
<1>3. ASSUME Closing => Closing', UNCHANGED <<status, misreported>>, Registered \subseteq Registered',
             \A w \in workers' : w \in workers \/ w.pc = "read"
      PROVE  StatusIsCurrent'
  <2>1. \A w \in workers' : ~Cancelled(w)' => ~Cancelled(w)
    BY <1>3 DEF Cancelled
  <2>2. DOMAIN status' \subseteq Registered' \cup misreported'
    BY <1>3 DEF StatusIsCurrent
  <2>3. ASSUME NEW w \in workers', w.owned, ~Cancelled(w)', w.id \notin misreported'
        PROVE  /\ w.pc = "sleep" => w.id \in DOMAIN status' /\ status'[w.id] = "error"
               /\ w.pc = "serve" => w.id \in DOMAIN status' /\ status'[w.id] = "ok"
    BY <1>3, <2>1, <2>3 DEF StatusIsCurrent
  <2> QED  BY <2>2, <2>3 DEF StatusIsCurrent
<1>4. CASE ListAccounts \/ Shutdown \/ Return
  <2>1. UNCHANGED <<workers, status, misreported>> /\ (Closing => Closing')
    BY <1>4 DEF ListAccounts, Shutdown, Return, Closing, Types
  <2> QED  BY <1>3, <2>1 DEF Registered
<1>5. CASE StartListed
  <2>1. (Closing => Closing') /\ UNCHANGED <<status, misreported>>
    BY <1>5 DEF StartListed, Closing
  <2>2. CASE engine.left = {}
    BY <1>3, <1>5, <2>1, <2>2 DEF StartListed, Registered
  <2>3. CASE engine.left # {}
    <3>1. PICK id : id = Min(engine.left)
      OBVIOUS
    <3>2. id \in Ids /\ StartAccount(id)
      BY <1>5, <2>3, <3>1, LeftIsFinite, MinIsLeast DEF StartListed, Types
    <3> QED  BY <1>1, <1>3, <2>1, <3>2, Started
  <2> QED  BY <2>2, <2>3
<1>6. CASE Restart
  <2>1. DOMAIN status' = {} /\ workers' = {}
    BY <1>6 DEF Restart, Reopen
  <2> QED  BY <2>1 DEF StatusIsCurrent
<1>7. ASSUME NEW w \in workers, Worker(w) PROVE StatusIsCurrent'
  <2>1. PICK pc \in States :
          /\ Goto(w, pc) /\ WorkerOnly
          /\ \/ \E s \in {"connecting", "ok", "error"} :
                  SetStatus(w, s) /\ (pc = "sleep" => s = "error") /\ (pc = "serve" => s = "ok")
             \/ pc # "serve" /\ UNCHANGED status /\ misreported' = misreported \cup {w.id}
             \/ pc = "gone" /\ UNCHANGED <<status, misreported>>
    BY <1>7, WorkerSteps
  <2>2. engine' = engine
    BY <2>1 DEF WorkerOnly
  <2>3. /\ Registered' = Registered /\ (w.owned => w.id \in Registered) /\ w.owned \in BOOLEAN
        /\ \A v \in workers' :
              \/ v \in workers /\ v # w
              \/ v.id = w.id /\ v.owned = w.owned /\ v.stopped = w.stopped /\ v.pc = pc
    BY <1>1, <2>1, Becomes DEF Registered, Workers
  <2>4. \A v \in workers' : Cancelled(v)' <=> Cancelled(v)
    BY <2>2 DEF Cancelled, Closing
  <2>5. ASSUME NEW s, SetStatus(w, s), pc = "sleep" => s = "error", pc = "serve" => s = "ok"
        PROVE  StatusIsCurrent'
    <3>1. /\ DOMAIN status' = DOMAIN status \cup {w.id} /\ status'[w.id] = s
          /\ \A j \in DOMAIN status : j # w.id => status'[j] = status[j]
      <4>1. status' = With(status, w.id, s)
        BY <2>5 DEF SetStatus
      <4> QED  BY <4>1 DEF With
    <3>2. misreported' = IF w.owned THEN misreported \ {w.id} ELSE misreported \cup {w.id}
      BY <2>5 DEF SetStatus
    <3>3. DOMAIN status' \subseteq Registered' \cup misreported'
      BY <2>3, <3>1, <3>2 DEF StatusIsCurrent
    <3>4. ASSUME NEW v \in workers', v.owned, ~Cancelled(v)', v.id \notin misreported'
          PROVE  /\ v.pc = "sleep" => v.id \in DOMAIN status' /\ status'[v.id] = "error"
                 /\ v.pc = "serve" => v.id \in DOMAIN status' /\ status'[v.id] = "ok"
      <4>1. CASE v \in workers /\ v # w
        <5>1. v.id # w.id
          BY <1>1, <2>3, <3>2, <3>4, <4>1 DEF Single
        <5> QED  BY <2>4, <3>1, <3>2, <3>4, <4>1, <5>1 DEF StatusIsCurrent
      <4>2. CASE v.id = w.id /\ v.pc = pc
        BY <2>5, <3>1, <4>2
      <4> QED  BY <2>3, <4>1, <4>2
    <3> QED  BY <3>3, <3>4 DEF StatusIsCurrent
  <2>6. CASE pc # "serve" /\ UNCHANGED status /\ misreported' = misreported \cup {w.id}
    BY <2>3, <2>4, <2>6 DEF StatusIsCurrent
  <2>7. CASE pc = "gone" /\ UNCHANGED <<status, misreported>>
    BY <2>3, <2>4, <2>7 DEF StatusIsCurrent
  <2> QED  BY <2>1, <2>5, <2>6, <2>7
<1>8. ASSUME NEW c \in Clients, Call(c) PROVE StatusIsCurrent'
  <2>1. engine' = engine /\ (Closing => Closing')
    BY <1>8 DEF Call, InsertAccount, SecretsSet, UndoAdd, StartAdded, RemoveAccount, DeleteAccount,
                SecretsDelete, Closing
  <2>2. CASE StartAdded(c)
    BY <1>1, <1>3, <2>1, <2>2, RequestIs, Started DEF StartAdded
  <2>3. ASSUME NEW id \in Ids, RemoveAccount(c, id) PROVE StatusIsCurrent'
    <3>1. /\ Registered' = Registered \ {id}
          /\ \A w \in workers' : w.owned => w \in workers /\ w.id # id
      BY <1>1, <2>3, StoppedAccount DEF RemoveAccount
    <3>2. /\ DOMAIN status' = DOMAIN status \ {id} /\ misreported' = misreported \ {id}
          /\ \A j \in DOMAIN status : j # id => status'[j] = status[j]
      BY <2>3, Removed DEF RemoveAccount, StopAccount
    <3> QED  BY <2>1, <3>1, <3>2 DEF StatusIsCurrent, Cancelled, Closing
  <2>4. CASE InsertAccount(c) \/ SecretsSet(c) \/ UndoAdd(c) \/ DeleteAccount(c) \/ SecretsDelete(c)
    BY <1>2, <2>1, <2>4 DEF InsertAccount, SecretsSet, UndoAdd, DeleteAccount, SecretsDelete
  <2> QED  BY <1>8, <2>2, <2>3, <2>4 DEF Call
<1>9. CASE UNCHANGED vars
  BY <1>2, <1>9 DEF vars
<1> QED  BY <1>4, <1>5, <1>6, <1>7, <1>8, <1>9 DEF Next, Lifecycle

-----------------------------------------------------------------------------
(* The book of an account.                                                 *)

\* A step that is not about the account.
SameRow(id) ==
  /\ id \in DOMAIN rows' <=> id \in DOMAIN rows
  /\ id \in DOMAIN rows => rows'[id] = rows[id]
SameCalls(id) ==
  \A c \in Clients :
    /\ c \in About(id)' <=> c \in About(id)
    /\ c \in About(id) => request'[c] = request[c]
Elsewhere(id) ==
  /\ Clean(id)' => Clean(id)
  /\ SameRow(id) /\ SameCalls(id)
  /\ id \in Registered' <=> id \in Registered
  /\ engine.pc = "listing" => engine'.pc = "listing"
  /\ Starting(id)' <=> Starting(id)
  /\ OwnPassword(id) /\ id \in DOMAIN rows => OwnPassword(id)'

LEMMA ElsewhereKeeps ==
  ASSUME NEW id \in Ids, Book(id), Elsewhere(id)
  PROVE  Book(id)'
<1> SUFFICES ASSUME Clean(id)' PROVE Book(id)'
  BY DEF Book
<1>1. Clean(id) /\ About(id)' = About(id) /\ \A c \in About(id) : request'[c] = request[c]
  BY DEF Elsewhere, SameCalls, About
<1>2. Unsaved(id)' <=> Unsaved(id)
  BY <1>1 DEF Unsaved
<1> QED  BY <1>1, <1>2 DEF Book, Elsewhere, SameRow

\* What stays as it is when a caller turns from one account.
LEMMA OthersCalls ==
  ASSUME NEW c \in Clients, NEW id,
         \A d \in Clients : d # c => request'[d] = request[d],
         request[c].pc = "none" \/ request[c].id # id,
         request'[c].pc = "none" \/ request'[c].id # id
  PROVE  SameCalls(id)
BY DEF SameCalls, About

LEMMA BooksKept ==
  Types /\ WorkersAreOwned /\ (\A id \in Ids : Book(id)) /\ [Next]_vars => \A id \in Ids : Book(id)'
<1> SUFFICES ASSUME Types, WorkersAreOwned, \A id \in Ids : Book(id), [Next]_vars,
                    NEW id \in Ids
             PROVE  Book(id)'
  OBVIOUS
<1>1. Book(id) /\ workers \subseteq Workers /\ Single
  BY DEF Types
<1>2. CASE UNCHANGED <<rows, memory, disk, engine, request, tangled, half>> /\ Registered' = Registered
  <2>1. Elsewhere(id)
    BY <1>2 DEF Elsewhere, SameRow, SameCalls, Clean, About, Starting, OwnPassword
  <2> QED  BY <1>1, <2>1, ElsewhereKeeps
<1>3. CASE ListAccounts
  <2>1. UNCHANGED <<rows, memory, disk, workers, request>> /\ Registered' = Registered
        /\ engine.pc = "listing"
    BY <1>3 DEF ListAccounts, Registered
  <2>2. About(id)' = About(id) /\ (Unsaved(id)' <=> Unsaved(id)) /\ (OwnPassword(id)' <=> OwnPassword(id))
    BY <2>1 DEF About, Unsaved, OwnPassword
  <2>3. CASE engine' = [pc |-> "starting", left |-> DOMAIN rows]
             /\ tangled' = tangled \cup {i \in DOMAIN rows : About(i) # {}} /\ half' = half
    <3>1. (Starting(id)' <=> id \in DOMAIN rows) /\ ~Starting(id)
      BY <2>1, <2>3 DEF Starting
    <3>2. Clean(id)' => Clean(id) /\ (id \in DOMAIN rows => About(id) = {})
      BY <2>3 DEF Clean
    <3> QED  BY <1>1, <2>1, <2>2, <3>1, <3>2 DEF Book
  <2>4. CASE engine' = [pc |-> "up", left |-> {}] /\ half' = half \cup DOMAIN rows /\ tangled' = tangled
    <3>1. ~Starting(id)' /\ ~Starting(id)
      BY <2>1, <2>4 DEF Starting
    <3>2. Clean(id)' => Clean(id) /\ id \notin DOMAIN rows
      BY <2>4 DEF Clean
    <3> QED  BY <1>1, <2>1, <2>2, <3>1, <3>2 DEF Book
  <2> QED  BY <1>3, <2>3, <2>4 DEF ListAccounts
<1>4. CASE StartListed
  <2>1. UNCHANGED <<rows, memory, disk, request, tangled, half>> /\ engine.pc = "starting"
    BY <1>4 DEF StartListed
  <2>2. /\ (Clean(id)' <=> Clean(id)) /\ SameRow(id) /\ SameCalls(id)
        /\ About(id)' = About(id) /\ (Unsaved(id)' <=> Unsaved(id))
        /\ (OwnPassword(id)' <=> OwnPassword(id))
    BY <2>1 DEF Clean, SameRow, SameCalls, About, Unsaved, OwnPassword
  <2>3. CASE engine.left = {}
    <3>1. ~Starting(id) /\ ~Starting(id)' /\ Registered' = Registered
      BY <1>4, <2>3 DEF StartListed, Starting, Registered, Types
    <3> QED  BY <1>1, <2>1, <2>2, <3>1, ElsewhereKeeps DEF Elsewhere
  <2>4. CASE engine.left # {}
    <3>1. PICK i : i = Min(engine.left)
      OBVIOUS
    <3>2. i \in Ids /\ i \in engine.left /\ StartAccount(i) /\ engine' = [engine EXCEPT !.left = @ \ {i}]
      BY <1>4, <2>4, <3>1, LeftIsFinite, MinIsLeast DEF StartListed
    <3>3. Registered' = Registered \cup {i}
      BY <1>1, <3>2, Started
    <3>4. engine'.pc = "starting" /\ engine'.left = engine.left \ {i}
      BY <2>1, <3>2 DEF Types
    <3>5. CASE id # i
      BY <1>1, <2>1, <2>2, <3>3, <3>4, <3>5, ElsewhereKeeps DEF Elsewhere, Starting
    <3>6. CASE id = i
      <4>1. Starting(id) /\ ~Starting(id)' /\ id \in Registered'
        BY <2>1, <3>2, <3>3, <3>4, <3>6 DEF Starting
      <4> QED  BY <1>1, <2>1, <2>2, <4>1 DEF Book
    <3> QED  BY <3>5, <3>6
  <2> QED  BY <2>3, <2>4
<1>5. CASE Shutdown \/ Return
  <2>1. /\ UNCHANGED <<rows, memory, disk, workers, request, tangled, half>>
        /\ engine.pc \in {"up", "closing"} /\ engine'.pc \in {"closing", "returned"}
    BY <1>5 DEF Shutdown, Return, Types
  <2>2. Elsewhere(id)
    BY <2>1 DEF Elsewhere, SameRow, SameCalls, Clean, About, Starting, OwnPassword, Registered
  <2> QED  BY <1>1, <2>2, ElsewhereKeeps
<1>6. CASE Restart
  <2>1. /\ engine'.pc = "listing" /\ Registered' = {} /\ About(id)' = {}
        /\ rows' = rows /\ memory' = disk /\ disk' = disk /\ half' = HalfAdded /\ tangled' = {}
    BY <1>6 DEF Restart, Reopen, Registered, About, NoRequest
  <2>2. ~Starting(id)'
    BY <2>1 DEF Starting
  <2>3. Clean(id)' => id \notin HalfAdded
    BY <2>1 DEF Clean
  <2>4. id \in DOMAIN rows /\ id \notin HalfAdded => id \in DOMAIN disk /\ disk[id] = rows[id]
    BY <1>1 DEF HalfAdded, Book, Clean, Unsaved, OwnPassword
  <2>5. Clean(id)' /\ id \in DOMAIN rows => OwnPassword(id)'
    BY <2>1, <2>3, <2>4 DEF OwnPassword
  <2> QED  BY <2>1, <2>2, <2>5 DEF Book
<1>7. ASSUME NEW w \in workers, Worker(w) PROVE Book(id)'
  <2>1. PICK pc \in States : Goto(w, pc) /\ WorkerOnly
    BY <1>7, WorkerSteps
  <2>2. Registered' = Registered
    BY <1>1, <2>1, Becomes
  <2> QED  BY <1>2, <2>1, <2>2 DEF WorkerOnly
<1>8. ASSUME NEW c \in Clients, InsertAccount(c) PROVE Book(id)'
  <2>1. PICK n : n = NextId
    OBVIOUS
  <2>2. n \in Ids /\ n \notin DOMAIN rows /\ added < MaxAdds /\ added + 1 \in Mailboxes
    <3>1. added \in Nat /\ MaxAdds \in Nat /\ added < MaxAdds
      BY <1>8, ConstantsAssumption DEF InsertAccount, Types
    <3> QED  BY <2>1, <3>1, NextIdIsNew DEF Mailboxes
  <2>3. /\ rows' = With(rows, n, added + 1)
        /\ request' = [request EXCEPT ![c] = [pc |-> "set", id |-> n, mailbox |-> added + 1]]
        /\ tangled' = IF About(n) # {} \/ Starting(n) \/ n \in Registered
                      THEN tangled \cup {n} ELSE tangled \ {n}
        /\ half' = half \ {n}
        /\ request[c].pc = "none"
        /\ UNCHANGED <<memory, disk, engine, workers>> /\ Registered' = Registered
    BY <1>8, <2>1 DEF InsertAccount, Idle, Registered
  <2> DEFINE q == [pc |-> "set", id |-> n, mailbox |-> added + 1]
  <2>4. q \in Requests /\ q.pc = "set" /\ q.id = n /\ q.mailbox = added + 1
    BY <2>2 DEF Requests
  <2>5. request'[c] = q /\ \A d \in Clients : d # c => request'[d] = request[d]
    BY <2>3, <2>4, Changed
  <2> HIDE DEF q
  <2>6. /\ DOMAIN rows' = DOMAIN rows \cup {n} /\ rows'[n] = added + 1
        /\ \A j \in DOMAIN rows : j # n => rows'[j] = rows[j]
    BY <2>3 DEF With
  <2>7. CASE id # n
    <3>1. SameCalls(id)
      BY <2>3, <2>4, <2>5, <2>7, OthersCalls
    <3>2. Clean(id)' => Clean(id)
      BY <2>3, <2>7 DEF Clean
    <3>3. SameRow(id)
      BY <2>6, <2>7 DEF SameRow
    <3>4. OwnPassword(id) /\ id \in DOMAIN rows => OwnPassword(id)'
      BY <2>3, <3>3 DEF OwnPassword, SameRow
    <3> QED  BY <1>1, <2>3, <3>1, <3>2, <3>3, <3>4, ElsewhereKeeps DEF Elsewhere, Starting
  <2>8. CASE id = n
    <3>1. Clean(id)' => About(n) = {} /\ ~Starting(n) /\ n \notin Registered
      BY <2>3, <2>8 DEF Clean
    <3>2. About(n) = {} => About(id)' = {c}
      BY <2>4, <2>5, <2>8 DEF About
    <3>3. Starting(id)' <=> Starting(n)
      BY <2>3, <2>8 DEF Starting
    <3>4. About(id)' = {c} => Unsaved(id)'
      BY <2>4, <2>5 DEF Unsaved
    <3> QED  BY <2>3, <2>4, <2>5, <2>6, <2>8, <3>1, <3>2, <3>3, <3>4 DEF Book
  <2> QED  BY <2>7, <2>8
<1>9. ASSUME NEW c \in Clients, SecretsSet(c) PROVE Book(id)'
  <2>1. PICK i : i = request[c].id
    OBVIOUS
  <2>2. /\ request[c].pc = "set" /\ memory' = With(memory, i, request[c].mailbox)
        /\ UNCHANGED <<rows, engine, workers, tangled, half>> /\ Registered' = Registered
        /\ (Clean(id)' <=> Clean(id)) /\ (Starting(id)' <=> Starting(id)) /\ SameRow(id)
    BY <1>9, <2>1 DEF SecretsSet, Registered, Clean, Starting, SameRow
  <2>3. PICK pc \in {"start", "undo"} :
          /\ request' = [request EXCEPT ![c].pc = pc]
          /\ pc = "start" => disk' = memory'
          /\ pc = "undo" => disk' = disk
    BY <1>9 DEF SecretsSet
  <2>4. /\ request'[c].pc = pc /\ request'[c].id = i /\ request'[c].mailbox = request[c].mailbox
        /\ \A d \in Clients : d # c => request'[d] = request[d]
    BY <2>1, <2>2, <2>3, Advanced
  <2>5. /\ DOMAIN memory' = DOMAIN memory \cup {i} /\ memory'[i] = request[c].mailbox
        /\ \A j \in DOMAIN memory : j # i => memory'[j] = memory[j]
    BY <2>2 DEF With
  <2>6. CASE id # i
    <3>1. SameCalls(id)
      BY <2>1, <2>4, <2>6, OthersCalls
    <3>2. OwnPassword(id) /\ id \in DOMAIN rows => OwnPassword(id)'
      BY <2>2, <2>3, <2>5, <2>6 DEF OwnPassword
    <3> QED  BY <1>1, <2>2, <3>1, <3>2, ElsewhereKeeps DEF Elsewhere
  <2>7. CASE id = i
    <3>1. c \in About(id) /\ About(id)' = About(id)
      BY <2>1, <2>2, <2>3, <2>4, <2>7 DEF About
    <3>2. Clean(id) => /\ \A d \in About(id) : d = c
                       /\ id \in DOMAIN rows /\ rows[id] = request[c].mailbox /\ id \notin Registered
                       /\ ~Starting(id)
      BY <1>1, <2>2, <3>1 DEF Book
    <3>3. pc = "start" => disk' = memory'
      BY <2>3
    <3>4. Clean(id) /\ pc = "start" => OwnPassword(id)'
      BY <2>2, <2>5, <2>7, <3>2, <3>3 DEF OwnPassword
    <3>5. pc = "undo" => Unsaved(id)'
      BY <2>4, <3>1 DEF Unsaved
    <3> QED  BY <2>2, <2>3, <2>4, <3>1, <3>2, <3>4, <3>5 DEF Book
  <2> QED  BY <2>6, <2>7
<1>10. ASSUME NEW c \in Clients, UndoAdd(c) PROVE Book(id)'
  <2>1. PICK i : i = request[c].id
    OBVIOUS
  <2>2. /\ request[c].pc = "undo" /\ Answer(c)
        /\ UNCHANGED <<memory, disk, engine, workers, tangled>> /\ Registered' = Registered
        /\ (Starting(id)' <=> Starting(id))
        /\ \/ rows' = Without(rows, i) /\ half' = half
           \/ rows' = rows /\ half' = half \cup {i}
    BY <1>10, <2>1 DEF UndoAdd, Registered, Starting
  <2>3. request'[c].pc = "none" /\ \A d \in Clients : d # c => request'[d] = request[d]
    BY <2>2, Answers
  <2>4. CASE id # i
    <3>1. SameCalls(id)
      BY <2>1, <2>3, <2>4, OthersCalls
    <3>2. SameRow(id) /\ (Clean(id)' => Clean(id))
      BY <2>2, <2>4 DEF SameRow, Clean, Without, Restrict
    <3>3. OwnPassword(id) /\ id \in DOMAIN rows => OwnPassword(id)'
      BY <2>2, <3>2 DEF OwnPassword, SameRow
    <3> QED  BY <1>1, <2>2, <3>1, <3>2, <3>3, ElsewhereKeeps DEF Elsewhere
  <2>5. CASE id = i
    <3>1. c \in About(id)
      BY <2>1, <2>2, <2>5 DEF About
    <3>2. Clean(id)' => Clean(id) /\ id \notin DOMAIN rows'
      BY <2>2, <2>5 DEF Clean, Without, Restrict
    <3>3. Clean(id) => (\A d \in About(id) : d = c) /\ id \notin Registered /\ ~Starting(id)
      BY <1>1, <2>2, <3>1 DEF Book
    <3>4. Clean(id) => About(id)' = {}
      BY <2>3, <3>3 DEF About
    <3> QED  BY <2>2, <3>2, <3>3, <3>4 DEF Book
  <2> QED  BY <2>4, <2>5
<1>11. ASSUME NEW c \in Clients, StartAdded(c) PROVE Book(id)'
  <2>1. PICK i : i = request[c].id
    OBVIOUS
  <2>2. /\ request[c].pc = "start" /\ Answer(c) /\ StartAccount(i) /\ i \in Ids
        /\ UNCHANGED <<rows, memory, disk, engine, tangled, half>>
        /\ (Starting(id)' <=> Starting(id)) /\ (Clean(id)' <=> Clean(id)) /\ SameRow(id)
        /\ (OwnPassword(id)' <=> OwnPassword(id))
    BY <1>11, <2>1, RequestIs DEF StartAdded, Starting, Clean, SameRow, OwnPassword
  <2>3. request'[c].pc = "none" /\ \A d \in Clients : d # c => request'[d] = request[d]
    BY <2>2, Answers
  <2>4. Registered' = Registered \cup {i}
    BY <1>1, <2>2, Started
  <2>5. CASE id # i
    <3>1. SameCalls(id)
      BY <2>1, <2>3, <2>5, OthersCalls
    <3> QED  BY <1>1, <2>2, <2>4, <2>5, <3>1, ElsewhereKeeps DEF Elsewhere
  <2>6. CASE id = i
    <3>1. c \in About(id)
      BY <2>1, <2>2, <2>6 DEF About
    <3>2. Clean(id) => (\A d \in About(id) : d = c) /\ id \in DOMAIN rows /\ ~Starting(id)
      BY <1>1, <2>2, <3>1 DEF Book
    <3>3. Clean(id) => ~Unsaved(id) /\ OwnPassword(id)
      BY <1>1, <2>2, <3>2 DEF Book, Unsaved
    <3>4. Clean(id) => About(id)' = {}
      BY <2>3, <3>2 DEF About
    <3> QED  BY <2>2, <2>4, <2>6, <3>2, <3>3, <3>4 DEF Book
  <2> QED  BY <2>5, <2>6
<1>12. ASSUME NEW c \in Clients, NEW i \in Ids, RemoveAccount(c, i) PROVE Book(id)'
  <2>1. /\ request[c].pc = "none" /\ i \in DOMAIN rows /\ StopAccount(i)
        /\ request' = [request EXCEPT ![c] = [pc |-> "delete", id |-> i]]
        /\ tangled' = IF About(i) # {} \/ Starting(i) THEN tangled \cup {i} ELSE tangled
        /\ UNCHANGED <<rows, memory, disk, engine, half>>
        /\ (Starting(id)' <=> Starting(id)) /\ SameRow(id)
        /\ (OwnPassword(id)' <=> OwnPassword(id))
    BY <1>12 DEF RemoveAccount, Idle, Starting, SameRow, OwnPassword
  <2> DEFINE q == [pc |-> "delete", id |-> i]
  <2>2. q \in Requests /\ q.pc = "delete" /\ q.id = i
    BY DEF Requests
  <2>3. request'[c] = q /\ \A d \in Clients : d # c => request'[d] = request[d]
    BY <2>1, <2>2, Changed
  <2> HIDE DEF q
  <2>4. Registered' = Registered \ {i}
    BY <1>1, <2>1, StoppedAccount
  <2>5. CASE id # i
    <3>1. SameCalls(id)
      BY <2>1, <2>2, <2>3, <2>5, OthersCalls
    <3>2. Clean(id)' => Clean(id)
      BY <2>1, <2>5 DEF Clean
    <3> QED  BY <1>1, <2>1, <2>4, <2>5, <3>1, <3>2, ElsewhereKeeps DEF Elsewhere
  <2>6. CASE id = i
    <3>1. Clean(id)' => Clean(id) /\ About(id) = {} /\ ~Starting(id)
      BY <2>1, <2>6 DEF Clean
    <3>2. About(id) = {} => About(id)' = {c}
      BY <2>2, <2>3, <2>6 DEF About
    <3>3. About(id) = {} => ~Unsaved(id)
      BY DEF Unsaved
    <3>4. Clean(id)' => OwnPassword(id)
      BY <1>1, <2>1, <2>6, <3>1, <3>3 DEF Book
    <3> QED  BY <2>1, <2>2, <2>3, <2>4, <2>6, <3>1, <3>2, <3>4 DEF Book
  <2> QED  BY <2>5, <2>6
<1>13. ASSUME NEW c \in Clients, DeleteAccount(c) PROVE Book(id)'
  <2>1. PICK i : i = request[c].id
    OBVIOUS
  <2>2. /\ request[c].pc = "delete"
        /\ UNCHANGED <<memory, disk, engine, workers, tangled>> /\ Registered' = Registered
        /\ (Starting(id)' <=> Starting(id))
        /\ \/ /\ i \in DOMAIN rows /\ rows' = Without(rows, i) /\ half' = half
              /\ request' = [request EXCEPT ![c].pc = "forget"]
           \/ /\ IF i \in DOMAIN rows THEN half' = half \cup {i} ELSE half' = half
              /\ Answer(c) /\ rows' = rows
    BY <1>13, <2>1 DEF DeleteAccount, Registered, Starting
  <2>3. /\ request'[c].pc = "none" \/ (request'[c].pc = "forget" /\ request'[c].id = i)
        /\ request'[c].pc = "forget" => rows' = Without(rows, i) /\ half' = half
        /\ request'[c].pc = "none" => IF i \in DOMAIN rows THEN half' = half \cup {i} ELSE half' = half
        /\ \A d \in Clients : d # c => request'[d] = request[d]
    <3>1. CASE Answer(c) /\ IF i \in DOMAIN rows THEN half' = half \cup {i} ELSE half' = half
      BY <3>1, Answers
    <3>2. CASE rows' = Without(rows, i) /\ half' = half /\ request' = [request EXCEPT ![c].pc = "forget"]
      <4>1. /\ request'[c].pc = "forget" /\ request'[c].id = request[c].id
            /\ \A d \in Clients : d # c => request'[d] = request[d]
        BY <2>2, <3>2, Advanced
      <4> QED  BY <2>1, <3>2, <4>1
    <3> QED  BY <2>2, <3>1, <3>2
  <2>4. CASE id # i
    <3>1. SameCalls(id)
      BY <2>1, <2>3, <2>4, OthersCalls
    <3>2. SameRow(id)
      BY <2>2, <2>4 DEF SameRow, Without, Restrict
    <3>3. Clean(id)' => Clean(id)
      BY <2>2, <2>4 DEF Clean
    <3>4. OwnPassword(id) /\ id \in DOMAIN rows => OwnPassword(id)'
      BY <2>2, <3>2 DEF OwnPassword, SameRow
    <3> QED  BY <1>1, <2>2, <3>1, <3>2, <3>3, <3>4, ElsewhereKeeps DEF Elsewhere
  <2>5. CASE id = i
    <3>1. c \in About(id)
      BY <2>1, <2>2, <2>5 DEF About
    <3>2. Clean(id) => (\A d \in About(id) : d = c) /\ id \in DOMAIN rows /\ id \notin Registered
                       /\ ~Starting(id)
      BY <1>1, <2>2, <3>1 DEF Book
    <3>3. Clean(id)' => Clean(id) /\ request'[c].pc = "forget"
      <4>1. Clean(id)' => Clean(id)
        BY <2>2, <2>5 DEF Clean
      <4>2. Clean(id)' /\ id \in DOMAIN rows => request'[c].pc # "none"
        BY <2>3, <2>5 DEF Clean
      <4> QED  BY <2>3, <3>2, <4>1, <4>2
    <3>4. Clean(id)' => id \notin DOMAIN rows'
      BY <2>3, <2>5, <3>3 DEF Without, Restrict
    <3>5. Clean(id)' => About(id)' = {c}
      BY <2>1, <2>3, <2>5, <3>2, <3>3 DEF About
    <3> QED  BY <2>2, <3>2, <3>3, <3>4, <3>5 DEF Book
  <2> QED  BY <2>4, <2>5
<1>14. ASSUME NEW c \in Clients, SecretsDelete(c) PROVE Book(id)'
  <2>1. PICK i : i = request[c].id
    OBVIOUS
  <2>2. /\ request[c].pc = "forget" /\ Answer(c)
        /\ memory' = Without(memory, i) /\ disk' \in {memory', disk}
        /\ UNCHANGED <<rows, engine, workers, tangled, half>> /\ Registered' = Registered
        /\ (Clean(id)' <=> Clean(id)) /\ (Starting(id)' <=> Starting(id)) /\ SameRow(id)
    BY <1>14, <2>1 DEF SecretsDelete, Registered, Clean, Starting, SameRow
  <2>3. request'[c].pc = "none" /\ \A d \in Clients : d # c => request'[d] = request[d]
    BY <2>2, Answers
  <2>4. CASE id # i
    <3>1. SameCalls(id)
      BY <2>1, <2>3, <2>4, OthersCalls
    <3>2. OwnPassword(id) /\ id \in DOMAIN rows => OwnPassword(id)'
      BY <2>2, <2>4 DEF OwnPassword, Without, Restrict
    <3> QED  BY <1>1, <2>2, <3>1, <3>2, ElsewhereKeeps DEF Elsewhere
  <2>5. CASE id = i
    <3>1. c \in About(id)
      BY <2>1, <2>2, <2>5 DEF About
    <3>2. Clean(id) => (\A d \in About(id) : d = c) /\ id \notin DOMAIN rows /\ id \notin Registered
                       /\ ~Starting(id)
      BY <1>1, <2>2, <3>1 DEF Book
    <3>3. Clean(id) => About(id)' = {}
      BY <2>3, <3>2 DEF About
    <3> QED  BY <2>2, <3>2, <3>3 DEF Book
  <2> QED  BY <2>4, <2>5
<1>15. CASE UNCHANGED vars
  BY <1>2, <1>15 DEF vars, Registered
<1> QED  BY <1>3, <1>4, <1>5, <1>6, <1>7, <1>8, <1>9, <1>10, <1>11, <1>12, <1>13, <1>14, <1>15
         DEF Next, Lifecycle, Call

LEMMA InitInv == Init => Inv
<1> SUFFICES ASSUME Init PROVE Inv
  OBVIOUS
<1>1. DOMAIN rows = {} /\ DOMAIN memory = {} /\ DOMAIN disk = {} /\ DOMAIN status = {}
      /\ workers = {} /\ Registered = {}
  BY DEF Init, Registered
<1>2. Types
  <2>1. engine \in [pc : {"listing", "starting", "up", "closing", "returned"}, left : SUBSET Ids]
        /\ request \in [Clients -> Requests]
    BY DEF Init, Requests
  <2>2. added \in 0..MaxAdds /\ faults \in 0..MaxFaults
    BY ConstantsAssumption DEF Init
  <2> QED  BY <1>1, <2>1, <2>2 DEF Types, Table, Single
<1>3. WorkersAreOwned /\ StatusIsCurrent
  BY <1>1 DEF WorkersAreOwned, StatusIsCurrent
<1>4. \A id \in Ids : Book(id)
  <2>1. \A id : About(id) = {} /\ ~Starting(id)
    BY DEF Init, About, Starting, NoRequest
  <2> QED  BY <1>1, <2>1 DEF Book
<1> QED  BY <1>2, <1>3, <1>4 DEF Inv

LEMMA Invariance == Spec => []Inv
<1>1. Inv /\ [Next]_vars => Inv'
  BY TypesKept, OwnedKept, StatusKept, BooksKept DEF Inv
<1> QED  BY InitInv, <1>1, PTL DEF Spec

-----------------------------------------------------------------------------
(* What holds of the specification.                                        *)

\* Every variable has its type, and no account has two workers: a row id is never
\* larger than the number of accounts added.
THEOREM TypeCorrectness == Spec => []TypeOK
<1>1. Inv => TypeOK
  BY TypesGiveTypeOK DEF Inv
<1> QED  BY Invariance, <1>1, PTL

\* A worker is the registered one of its account until it is stopped, and a registered
\* one gives up only when the process ends.
THEOREM WorkersServeTheirOwner == Spec => []WorkersAreOwned
<1>1. Inv => WorkersAreOwned
  BY DEF Inv
<1> QED  BY Invariance, <1>1, PTL

\* Every account has a worker and every worker an account, when no call is under way,
\* unless two callers were at it at once or a call has failed half-way.
THEOREM AccountsAreServed == Spec => []RowsAreServed
<1>1. Inv => RowsAreServed
  BY DEF Inv, RowsAreServed, Settled, Book, Clean, Starting
<1> QED  BY Invariance, <1>1, PTL

\* An account has its own password in memory and on disk, never that of an account
\* that had its row id before.
THEOREM NoPasswordIsInherited == Spec => []PasswordsAreTheirOwn
<1>1. Inv => PasswordsAreTheirOwn
  <2> SUFFICES ASSUME Inv, NEW id \in DOMAIN rows, Settled(id) PROVE OwnPassword(id)
    BY DEF PasswordsAreTheirOwn, OwnPassword
  <2>1. id \in Ids /\ Clean(id) /\ ~Unsaved(id)
    BY DEF Inv, Types, Table, Settled, Clean, Unsaved
  <2> QED  BY <2>1 DEF Inv, Book
<1> QED  BY Invariance, <1>1, PTL

\* What ListAccounts shows is the word of the account's worker and still true.
THEOREM ShownStatusIsTrue == Spec => []StatusIsCurrent
<1>1. Inv => StatusIsCurrent
  BY DEF Inv
<1> QED  BY Invariance, <1>1, PTL
=============================================================================
