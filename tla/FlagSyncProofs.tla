---------------------------- MODULE FlagSyncProofs ----------------------------
(***************************************************************************)
(* For every set of messages, folders and requests and any bounds: what    *)
(* differs between the database and the server is under way, and a STORE   *)
(* only ever reaches its own folder.                                       *)
(***************************************************************************)
EXTENDS FlagSync, SequenceTheorems, TLAPS

\* One flag of one message is settled: the sides agree on it, or an operation that
\* will give the server the database's value is pending, or a change was dropped.
\* An operation that goes the other way does not count: it may be a no-op.
Settled(m, g) ==
  \/ g \in db[m] <=> g \in server[m].flags
  \/ \E op \in Pending : m \in op.msgs /\ op.flag = g /\ (op.add <=> g \in db[m])
  \/ m \in diverged

\* Mod-sequences are ordered as the sweep relies on.
Ordered ==
  /\ \A m \in Msgs : server[m].mod <= modseq[FolderOf[m]]
  /\ \A f \in Folders : watermark[f] <= modseq[f]
  /\ sweep.pc # "idle" =>
       /\ sweep.folder \in Folders
       /\ watermark[sweep.folder] <= sweep.modseq
       /\ sweep.modseq <= modseq[sweep.folder]

\* The next sweep will fetch whatever is not settled ...
Covered ==
  \A m \in Msgs, g \in Flags :
    Settled(m, g) \/ server[m].mod > watermark[FolderOf[m]]

\* ... and when this one is through, the next one still will.
Applied ==
  sweep.pc = "apply" =>
    /\ DOMAIN deltas \subseteq In(sweep.folder)
    /\ \A m \in In(sweep.folder) :
         \/ server[m].mod > sweep.modseq
         \/ m \in DOMAIN deltas /\ deltas[m] = server[m].flags
         \/ m \notin DOMAIN deltas /\ \A g \in Flags : Settled(m, g)

\* An operation names messages of one folder.
OwnFolder == \A op \in Pending : op.msgs \subseteq In(op.folder)

\* The mailbox that is believed selected is, or none is.
Belief == currentSel = None \/ selected \in {currentSel, None}

Core == Ordered /\ Covered /\ Applied /\ OwnFolder
Inv  == TypeOK /\ Core /\ Belief

-----------------------------------------------------------------------------
(* Operations on their way.                                                *)

\* What a queue holds after an operation was added ...
LEMMA ToSetAppend ==
  ASSUME NEW S, NEW q \in Seq(S), NEW x \in S
  PROVE  ToSet(Append(q, x)) = ToSet(q) \cup {x}
<1>1. DOMAIN q = 1..Len(q) /\ DOMAIN Append(q, x) = 1..(Len(q) + 1) /\ Len(q) \in Nat
  BY AppendProperties
<1>2. /\ \A i \in 1..Len(q) : Append(q, x)[i] = q[i]
      /\ Append(q, x)[Len(q) + 1] = x
  BY AppendProperties
<1>3. QED BY <1>1, <1>2 DEF ToSet

\* ... and after its first one was taken.
LEMMA ToSetTail ==
  ASSUME NEW S, NEW q \in Seq(S), q # <<>>
  PROVE  Head(q) \in S /\ Tail(q) \in Seq(S) /\ ToSet(q) = {Head(q)} \cup ToSet(Tail(q))
<1>1. /\ Head(q) \in S /\ Tail(q) \in Seq(S) /\ Len(Tail(q)) = Len(q) - 1
      /\ \A i \in 1..Len(Tail(q)) : Tail(q)[i] = q[i + 1]
  BY HeadTailProperties
<1>2. Len(q) \in Nat \ {0} /\ DOMAIN q = 1..Len(q) /\ Head(q) = q[1]
  BY EmptySeq
<1>3. DOMAIN Tail(q) = 1..Len(Tail(q)) BY <1>1
<1>4. ASSUME NEW i \in DOMAIN q, i # 1
      PROVE  i - 1 \in DOMAIN Tail(q) /\ Tail(q)[i - 1] = q[i]
  BY <1>1, <1>2, <1>3, <1>4
<1>5. ASSUME NEW i \in DOMAIN Tail(q) PROVE i + 1 \in DOMAIN q /\ Tail(q)[i] = q[i + 1]
  BY <1>1, <1>2, <1>3, <1>5
<1>6. ToSet(q) \subseteq {Head(q)} \cup ToSet(Tail(q))
  <2>1. SUFFICES ASSUME NEW i \in DOMAIN q PROVE q[i] \in {Head(q)} \cup ToSet(Tail(q))
    BY DEF ToSet
  <2>2. CASE i = 1 BY <2>2, <1>2
  <2>3. CASE i # 1 BY <2>3, <1>4 DEF ToSet
  <2>4. QED BY <2>2, <2>3
<1>7. ToSet(Tail(q)) \subseteq ToSet(q)
  BY <1>5 DEF ToSet
<1>8. Head(q) \in ToSet(q)
  <2>1. 1 \in DOMAIN q BY <1>2
  <2>2. QED BY <2>1, <1>2 DEF ToSet
<1>9. QED BY <1>1, <1>6, <1>7, <1>8

\* A queue of operations holds operations, and an empty one none.
LEMMA ToSetType ==
  ASSUME NEW S, NEW q \in Seq(S)
  PROVE  ToSet(q) \subseteq S /\ (Len(q) = 0 => ToSet(q) = {})
<1>1. DOMAIN q = 1..Len(q) BY LenProperties
<1>2. \A i \in 1..Len(q) : q[i] \in S BY ElementOfSeq
<1>3. ToSet(q) = {q[i] : i \in 1..Len(q)} BY <1>1 DEF ToSet
<1>4. Len(q) = 0 => 1..Len(q) = {} OBVIOUS
<1>5. QED BY <1>2, <1>3, <1>4

\* The operation in hand is all that storing holds.
LEMMA InHand ==
  ASSUME TypeOK, storing # <<>>
  PROVE  storing[1] \in Ops /\ ToSet(storing) = {storing[1]}
<1>1. storing \in Seq(Ops) /\ Len(storing) <= 1 BY DEF TypeOK
<1>2. Len(storing) \in Nat /\ Len(storing) # 0 BY <1>1, EmptySeq
<1>3. Len(storing) = 1
  <2>1. \A n \in Nat : n # 0 /\ n <= 1 => n = 1 OBVIOUS
  <2>2. QED BY <1>1, <1>2, <2>1
<1>4. DOMAIN storing = {1}
  <2>1. DOMAIN storing = 1..Len(storing) BY <1>1, LenProperties
  <2>2. QED BY <2>1, <1>3
<1>5. storing[1] \in Ops BY <1>1, <1>3, ElementOfSeq
<1>6. ToSet(storing) = {storing[i] : i \in {1}} BY <1>4 DEF ToSet
<1>7. QED BY <1>5, <1>6

\* Everything pending is an operation.
LEMMA PendingAreOps ==
  ASSUME TypeOK
  PROVE  Pending \subseteq Ops
<1>1. ToSet(queue) \subseteq Ops /\ ToSet(storing) \subseteq Ops
  BY ToSetType DEF TypeOK
<1>2. \A h \in Handlers : handler[h] \subseteq Ops BY DEF TypeOK
<1>3. UNION {handler[h] : h \in Handlers} \subseteq Ops BY <1>2
<1>4. QED BY <1>1, <1>3 DEF Pending

\* A flag stays settled when its operations stay pending, or are dropped.
LEMMA SettledStable ==
  ASSUME NEW m, NEW g, Settled(m, g),
         g \in db'[m] <=> g \in db[m],
         server'[m].flags = server[m].flags,
         \A op \in Pending : m \in op.msgs => op \in Pending' \/ m \in diverged',
         m \in diverged => m \in diverged'
  PROVE  Settled(m, g)'
BY DEF Settled

-----------------------------------------------------------------------------
(* What the steps have in common.                                          *)

\* Operations move towards the server, or are dropped; a sweep may be given up.
LEMMA Move ==
  ASSUME TypeOK, Core,
         UNCHANGED <<serverVars, dbVars>>,
         UNCHANGED sweepVars \/ sweep' = NoSweep,
         Pending' \subseteq Pending,
         \A op \in Pending : op \in Pending' \/ op.msgs \subseteq diverged',
         diverged \subseteq diverged'
  PROVE  Core'
<1>1. ASSUME NEW m \in Msgs, NEW g \in Flags, Settled(m, g) PROVE Settled(m, g)'
  BY <1>1, SettledStable DEF serverVars, dbVars
<1>2. Ordered'
  BY DEF Core, Ordered, serverVars, dbVars, sweepVars, NoSweep, Sweep
<1>3. Covered'
  BY <1>1 DEF Core, Covered, serverVars, dbVars
<1>4. Applied'
  <2>1. CASE sweep' = NoSweep BY <2>1 DEF Applied, NoSweep, Sweep
  <2>2. CASE UNCHANGED sweepVars
    BY <2>2, <1>1 DEF Core, Applied, serverVars, sweepVars, In
  <2>3. QED BY <2>1, <2>2
<1>5. OwnFolder'
  BY DEF Core, OwnFolder, In
<1>6. QED BY <1>2, <1>3, <1>4, <1>5 DEF Core

\* The server carries out an operation: either the operation changes a message, and
\* the next sweep sees it, or it was in force already.
LEMMA Stored ==
  ASSUME TypeOK, Core,
         NEW op \in Ops, op.msgs \subseteq In(op.folder), Store(op),
         UNCHANGED <<dbVars, sweepVars>>,
         Pending' \subseteq Pending,
         \A p \in Pending : p \in Pending' \/ p = op \/ p.msgs \subseteq diverged',
         diverged \subseteq diverged'
  PROVE  Core'
<1> DEFINE S == {m \in op.msgs : With(server[m].flags, op) # server[m].flags}
           n == modseq[op.folder] + 1
<1>1. /\ op.folder \in Folders /\ op.msgs \subseteq Msgs /\ op.add \in BOOLEAN
      /\ modseq[op.folder] \in Nat /\ n \in Nat
      /\ \A m \in S : m \in Msgs /\ FolderOf[m] = op.folder
  BY DEF Ops, TypeOK, In
<1>2. \A f \in Folders : modseq[f] \in Nat /\ modseq'[f] \in Nat /\ modseq'[f] >= modseq[f]
  <2>1. CASE S = {} BY <2>1 DEF Store, serverVars, TypeOK
  <2>2. CASE S # {}
    <3>1. modseq' = [modseq EXCEPT ![op.folder] = n] BY <2>2 DEF Store
    <3>2. modseq \in [Folders -> Nat] BY DEF TypeOK
    <3>3. QED BY <3>1, <3>2, <1>1
  <2>3. QED BY <2>1, <2>2
<1>3. ASSUME NEW m \in Msgs
      PROVE  \/ m \in S /\ server'[m].mod = n /\ modseq'[FolderOf[m]] = n
             \/ m \notin S /\ server'[m] = server[m]
  <2>1. CASE S = {} BY <2>1 DEF Store, serverVars
  <2>2. CASE S # {}
    <3>1. modseq' = [modseq EXCEPT ![op.folder] = n] BY <2>2 DEF Store
    <3>2. modseq \in [Folders -> Nat] BY DEF TypeOK
    <3>3. modseq'[op.folder] = n BY <3>1, <3>2, <1>1
    <3>4. server' = [d \in Msgs |->
            IF d \in S THEN [flags |-> With(server[d].flags, op), mod |-> n]
            ELSE server[d]]
      BY <2>2 DEF Store
    <3>5. CASE m \in S
      <4>1. server'[m] = [flags |-> With(server[m].flags, op), mod |-> n] BY <3>4, <3>5
      <4>2. QED BY <4>1, <3>3, <3>5, <1>1
    <3>6. CASE m \notin S BY <3>4, <3>6
    <3>7. QED BY <3>5, <3>6
  <2>3. QED BY <2>1, <2>2
<1>4. ASSUME NEW m \in Msgs, NEW g \in Flags, Settled(m, g), m \notin S
      PROVE  Settled(m, g)'
  <2>1. server'[m].flags = server[m].flags /\ db'[m] = db[m]
    BY <1>3, <1>4 DEF dbVars
  <2>2. CASE m \in op.msgs /\ op.flag = g /\ (op.add <=> g \in db[m])
    <3>1. With(server[m].flags, op) = server[m].flags BY <2>2, <1>4
    <3>2. op.add <=> g \in server[m].flags BY <3>1, <2>2 DEF With
    <3>3. QED BY <3>2, <2>1, <2>2 DEF Settled
  <2>3. CASE ~(m \in op.msgs /\ op.flag = g /\ (op.add <=> g \in db[m]))
    BY <2>1, <2>3, <1>4 DEF Settled
  <2>4. QED BY <2>2, <2>3
<1>5. FolderOf \in [Msgs -> Folders]
  BY ConstantsAssumption
<1>6. Ordered'
  <2>1. ASSUME NEW m \in Msgs PROVE server'[m].mod <= modseq'[FolderOf[m]]
    <3>1. CASE m \in S
      <4>1. FolderOf[m] \in Folders BY <1>5
      <4>2. server'[m].mod = n /\ modseq'[FolderOf[m]] = n BY <1>3, <3>1
      <4>3. QED BY <4>2, <1>1
    <3>2. CASE m \notin S
      <4>1. FolderOf[m] \in Folders BY <1>5
      <4>2. server'[m] = server[m] BY <1>3, <3>2
      <4>3. server[m].mod <= modseq[FolderOf[m]] /\ server[m].mod \in Nat
        BY DEF Core, Ordered, TypeOK
      <4>4. QED BY <4>1, <4>2, <4>3, <1>2
    <3>3. QED BY <3>1, <3>2
  <2>2. ASSUME NEW f \in Folders PROVE watermark'[f] <= modseq'[f]
    <3>1. watermark[f] <= modseq[f] /\ watermark[f] \in Nat
      BY DEF Core, Ordered, TypeOK
    <3>2. QED BY <3>1, <1>2 DEF dbVars
  <2>3. ASSUME sweep.pc # "idle"
        PROVE  /\ sweep.folder \in Folders
               /\ watermark[sweep.folder] <= sweep.modseq
               /\ sweep.modseq <= modseq'[sweep.folder]
    <3>1. /\ sweep.folder \in Folders
          /\ watermark[sweep.folder] <= sweep.modseq
          /\ sweep.modseq <= modseq[sweep.folder]
          /\ sweep.modseq \in Nat
      BY <2>3 DEF Core, Ordered, TypeOK
    <3>2. QED BY <3>1, <1>2
  <2>4. QED BY <2>1, <2>2, <2>3 DEF Ordered, dbVars, sweepVars
<1>7. Covered'
  <2>1. SUFFICES ASSUME NEW m \in Msgs, NEW g \in Flags
                 PROVE  Settled(m, g)' \/ server'[m].mod > watermark'[FolderOf[m]]
    BY DEF Covered
  <2>2. CASE m \in S
    <3>1. server'[m].mod = n /\ FolderOf[m] = op.folder BY <2>2, <1>1, <1>3
    <3>2. watermark[op.folder] <= modseq[op.folder] /\ watermark[op.folder] \in Nat
      BY <1>1 DEF Core, Ordered, TypeOK
    <3>3. n > watermark[op.folder] BY <3>2, <1>1
    <3>4. QED BY <3>1, <3>3 DEF dbVars
  <2>3. CASE m \notin S
    BY <2>3, <1>3, <1>4 DEF Core, Covered, dbVars
  <2>4. QED BY <2>2, <2>3
<1>8. Applied'
  <2>1. SUFFICES ASSUME sweep.pc = "apply", NEW m \in In(sweep.folder)
                 PROVE  \/ server'[m].mod > sweep.modseq
                        \/ m \in DOMAIN deltas /\ deltas[m] = server'[m].flags
                        \/ m \notin DOMAIN deltas /\ \A g \in Flags : Settled(m, g)'
    BY DEF Core, Applied, sweepVars, In
  <2>2. m \in Msgs /\ FolderOf[m] = sweep.folder BY DEF In
  <2>3. CASE m \in S
    <3>1. server'[m].mod = n /\ sweep.folder = op.folder BY <2>2, <2>3, <1>1, <1>3
    <3>2. sweep.modseq <= modseq[op.folder] /\ sweep.modseq \in Nat
      BY <2>1, <3>1 DEF Core, Ordered, TypeOK
    <3>3. n > sweep.modseq BY <3>2, <1>1
    <3>4. QED BY <3>1, <3>3
  <2>4. CASE m \notin S
    BY <2>1, <2>2, <2>4, <1>3, <1>4 DEF Core, Applied
  <2>5. QED BY <2>3, <2>4
<1>9. OwnFolder'
  BY DEF Core, OwnFolder, In
<1>10. QED BY <1>6, <1>7, <1>8, <1>9 DEF Core

-----------------------------------------------------------------------------
(* The steps, one lemma for each kind.                                     *)

\* An operation that leaves its request.
LEMMA HandedOn ==
  ASSUME TypeOK, NEW h \in Handlers, NEW op \in handler[h],
         handler' = [handler EXCEPT ![h] = @ \ {op}]
  PROVE  LET before == UNION {handler[k] : k \in Handlers}
             after == UNION {handler'[k] : k \in Handlers}
         IN  op \in before /\ after \subseteq before /\ before \subseteq after \cup {op}
<1>1. \A k \in Handlers : handler'[k] = IF k = h THEN handler[h] \ {op} ELSE handler[k]
  BY DEF TypeOK
<1>2. QED BY <1>1

LEMMA SubmitCore ==
  ASSUME TypeOK, Core, NEW h \in Handlers, Submit(h)
  PROVE  Core'
<1>1. CASE SubmitFlagOp(h)
  <2>1. PICK op \in handler[h] :
          /\ queue' = Append(queue, op)
          /\ handler' = [handler EXCEPT ![h] = @ \ {op}]
          /\ UNCHANGED <<serverVars, dbVars, workerVars, sweepVars, diverged>>
    BY <1>1 DEF SubmitFlagOp
  <2>2. op \in Ops /\ queue \in Seq(Ops) BY <2>1 DEF TypeOK
  <2>3. ToSet(queue') = ToSet(queue) \cup {op} BY <2>1, <2>2, ToSetAppend
  <2>4. storing' = storing BY <2>1 DEF workerVars
  <2>5. Pending' = Pending BY <2>1, <2>3, <2>4, HandedOn DEF Pending
  <2>6. QED BY <2>1, <2>5, Move
<1>2. CASE FlagOpDropped(h)
  <2>1. PICK op \in handler[h] :
          /\ handler' = [handler EXCEPT ![h] = @ \ {op}]
          /\ diverged' = diverged \cup op.msgs
          /\ UNCHANGED <<serverVars, dbVars, queue, workerVars, sweepVars>>
    BY <1>2 DEF FlagOpDropped, Drop
  <2>2. storing' = storing BY <2>1 DEF workerVars
  <2>3. Pending' \subseteq Pending /\ Pending \subseteq Pending' \cup {op}
    BY <2>1, <2>2, HandedOn DEF Pending
  <2>4. QED BY <2>1, <2>3, Move
<1>3. QED BY <1>1, <1>2 DEF Submit

LEMMA ServeBreakCore ==
  ASSUME TypeOK, Core, Serve \/ Break
  PROVE  Core'
<1>1. UNCHANGED <<serverVars, dbVars, sweepVars, handler, queue, storing, diverged>>
  BY DEF Serve, Break
<1>2. Pending' = Pending BY <1>1 DEF Pending
<1>3. QED BY <1>1, <1>2, Move

LEMMA TakeOpCore ==
  ASSUME TypeOK, Core, TakeOp
  PROVE  Core'
<1>1. /\ storing = <<>> /\ queue # <<>> /\ queue' = Tail(queue)
      /\ UNCHANGED <<serverVars, dbVars, handler, sweepVars>>
  BY DEF TakeOp
<1>2. Head(queue) \in Ops /\ ToSet(queue) = {Head(queue)} \cup ToSet(Tail(queue))
  BY <1>1, ToSetTail DEF TypeOK
<1>3. ToSet(storing) = {}
  BY <1>1, EmptySeq, ToSetType
<1>4. CASE storing' = <<Head(queue)>> /\ diverged' = diverged
  <2>1. ToSet(storing') = {Head(queue)}
    BY <1>4 DEF ToSet
  <2>2. Pending' = Pending BY <1>1, <1>2, <1>3, <2>1 DEF Pending
  <2>3. QED BY <1>1, <1>4, <2>2, Move
<1>5. CASE storing' = storing /\ diverged' = diverged \cup Head(queue).msgs
  <2>1. Pending' \subseteq Pending /\ Pending \subseteq Pending' \cup {Head(queue)}
    BY <1>1, <1>2, <1>5 DEF Pending
  <2>2. QED BY <1>1, <1>5, <2>1, Move
<1>6. QED BY <1>4, <1>5 DEF TakeOp, Drop

\* The operation in hand is finished with: dropped or carried out.
LEMMA Finished ==
  ASSUME TypeOK, storing # <<>>, storing' = <<>>, UNCHANGED <<handler, queue>>
  PROVE  /\ storing[1] \in Pending
         /\ Pending' \subseteq Pending /\ Pending \subseteq Pending' \cup {storing[1]}
<1>1. ToSet(storing) = {storing[1]} BY InHand
<1>2. ToSet(storing') = {} BY EmptySeq, ToSetType
<1>3. QED BY <1>1, <1>2 DEF Pending

LEMMA SelectCore ==
  ASSUME TypeOK, Core, Select
  PROVE  Core'
<1>1. /\ storing # <<>>
      /\ UNCHANGED <<serverVars, dbVars, handler, queue, sweepVars>>
  BY DEF Select
<1>2. CASE UNCHANGED <<storing, diverged>>
  <2>1. Pending' = Pending BY <1>1, <1>2 DEF Pending
  <2>2. QED BY <1>1, <1>2, <2>1, Move
<1>3. CASE storing' = <<>> /\ diverged' = diverged \cup storing[1].msgs
  <2>1. Pending' \subseteq Pending /\ Pending \subseteq Pending' \cup {storing[1]}
    BY <1>1, <1>3, Finished
  <2>2. QED BY <1>1, <1>3, <2>1, Move
<1>4. QED BY <1>2, <1>3 DEF Select, Drop

LEMMA StoreFlagsCore ==
  ASSUME TypeOK, Core, StoreFlags
  PROVE  Core'
<1>1. /\ storing # <<>> /\ storing' = <<>>
      /\ UNCHANGED <<dbVars, handler, queue, sweepVars>>
  BY DEF StoreFlags
<1>2. /\ storing[1] \in Pending
      /\ Pending' \subseteq Pending /\ Pending \subseteq Pending' \cup {storing[1]}
  BY <1>1, Finished
<1>3. storing[1] \in Ops /\ storing[1].msgs \subseteq In(storing[1].folder)
  BY <1>1, <1>2, InHand DEF Core, OwnFolder
<1>4. CASE Store(storing[1]) /\ diverged \subseteq diverged'
  BY <1>1, <1>2, <1>3, <1>4, Stored
<1>5. CASE UNCHANGED serverVars /\ diverged' = diverged \cup storing[1].msgs
  BY <1>1, <1>2, <1>5, Move
<1>6. QED BY <1>4, <1>5 DEF StoreFlags, Drop

LEMMA OtherClientCore ==
  ASSUME TypeOK, Core, OtherClient
  PROVE  Core'
<1>1. PICK m \in Msgs, add \in BOOLEAN, flag \in Flags :
        Store(Op(FolderOf[m], {m}, add, flag))
  BY DEF OtherClient
<1> DEFINE op == Op(FolderOf[m], {m}, add, flag)
<1>2. op \in Ops /\ op.msgs \subseteq In(op.folder)
  BY ConstantsAssumption DEF Op, Ops, In
<1>3. UNCHANGED <<dbVars, handler, queue, storing, sweepVars, diverged>>
  BY DEF OtherClient, workerVars
<1>4. Pending' = Pending BY <1>3 DEF Pending
<1>5. QED BY <1>1, <1>2, <1>3, <1>4, Stored

\* A request changes the database towards the operations it leaves to be submitted.
LEMMA RequestCore ==
  ASSUME TypeOK, Core, NEW h \in Handlers, NEW S \in SUBSET Msgs,
         NEW add \in BOOLEAN, NEW flag \in Flags, Request(h, S, add, flag)
  PROVE  Core'
<1> DEFINE ops == {Op(f, S \cap In(f), add, flag) : f \in {FolderOf[m] : m \in S}}
<1>1. /\ handler[h] = {} /\ handler' = [handler EXCEPT ![h] = ops]
      /\ UNCHANGED <<serverVars, watermark, queue, storing, sweepVars, diverged>>
  BY DEF Request, workerVars
<1>2. Pending' = Pending \cup ops
  <2>1. \A k \in Handlers : handler'[k] = IF k = h THEN ops ELSE handler[k]
    BY <1>1 DEF TypeOK
  <2>2. (UNION {handler'[k] : k \in Handlers}) = (UNION {handler[k] : k \in Handlers}) \cup ops
    BY <1>1, <2>1
  <2>3. QED BY <1>1, <2>2 DEF Pending
<1>3. ASSUME NEW m \in Msgs, NEW g \in Flags, Settled(m, g)
      PROVE  Settled(m, g)'
  <2>1. db'[m] = IF m \in S THEN With(db[m], Op(FolderOf[m], {m}, add, flag)) ELSE db[m]
    BY DEF Request
  <2>2. CASE m \in S /\ g = flag
    <3>1. g \in db'[m] <=> add BY <2>1, <2>2 DEF With, Op
    <3>2. Op(FolderOf[m], S \cap In(FolderOf[m]), add, flag) \in Pending'
      BY <1>2, <2>2
    <3>3. m \in S \cap In(FolderOf[m]) BY <2>2 DEF In
    <3>4. QED BY <2>2, <3>1, <3>2, <3>3 DEF Settled, Op
  <2>3. CASE m \notin S \/ g # flag
    <3>1. g \in db'[m] <=> g \in db[m] BY <2>1, <2>3 DEF With, Op
    <3>2. server'[m].flags = server[m].flags /\ diverged' = diverged
      BY <1>1 DEF serverVars
    <3>3. QED BY <1>2, <1>3, <3>1, <3>2, SettledStable
  <2>4. QED BY <2>2, <2>3
<1>4. Ordered'
  BY <1>1 DEF Core, Ordered, serverVars, sweepVars
<1>5. Covered'
  BY <1>1, <1>3 DEF Core, Covered, serverVars
<1>6. Applied'
  BY <1>1, <1>3 DEF Core, Applied, serverVars, sweepVars, In
<1>7. OwnFolder'
  <2>1. \A op \in ops : op.msgs \subseteq In(op.folder) BY DEF Op
  <2>2. QED BY <1>2, <2>1 DEF Core, OwnFolder, In
<1>8. QED BY <1>4, <1>5, <1>6, <1>7 DEF Core

LEMMA UserCore ==
  ASSUME TypeOK, Core, NEW h \in Handlers, User(h)
  PROVE  Core'
<1>1. CASE MarkRead(h)
  <2>1. PICK S \in SUBSET Msgs : Request(h, {m \in S : "Seen" \notin db[m]}, TRUE, "Seen")
    BY <1>1 DEF MarkRead
  <2>2. {m \in S : "Seen" \notin db[m]} \in SUBSET Msgs /\ "Seen" \in Flags
    BY DEF Flags
  <2>3. QED BY <2>1, <2>2, RequestCore
<1>2. CASE ToggleThreadFlagged(h)
  <2> DEFINE flagged == {m \in Msgs : "Flagged" \in db[m]}
  <2>1. \/ Request(h, flagged, FALSE, "Flagged")
        \/ Request(h, {Latest}, TRUE, "Flagged")
    BY <1>2 DEF ToggleThreadFlagged
  <2>2. flagged \in SUBSET Msgs /\ {Latest} \in SUBSET Msgs /\ "Flagged" \in Flags
    BY ConstantsAssumption DEF Flags
  <2>3. QED BY <2>1, <2>2, RequestCore
<1>3. QED BY <1>1, <1>2 DEF User

\* A sweep begins above the watermark, at what SELECT told.
LEMMA BeginSweepCore ==
  ASSUME TypeOK, Core, NEW f \in Folders, BeginSweep(f)
  PROVE  Core'
<1>1. /\ sweep' = [pc |-> "fetch", folder |-> f, modseq |-> modseq[f]]
      /\ UNCHANGED <<serverVars, dbVars, handler, queue, storing, diverged>>
  BY DEF BeginSweep, Sweep, workerVars
<1>2. Pending' = Pending BY <1>1 DEF Pending
<1>3. Ordered'
  <2>1. watermark[f] <= modseq[f] /\ modseq[f] \in Nat BY DEF Core, Ordered, TypeOK
  <2>2. QED BY <1>1, <2>1 DEF Core, Ordered, serverVars, dbVars
<1>4. Covered'
  BY <1>1, <1>2, SettledStable DEF Core, Covered, serverVars, dbVars
<1>5. Applied' BY <1>1 DEF Applied
<1>6. OwnFolder' BY <1>2 DEF Core, OwnFolder, In
<1>7. QED BY <1>3, <1>4, <1>5, <1>6 DEF Core

\* What the sweep fetches is what is not settled.
LEMMA FetchCore ==
  ASSUME TypeOK, Core, FetchFlagsChangedSince
  PROVE  Core'
<1> DEFINE f == sweep.folder
           changed == {d \in In(f) : server[d].mod > watermark[f]}
<1>1. /\ sweep.pc = "fetch" /\ sweep' = [sweep EXCEPT !.pc = "apply"]
      /\ deltas' = [m \in changed |-> server[m].flags]
      /\ UNCHANGED <<serverVars, dbVars, handler, queue, storing, diverged>>
  BY DEF FetchFlagsChangedSince, workerVars
<1>2. sweep'.folder = f /\ sweep'.modseq = sweep.modseq /\ sweep'.pc = "apply"
  BY <1>1 DEF TypeOK
<1>3. Pending' = Pending BY <1>1 DEF Pending
<1>4. ASSUME NEW m \in Msgs, NEW g \in Flags, Settled(m, g)
      PROVE  Settled(m, g)'
  BY <1>1, <1>3, <1>4, SettledStable DEF serverVars, dbVars
<1>5. Ordered'
  BY <1>1, <1>2 DEF Core, Ordered, serverVars, dbVars
<1>6. Covered'
  BY <1>1, <1>4 DEF Core, Covered, serverVars, dbVars
<1>7. Applied'
  <2>1. DOMAIN deltas' = changed BY <1>1
  <2>2. ASSUME NEW m \in In(f), m \notin changed PROVE \A g \in Flags : Settled(m, g)'
    <3>1. m \in Msgs /\ FolderOf[m] = f BY DEF In
    <3>2. QED BY <1>4, <2>2, <3>1 DEF Core, Covered
  <2>3. \A m \in changed : deltas'[m] = server'[m].flags BY <1>1 DEF serverVars
  <2>4. QED BY <1>2, <2>1, <2>2, <2>3 DEF Applied, In
<1>8. OwnFolder' BY <1>3 DEF Core, OwnFolder, In
<1>9. QED BY <1>5, <1>6, <1>7, <1>8 DEF Core

\* A row that is overwritten agrees with the server, or the server has changed again.
LEMMA UpdateCore ==
  ASSUME TypeOK, Core, UpdateFlagsByUID
  PROVE  Core'
<1>1. PICK m \in DOMAIN deltas :
        /\ deltas' = [d \in DOMAIN deltas \ {m} |-> deltas[d]]
        /\ \/ /\ db' = [db EXCEPT ![m] = deltas[m]]
              /\ diverged' = diverged \ {m}
           \/ /\ diverged' = diverged \cup {m}
              /\ UNCHANGED db
  BY DEF UpdateFlagsByUID
<1>2. /\ sweep.pc = "apply" /\ sweep' = sweep
      /\ UNCHANGED <<serverVars, watermark, handler, queue, storing>>
  BY DEF UpdateFlagsByUID, workerVars
<1>3. m \in In(sweep.folder) /\ m \in Msgs /\ FolderOf[m] = sweep.folder
  BY <1>2 DEF Core, Applied, In
<1>4. Pending' = Pending BY <1>2 DEF Pending
<1>5. ASSUME NEW d \in Msgs, NEW g \in Flags, Settled(d, g), d # m
      PROVE  Settled(d, g)'
  <2>1. db'[d] = db[d] BY <1>1, <1>5 DEF TypeOK
  <2>2. server'[d].flags = server[d].flags BY <1>2 DEF serverVars
  <2>3. d \in diverged => d \in diverged' BY <1>1, <1>5
  <2>4. QED BY <1>4, <1>5, <2>1, <2>2, <2>3, SettledStable
<1>6. server[m].mod > sweep.modseq \/ \A g \in Flags : Settled(m, g)'
  <2>1. CASE db' = [db EXCEPT ![m] = deltas[m]]
    <3>1. db'[m] = deltas[m] BY <1>3, <2>1 DEF TypeOK
    <3>2. server[m].mod > sweep.modseq \/ deltas[m] = server[m].flags
      BY <1>1, <1>2, <1>3 DEF Core, Applied
    <3>3. QED BY <1>2, <3>1, <3>2 DEF Settled, serverVars
  <2>2. CASE diverged' = diverged \cup {m}
    BY <2>2 DEF Settled
  <2>3. QED BY <1>1, <2>1, <2>2
<1>7. Ordered'
  BY <1>2 DEF Core, Ordered, serverVars
<1>8. Covered'
  <2>1. SUFFICES ASSUME NEW d \in Msgs, NEW g \in Flags
                 PROVE  Settled(d, g)' \/ server[d].mod > watermark[FolderOf[d]]
    BY <1>2 DEF Covered, serverVars
  <2>2. CASE d = m
    <3>1. CASE server[m].mod > sweep.modseq
      <4>1. /\ sweep.folder \in Folders
            /\ watermark[sweep.folder] <= sweep.modseq
        BY <1>2 DEF Core, Ordered
      <4>2. /\ watermark[sweep.folder] \in Nat /\ sweep.modseq \in Nat
            /\ server[m].mod \in Nat
        BY <1>3, <4>1 DEF TypeOK
      <4>3. QED BY <1>3, <2>2, <3>1, <4>1, <4>2
    <3>2. QED BY <1>6, <2>2, <3>1
  <2>3. CASE d # m BY <1>5, <2>3 DEF Core, Covered
  <2>4. QED BY <2>2, <2>3
<1>9. Applied'
  <2>1. DOMAIN deltas' = DOMAIN deltas \ {m} /\ \A d \in DOMAIN deltas' : deltas'[d] = deltas[d]
    BY <1>1
  <2>2. SUFFICES ASSUME NEW d \in In(sweep.folder)
                 PROVE  \/ server[d].mod > sweep.modseq
                        \/ d \in DOMAIN deltas' /\ deltas'[d] = server[d].flags
                        \/ d \notin DOMAIN deltas' /\ \A g \in Flags : Settled(d, g)'
    BY <1>2, <2>1 DEF Core, Applied, serverVars, In
  <2>3. CASE d = m BY <1>6, <2>1, <2>3
  <2>4. CASE d # m
    <3>1. d \in Msgs BY DEF In
    <3>2. QED BY <1>2, <1>5, <2>1, <2>4, <3>1 DEF Core, Applied
  <2>5. QED BY <2>3, <2>4
<1>10. OwnFolder' BY <1>4 DEF Core, OwnFolder, In
<1>11. QED BY <1>7, <1>8, <1>9, <1>10 DEF Core

\* The watermark moves over what the sweep has applied.
LEMMA WatermarkCore ==
  ASSUME TypeOK, Core, SetFolderHighestModSeq
  PROVE  Core'
<1>1. /\ sweep.pc = "apply" /\ DOMAIN deltas = {} /\ sweep' = NoSweep
      /\ watermark' = [watermark EXCEPT ![sweep.folder] = sweep.modseq]
      /\ UNCHANGED <<serverVars, db, handler, queue, storing, diverged>>
  BY DEF SetFolderHighestModSeq, workerVars
<1>2. \A f \in Folders :
        watermark'[f] = IF f = sweep.folder THEN sweep.modseq ELSE watermark[f]
  BY <1>1 DEF TypeOK
<1>3. Pending' = Pending BY <1>1 DEF Pending
<1>4. ASSUME NEW m \in Msgs, NEW g \in Flags, Settled(m, g)
      PROVE  Settled(m, g)'
  BY <1>1, <1>3, <1>4, SettledStable DEF serverVars
<1>5. Ordered'
  BY <1>1, <1>2 DEF Core, Ordered, serverVars, NoSweep, Sweep
<1>6. Covered'
  <2>1. SUFFICES ASSUME NEW m \in Msgs, NEW g \in Flags
                 PROVE  Settled(m, g)' \/ server[m].mod > watermark'[FolderOf[m]]
    BY <1>1 DEF Covered, serverVars
  <2>2. FolderOf[m] \in Folders BY ConstantsAssumption
  <2>3. CASE FolderOf[m] = sweep.folder
    <3>1. server[m].mod > sweep.modseq \/ Settled(m, g)
      BY <1>1, <2>3 DEF Core, Applied, In
    <3>2. QED BY <1>2, <1>4, <2>2, <2>3, <3>1
  <2>4. CASE FolderOf[m] # sweep.folder
    BY <1>2, <1>4, <2>2, <2>4 DEF Core, Covered
  <2>5. QED BY <2>3, <2>4
<1>7. Applied' BY <1>1 DEF Applied, NoSweep, Sweep
<1>8. OwnFolder' BY <1>3 DEF Core, OwnFolder, In
<1>9. QED BY <1>5, <1>6, <1>7, <1>8 DEF Core

LEMMA SweepFailsCore ==
  ASSUME TypeOK, Core, SweepFails
  PROVE  Core'
<1>1. /\ sweep' = NoSweep
      /\ UNCHANGED <<serverVars, dbVars, handler, queue, storing, diverged>>
  BY DEF SweepFails, workerVars
<1>2. Pending' = Pending BY <1>1 DEF Pending
<1>3. QED BY <1>1, <1>2, Move

\* Every operation on its way is lost with the process.
LEMMA RestartCore ==
  ASSUME TypeOK, Core, Restart
  PROVE  Core'
<1>1. /\ handler' = [h \in Handlers |-> {}] /\ queue' = <<>> /\ storing' = <<>>
      /\ diverged' = diverged \cup (UNION {op.msgs : op \in Pending})
      /\ sweep' = NoSweep
      /\ UNCHANGED <<serverVars, dbVars>>
  BY DEF Restart
<1>2. ToSet(queue') = {} /\ ToSet(storing') = {} BY <1>1, EmptySeq, ToSetType
<1>3. Pending' = {}
  <2>1. (UNION {handler'[h] : h \in Handlers}) = {} BY <1>1
  <2>2. QED BY <1>2, <2>1 DEF Pending
<1>4. \A op \in Pending : op.msgs \subseteq diverged' BY <1>1
<1>5. diverged \subseteq diverged' BY <1>1
<1>6. QED BY <1>1, <1>3, <1>4, <1>5, Move

-----------------------------------------------------------------------------
(* Type correctness, and the mailbox believed selected.                    *)

LEMMA FaultType ==
  ASSUME TypeOK, Fault \/ UNCHANGED faults
  PROVE  faults' \in 0..MaxFaults
BY ConstantsAssumption DEF TypeOK, Fault

\* What STORE leaves on the server.
LEMMA StoreType ==
  ASSUME TypeOK, NEW op \in Ops, Store(op)
  PROVE  /\ server' \in [Msgs -> [flags : SUBSET Flags, mod : Nat]]
         /\ modseq' \in [Folders -> Nat]
<1>1. op.folder \in Folders /\ op.flag \in Flags BY DEF Ops
<1>2. modseq[op.folder] + 1 \in Nat BY <1>1 DEF TypeOK
<1>3. \A m \in Msgs : With(server[m].flags, op) \in SUBSET Flags
  BY <1>1 DEF TypeOK, With
<1>4. QED BY <1>1, <1>2, <1>3 DEF Store, serverVars, TypeOK

LEMMA UserType ==
  ASSUME TypeOK, NEW h \in Handlers, User(h)
  PROVE  TypeOK'
<1>1. ASSUME NEW S \in SUBSET Msgs, NEW add \in BOOLEAN, NEW flag \in Flags,
             Request(h, S, add, flag)
      PROVE  TypeOK'
  <2> DEFINE ops == {Op(f, S \cap In(f), add, flag) : f \in {FolderOf[m] : m \in S}}
  <2>1. requests' \in 0..MaxRequests
    <3>1. requests \in 0..MaxRequests /\ requests < MaxRequests /\ requests' = requests + 1
      BY <1>1 DEF TypeOK, Request
    <3>2. MaxRequests \in Nat BY ConstantsAssumption
    <3>3. QED BY <3>1, <3>2
  <2>2. db' \in [Msgs -> SUBSET Flags]
    <3>1. \A m \in Msgs : With(db[m], Op(FolderOf[m], {m}, add, flag)) \in SUBSET Flags
      BY DEF TypeOK, With, Op
    <3>2. QED BY <1>1, <3>1 DEF TypeOK, Request
  <2>3. handler' \in [Handlers -> SUBSET Ops]
    <3>1. ops \subseteq Ops BY ConstantsAssumption DEF Op, Ops, In
    <3>2. handler' = [handler EXCEPT ![h] = ops] BY <1>1 DEF Request
    <3>3. QED BY <3>1, <3>2 DEF TypeOK
  <2>4. QED BY <1>1, <2>1, <2>2, <2>3
             DEF TypeOK, Request, serverVars, workerVars, sweepVars
<1>2. CASE MarkRead(h)
  <2>1. PICK S \in SUBSET Msgs : Request(h, {m \in S : "Seen" \notin db[m]}, TRUE, "Seen")
    BY <1>2 DEF MarkRead
  <2>2. {m \in S : "Seen" \notin db[m]} \in SUBSET Msgs /\ "Seen" \in Flags
    BY DEF Flags
  <2>3. QED BY <2>1, <2>2, <1>1
<1>3. CASE ToggleThreadFlagged(h)
  <2> DEFINE flagged == {m \in Msgs : "Flagged" \in db[m]}
  <2>1. \/ Request(h, flagged, FALSE, "Flagged")
        \/ Request(h, {Latest}, TRUE, "Flagged")
    BY <1>3 DEF ToggleThreadFlagged
  <2>2. flagged \in SUBSET Msgs /\ {Latest} \in SUBSET Msgs /\ "Flagged" \in Flags
    BY ConstantsAssumption DEF Flags
  <2>3. QED BY <2>1, <2>2, <1>1
<1>4. QED BY <1>2, <1>3 DEF User

LEMMA SubmitType ==
  ASSUME TypeOK, NEW h \in Handlers, Submit(h)
  PROVE  TypeOK'
<1>1. ASSUME NEW op, handler' = [handler EXCEPT ![h] = @ \ {op}]
      PROVE  handler' \in [Handlers -> SUBSET Ops]
  BY <1>1 DEF TypeOK
<1>2. CASE SubmitFlagOp(h)
  <2>1. PICK op \in handler[h] :
          Len(queue) < QueueCap /\ queue' = Append(queue, op)
    BY <1>2 DEF SubmitFlagOp
  <2>2. op \in Ops /\ queue \in Seq(Ops) BY <2>1 DEF TypeOK
  <2>3. queue' \in Seq(Ops) /\ Len(queue') <= QueueCap
    BY <2>1, <2>2, AppendProperties, LenProperties, ConstantsAssumption
  <2>4. handler' \in [Handlers -> SUBSET Ops] BY <1>1, <1>2 DEF SubmitFlagOp
  <2>5. QED BY <1>2, <2>3, <2>4
             DEF TypeOK, SubmitFlagOp, serverVars, dbVars, workerVars, sweepVars
<1>3. CASE FlagOpDropped(h)
  <2>1. faults' \in 0..MaxFaults BY <1>3, FaultType DEF FlagOpDropped
  <2>2. handler' \in [Handlers -> SUBSET Ops] BY <1>1, <1>3 DEF FlagOpDropped
  <2>3. diverged' \subseteq Msgs
    <3>1. PICK op \in handler[h] : diverged' = diverged \cup op.msgs
      BY <1>3 DEF FlagOpDropped, Drop
    <3>2. op \in Ops BY <3>1 DEF TypeOK
    <3>3. QED BY <3>1, <3>2 DEF TypeOK, Ops
  <2>4. QED BY <1>3, <2>1, <2>2, <2>3
             DEF TypeOK, FlagOpDropped, serverVars, dbVars, workerVars, sweepVars
<1>4. QED BY <1>2, <1>3 DEF Submit

LEMMA DrainType ==
  ASSUME TypeOK, Drain
  PROVE  TypeOK'
<1>1. faults' \in 0..MaxFaults
  BY FaultType DEF Drain, TakeOp, Select, StoreFlags
<1>2. <<>> \in Seq(Ops) /\ Len(<<>>) <= 1 BY EmptySeq
<1>3. CASE TakeOp
  <2>1. /\ Head(queue) \in Ops /\ queue' \in Seq(Ops) /\ Len(queue') <= QueueCap
    <3>1. queue \in Seq(Ops) /\ queue # <<>> /\ Len(queue) <= QueueCap /\ queue' = Tail(queue)
      BY <1>3 DEF TypeOK, TakeOp
    <3>2. Len(queue) \in Nat BY <3>1, LenProperties
    <3>3. /\ Head(queue) \in Ops /\ Tail(queue) \in Seq(Ops)
          /\ Len(Tail(queue)) = Len(queue) - 1
      BY <3>1, HeadTailProperties
    <3>4. QueueCap \in Nat BY ConstantsAssumption
    <3>5. QED BY <3>1, <3>2, <3>3, <3>4
  <2>2. storing' \in Seq(Ops) /\ Len(storing') <= 1
    <3>1. \A op \in Ops : <<op>> \in Seq(Ops) /\ Len(<<op>>) = 1 OBVIOUS
    <3>2. storing' = <<Head(queue)>> \/ storing' = storing BY <1>3 DEF TakeOp
    <3>3. storing \in Seq(Ops) /\ Len(storing) <= 1 BY DEF TypeOK
    <3>4. CASE storing' = <<Head(queue)>> BY <2>1, <3>1, <3>4, SMT
    <3>5. QED BY <3>2, <3>3, <3>4
  <2>3. diverged' \subseteq Msgs
    BY <1>3, <2>1 DEF TypeOK, TakeOp, Drop, Ops
  <2>4. QED BY <1>1, <1>3, <2>1, <2>2, <2>3 DEF TypeOK, TakeOp, serverVars, dbVars, sweepVars
<1>4. CASE Select
  <2>1. storing[1] \in Ops BY <1>4, InHand DEF Select
  <2>2. storing' \in Seq(Ops) /\ Len(storing') <= 1
    BY <1>2, <1>4 DEF TypeOK, Select
  <2>3. diverged' \subseteq Msgs
    BY <1>4, <2>1 DEF TypeOK, Select, Drop, Ops
  <2>4. selected' \in Folders \cup {None} /\ currentSel' \in Folders \cup {None}
    BY <1>4, <2>1 DEF TypeOK, Select, Ops
  <2>5. QED BY <1>1, <1>4, <2>2, <2>3, <2>4 DEF TypeOK, Select, serverVars, dbVars, sweepVars
<1>5. CASE StoreFlags
  <2>1. storing[1] \in Ops BY <1>5, InHand DEF StoreFlags
  <2>2. /\ server' \in [Msgs -> [flags : SUBSET Flags, mod : Nat]]
        /\ modseq' \in [Folders -> Nat]
    <3>1. Store(storing[1]) \/ UNCHANGED serverVars BY <1>5 DEF StoreFlags
    <3>2. CASE Store(storing[1]) BY <2>1, <3>2, StoreType
    <3>3. CASE UNCHANGED serverVars BY <3>3 DEF serverVars, TypeOK
    <3>4. QED BY <3>1, <3>2, <3>3
  <2>3. diverged' \subseteq Msgs
    BY <1>5, <2>1 DEF TypeOK, StoreFlags, Drop, Ops
  <2>4. QED BY <1>1, <1>2, <1>5, <2>2, <2>3 DEF TypeOK, StoreFlags, dbVars, sweepVars
<1>6. QED BY <1>3, <1>4, <1>5 DEF Drain

\* An empty set of changes, and what remains of one.
LEMMA DeltasType ==
  /\ DOMAIN <<>> = {} /\ <<>> \in [DOMAIN <<>> -> SUBSET Flags]
BY DEF Flags

LEMMA SweepType ==
  ASSUME TypeOK, Core, SweepStep \/ SweepFails
  PROVE  TypeOK'
<1>1. NoSweep \in [pc : {"idle", "fetch", "apply"}, folder : Folders \cup {None},
                   modseq : Nat]
  BY DEF NoSweep, Sweep
<1>2. CASE \E f \in Folders : BeginSweep(f)
  <2>1. PICK f \in Folders : BeginSweep(f) BY <1>2
  <2>2. sweep' \in [pc : {"idle", "fetch", "apply"}, folder : Folders \cup {None},
                    modseq : Nat]
    BY <2>1 DEF BeginSweep, Sweep, TypeOK
  <2>3. QED BY <2>1, <2>2 DEF TypeOK, BeginSweep, serverVars, dbVars, workerVars
<1>3. CASE FetchFlagsChangedSince
  <2>1. sweep' \in [pc : {"idle", "fetch", "apply"}, folder : Folders \cup {None},
                    modseq : Nat]
    BY <1>3 DEF FetchFlagsChangedSince, TypeOK
  <2>2. DOMAIN deltas' \subseteq Msgs /\ deltas' \in [DOMAIN deltas' -> SUBSET Flags]
    BY <1>3 DEF FetchFlagsChangedSince, TypeOK, In
  <2>3. QED BY <1>3, <2>1, <2>2
             DEF TypeOK, FetchFlagsChangedSince, serverVars, dbVars, workerVars
<1>4. CASE UpdateFlagsByUID
  <2>1. faults' \in 0..MaxFaults BY <1>4, FaultType DEF UpdateFlagsByUID
  <2>2. PICK m \in DOMAIN deltas :
          /\ deltas' = [d \in DOMAIN deltas \ {m} |-> deltas[d]]
          /\ \/ /\ db' = [db EXCEPT ![m] = deltas[m]]
                /\ diverged' = diverged \ {m}
             \/ /\ diverged' = diverged \cup {m}
                /\ UNCHANGED db
    BY <1>4 DEF UpdateFlagsByUID
  <2>3. m \in Msgs /\ deltas[m] \in SUBSET Flags BY <2>2 DEF TypeOK
  <2>4. DOMAIN deltas' \subseteq Msgs /\ deltas' \in [DOMAIN deltas' -> SUBSET Flags]
    BY <2>2 DEF TypeOK
  <2>5. db' \in [Msgs -> SUBSET Flags] /\ diverged' \subseteq Msgs
    BY <2>2, <2>3 DEF TypeOK
  <2>6. QED BY <1>4, <2>1, <2>4, <2>5 DEF TypeOK, UpdateFlagsByUID, serverVars, workerVars
<1>5. CASE SetFolderHighestModSeq
  <2>1. watermark' \in [Folders -> Nat]
    BY <1>5 DEF SetFolderHighestModSeq, TypeOK
  <2>2. QED BY <1>1, <1>5, <2>1, DeltasType
             DEF TypeOK, SetFolderHighestModSeq, serverVars, workerVars
<1>6. CASE SweepFails
  <2>1. faults' \in 0..MaxFaults BY <1>6, FaultType DEF SweepFails
  <2>2. QED BY <1>1, <1>6, <2>1, DeltasType DEF TypeOK, SweepFails, serverVars, dbVars, workerVars
<1>7. QED BY <1>2, <1>3, <1>4, <1>5, <1>6 DEF SweepStep

LEMMA EnvironmentType ==
  ASSUME TypeOK, OtherClient \/ Serve \/ Break \/ Restart
  PROVE  TypeOK'
<1>1. CASE OtherClient
  <2>1. PICK m \in Msgs, add \in BOOLEAN, flag \in Flags :
          Store(Op(FolderOf[m], {m}, add, flag))
    BY <1>1 DEF OtherClient
  <2>2. Op(FolderOf[m], {m}, add, flag) \in Ops BY ConstantsAssumption DEF Op, Ops
  <2>3. /\ server' \in [Msgs -> [flags : SUBSET Flags, mod : Nat]]
        /\ modseq' \in [Folders -> Nat]
    BY <2>1, <2>2, StoreType
  <2>4. QED BY <1>1, <2>3 DEF TypeOK, OtherClient, dbVars, workerVars, sweepVars
<1>2. CASE Serve
  BY <1>2 DEF TypeOK, Serve, serverVars, dbVars, sweepVars
<1>3. CASE Break
  <2>1. faults' \in 0..MaxFaults BY <1>3, FaultType DEF Break
  <2>2. QED BY <1>3, <2>1 DEF TypeOK, Break, serverVars, dbVars, sweepVars
<1>4. CASE Restart
  <2>1. faults' \in 0..MaxFaults BY <1>4, FaultType DEF Restart
  <2>2. diverged' \subseteq Msgs
    <3>1. \A op \in Pending : op.msgs \subseteq Msgs BY PendingAreOps DEF Ops
    <3>2. QED BY <1>4, <3>1 DEF Restart, TypeOK
  <2>3. <<>> \in Seq(Ops) /\ Len(<<>>) = 0 BY EmptySeq
  <2>4. Len(<<>>) <= QueueCap /\ Len(<<>>) <= 1 BY <2>3, ConstantsAssumption
  <2>5. sweep' \in [pc : {"idle", "fetch", "apply"}, folder : Folders \cup {None},
                    modseq : Nat]
    BY <1>4 DEF Restart, NoSweep, Sweep
  <2>6. handler' \in [Handlers -> SUBSET Ops] BY <1>4 DEF Restart
  <2>7. QED BY <1>4, <2>1, <2>2, <2>3, <2>4, <2>5, <2>6, DeltasType
             DEF TypeOK, Restart, serverVars, dbVars
<1>5. QED BY <1>1, <1>2, <1>3, <1>4

\* Only an answer to SELECT moves currentSel, and then selected is the same.
LEMMA BeliefStep ==
  ASSUME TypeOK, Belief, [Next]_vars
  PROVE  Belief'
<1>1. CASE Serve BY <1>1 DEF Serve, Belief
<1>2. CASE Select BY <1>2 DEF Select, Belief
<1>3. CASE Restart BY <1>3 DEF Restart, Belief
<1>4. CASE UNCHANGED <<selected, currentSel>> BY <1>4 DEF Belief
<1>5. ASSUME NEW h \in Handlers, User(h) PROVE UNCHANGED <<selected, currentSel>>
  BY <1>5 DEF User, MarkRead, ToggleThreadFlagged, Request, workerVars
<1>6. ASSUME NEW h \in Handlers, Submit(h) PROVE UNCHANGED <<selected, currentSel>>
  BY <1>6 DEF Submit, SubmitFlagOp, FlagOpDropped, workerVars
<1>7. CASE SweepStep \/ SweepFails
  BY <1>4, <1>7 DEF SweepStep, BeginSweep, FetchFlagsChangedSince, UpdateFlagsByUID,
                    SetFolderHighestModSeq, SweepFails, workerVars
<1>8. CASE OtherClient \/ Break \/ TakeOp \/ StoreFlags \/ UNCHANGED vars
  BY <1>4, <1>8 DEF OtherClient, Break, TakeOp, StoreFlags, workerVars, vars
<1>9. QED BY <1>1, <1>2, <1>3, <1>4, <1>5, <1>6, <1>7, <1>8 DEF Next, Drain

-----------------------------------------------------------------------------
(* The inductive invariant, and the theorems.                              *)

LEMMA InvInit == Init => Inv
<1> SUFFICES ASSUME Init PROVE Inv OBVIOUS
<1>1. TypeOK
  <2>1. <<>> \in Seq(Ops) /\ Len(<<>>) = 0 BY EmptySeq
  <2>2. Len(<<>>) <= QueueCap /\ Len(<<>>) <= 1 BY <2>1, ConstantsAssumption
  <2>3. 0 \in 0..MaxRequests /\ 0 \in 0..MaxFaults BY ConstantsAssumption
  <2>4. NoSweep \in [pc : {"idle", "fetch", "apply"}, folder : Folders \cup {None},
                     modseq : Nat]
    BY DEF NoSweep, Sweep
  <2>5. server \in [Msgs -> [flags : SUBSET Flags, mod : Nat]] BY DEF Init
  <2>6. QED BY <2>1, <2>2, <2>3, <2>4, <2>5, DeltasType DEF Init, TypeOK
<1>2. \A m \in Msgs, g \in Flags : Settled(m, g) BY DEF Init, Settled
<1>3. Ordered /\ Covered /\ Applied
  BY <1>2, ConstantsAssumption DEF Init, Ordered, Covered, Applied, NoSweep, Sweep
<1>4. OwnFolder
  <2>1. ToSet(queue) = {} /\ ToSet(storing) = {} BY EmptySeq, ToSetType DEF Init
  <2>2. Pending = {} BY <2>1 DEF Pending, Init
  <2>3. QED BY <2>2 DEF OwnFolder
<1>5. Belief BY DEF Init, Belief
<1>6. QED BY <1>1, <1>3, <1>4, <1>5 DEF Inv, Core

LEMMA InvStep == Inv /\ [Next]_vars => Inv'
<1> SUFFICES ASSUME Inv, [Next]_vars PROVE Inv' OBVIOUS
<1> USE DEF Inv
<1>1. Belief' BY BeliefStep
<1>2. CASE OtherClient BY <1>1, <1>2, OtherClientCore, EnvironmentType
<1>3. ASSUME NEW h \in Handlers, User(h) PROVE Inv'
  BY <1>1, <1>3, UserCore, UserType
<1>4. ASSUME NEW h \in Handlers, Submit(h) PROVE Inv'
  BY <1>1, <1>4, SubmitCore, SubmitType
<1>5. CASE Serve \/ Break BY <1>1, <1>5, ServeBreakCore, EnvironmentType
<1>6. CASE Drain
  BY <1>1, <1>6, TakeOpCore, SelectCore, StoreFlagsCore, DrainType DEF Drain
<1>7. CASE SweepStep
  BY <1>1, <1>7, BeginSweepCore, FetchCore, UpdateCore, WatermarkCore, SweepType
     DEF SweepStep
<1>8. CASE SweepFails BY <1>1, <1>8, SweepFailsCore, SweepType
<1>9. CASE Restart BY <1>1, <1>9, RestartCore, EnvironmentType
<1>10. CASE UNCHANGED vars
  <2>1. TypeOK'
    BY <1>10 DEF TypeOK, vars, serverVars, dbVars, workerVars, sweepVars
  <2>2. Pending' = Pending BY <1>10 DEF Pending, vars, workerVars
  <2>3. Core' BY <1>10, <2>2, Move DEF vars
  <2>4. QED BY <1>1, <2>1, <2>3
<1>11. QED BY <1>2, <1>3, <1>4, <1>5, <1>6, <1>7, <1>8, <1>9, <1>10 DEF Next

LEMMA Invariance == Spec => []Inv
BY InvInit, InvStep, PTL DEF Spec

\* In any number of folders, with any queue and any requests, sweeps and other
\* clients: a difference between database and server is on its way to go, in
\* a queue or above the watermark, unless a change was dropped.
THEOREM NoDifferenceIsForgotten == Spec => []DifferencesAreUnderWay
<1>1. Inv => DifferencesAreUnderWay
  <2>1. SUFFICES ASSUME Inv, NEW m \in Msgs, ~Agrees(m),
                        ~(\E op \in Pending : m \in op.msgs), m \notin diverged
                 PROVE  server[m].mod > watermark[FolderOf[m]]
    BY DEF DifferencesAreUnderWay
  <2>2. PICK g \in Flags : ~(g \in db[m] <=> g \in server[m].flags)
    <3>1. db[m] \subseteq Flags /\ server[m].flags \subseteq Flags
      BY <2>1 DEF Inv, TypeOK
    <3>2. QED BY <2>1, <3>1 DEF Agrees
  <2>3. ~Settled(m, g) BY <2>1, <2>2 DEF Settled
  <2>4. QED BY <2>1, <2>3 DEF Inv, Core, Covered
<1>2. QED BY <1>1, Invariance, PTL

\* No failure of SELECT or of the connection makes runOnce send a STORE to a mailbox
\* that is not the operation's.
THEOREM StoresReachTheirFolder == Spec => []StoresGoToTheirFolder
<1>1. Inv => StoresGoToTheirFolder
  <2>1. SUFFICES ASSUME Inv, NEW i \in DOMAIN storing, currentSel = storing[i].folder
                 PROVE  selected \in {storing[i].folder, None}
    BY DEF StoresGoToTheirFolder
  <2>2. currentSel # None
    <3>1. storing \in Seq(Ops) BY <2>1 DEF Inv, TypeOK
    <3>2. storing[i] \in Ops BY <2>1, <3>1, ElementOfSeq, LenProperties
    <3>3. QED BY <2>1, <3>2, ConstantsAssumption DEF Ops
  <2>3. QED BY <2>1, <2>2 DEF Inv, Belief
<1>2. QED BY <1>1, Invariance, PTL

\* Every value stays in its type; the queue never exceeds its capacity.
THEOREM TypeCorrectness == Spec => []TypeOK
<1>1. Inv => TypeOK BY DEF Inv
<1>2. QED BY <1>1, Invariance, PTL
=============================================================================
