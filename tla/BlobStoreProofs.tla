-------------------------- MODULE BlobStoreProofs ---------------------------
(***************************************************************************)
(* For every set of contents, attachments, messages and workers: the       *)
(* reference counts are exact, a file in use disappears only under the     *)
(* eyes of its users, and the store implements ContentStore.               *)
(***************************************************************************)
EXTENDS BlobStore, FiniteLemmas

\* What an operation carries, between its steps, fits what it is about to do; the
\* retention sweep has links to decrement only before it collects.
WellFormed ==
  /\ \A w \in Workers :
       /\ worker[w].pc \in {"store", "insert", "link", "release"}
            => worker[w].blob \in Blobs
       /\ worker[w].job \in AttJobs => worker[w].row \in Atts
       /\ worker[w].job \in MsgJobs => worker[w].row \in Msgs
  /\ sweeper["raw"].pc # "list" => \A m \in Msgs : due[m] = Null

\* The inductive invariant. TypeOK says that a count is a natural number, which
\* it is because it counts something: neither conjunct stands without the other.
Inv == TypeOK /\ RefcountExact /\ WellFormed

\* The holders of a blob are finitely many of each kind.
LEMMA RefsAreFinite ==
  ASSUME NEW b
  PROVE  /\ Cardinality(AttRefs(b)) \in Nat /\ Cardinality(RawRefs(b)) \in Nat
         /\ Cardinality(Holders(b)) \in Nat /\ Cardinality(DueRefs(b)) \in Nat
         /\ Cardinality(AttRefs(b)') \in Nat /\ Cardinality(RawRefs(b)') \in Nat
         /\ Cardinality(Holders(b)') \in Nat /\ Cardinality(DueRefs(b)') \in Nat
<1>1. /\ AttRefs(b) \in SUBSET Atts /\ RawRefs(b) \in SUBSET Msgs
      /\ Holders(b) \in SUBSET Workers /\ DueRefs(b) \in SUBSET Msgs
  BY DEF AttRefs, RawRefs, Holders, DueRefs
<1>2. /\ AttRefs(b)' \in SUBSET Atts /\ RawRefs(b)' \in SUBSET Msgs
      /\ Holders(b)' \in SUBSET Workers /\ DueRefs(b)' \in SUBSET Msgs
  BY DEF AttRefs, RawRefs, Holders, DueRefs
<1>3. QED BY <1>1, <1>2, SubsetCard, FinitenessAssumption

\* A blob held by anybody has a positive count.
LEMMA HeldIsCounted ==
  ASSUME Inv, NEW b \in Blobs,
         AttRefs(b) # {} \/ RawRefs(b) # {} \/ Holders(b) # {} \/ DueRefs(b) # {}
  PROVE  refcount[b] \in Nat \ {0}
<1>1. /\ AttRefs(b) \in SUBSET Atts /\ RawRefs(b) \in SUBSET Msgs
      /\ Holders(b) \in SUBSET Workers /\ DueRefs(b) \in SUBSET Msgs
  BY DEF AttRefs, RawRefs, Holders, DueRefs
<1>2. \/ Cardinality(AttRefs(b)) # 0 \/ Cardinality(RawRefs(b)) # 0
      \/ Cardinality(Holders(b)) # 0 \/ Cardinality(DueRefs(b)) # 0
  BY <1>1, SubsetCard, FinitenessAssumption
<1>3. leaked[b] \in Nat BY DEF Inv, TypeOK
<1>4. refcount[b] = Cardinality(AttRefs(b)) + Cardinality(RawRefs(b))
                      + Cardinality(Holders(b)) + Cardinality(DueRefs(b)) + leaked[b]
  BY DEF Inv, RefcountExact
<1>5. /\ Cardinality(AttRefs(b)) \in Nat /\ Cardinality(RawRefs(b)) \in Nat
      /\ Cardinality(Holders(b)) \in Nat /\ Cardinality(DueRefs(b)) \in Nat
  BY RefsAreFinite
<1>6. refcount[b] \in Nat BY DEF Inv, TypeOK
<1>7. ASSUME NEW p \in Nat, NEW q \in Nat, NEW r \in Nat, NEW s \in Nat, NEW t \in Nat,
             p # 0 \/ q # 0 \/ r # 0 \/ s # 0
      PROVE  p + q + r + s + t # 0
  BY <1>7
<1>8. QED BY <1>2, <1>3, <1>4, <1>5, <1>6, <1>7

-----------------------------------------------------------------------------
(* How each kind of holder changes under an assignment to one place.       *)

Assigned(f, g, x, v) == g = [f EXCEPT ![x] = v]

LEMMA AttRefsChange ==
  ASSUME TypeOK, NEW a \in Atts, NEW v, Assigned(attBlob, attBlob', a, v), NEW b
  PROVE  Cardinality(AttRefs(b)') = Cardinality(AttRefs(b))
           + (IF v = b THEN 1 ELSE 0) - (IF attBlob[a] = b THEN 1 ELSE 0)
<1> DEFINE S == AttRefs(b)
           T == AttRefs(b)'
<1>1. S \in SUBSET Atts /\ T \in SUBSET Atts BY DEF AttRefs
<1>2. \A x \in Atts \ {a} : x \in S <=> x \in T BY DEF AttRefs, TypeOK, Assigned
<1>3. (a \in S <=> attBlob[a] = b) /\ (a \in T <=> v = b) BY DEF AttRefs, TypeOK, Assigned
<1>4. Cardinality(T) = Cardinality(S)
           + (IF a \in T THEN 1 ELSE 0) - (IF a \in S THEN 1 ELSE 0)
  BY <1>1, <1>2, PointChange, FinitenessAssumption
<1>5. QED BY <1>3, <1>4

LEMMA RawRefsChange ==
  ASSUME TypeOK, NEW m \in Msgs, NEW v, Assigned(rawBlob, rawBlob', m, v), NEW b
  PROVE  Cardinality(RawRefs(b)') = Cardinality(RawRefs(b))
           + (IF v = b THEN 1 ELSE 0) - (IF rawBlob[m] = b THEN 1 ELSE 0)
<1> DEFINE S == RawRefs(b)
           T == RawRefs(b)'
<1>1. S \in SUBSET Msgs /\ T \in SUBSET Msgs BY DEF RawRefs
<1>2. \A x \in Msgs \ {m} : x \in S <=> x \in T BY DEF RawRefs, TypeOK, Assigned
<1>3. (m \in S <=> rawBlob[m] = b) /\ (m \in T <=> v = b) BY DEF RawRefs, TypeOK, Assigned
<1>4. Cardinality(T) = Cardinality(S)
           + (IF m \in T THEN 1 ELSE 0) - (IF m \in S THEN 1 ELSE 0)
  BY <1>1, <1>2, PointChange, FinitenessAssumption
<1>5. QED BY <1>3, <1>4

LEMMA DueRefsChange ==
  ASSUME TypeOK, NEW m \in Msgs, NEW v, Assigned(due, due', m, v), NEW b
  PROVE  Cardinality(DueRefs(b)') = Cardinality(DueRefs(b))
           + (IF v = b THEN 1 ELSE 0) - (IF due[m] = b THEN 1 ELSE 0)
<1> DEFINE S == DueRefs(b)
           T == DueRefs(b)'
<1>1. S \in SUBSET Msgs /\ T \in SUBSET Msgs BY DEF DueRefs
<1>2. \A x \in Msgs \ {m} : x \in S <=> x \in T BY DEF DueRefs, TypeOK, Assigned
<1>3. (m \in S <=> due[m] = b) /\ (m \in T <=> v = b) BY DEF DueRefs, TypeOK, Assigned
<1>4. Cardinality(T) = Cardinality(S)
           + (IF m \in T THEN 1 ELSE 0) - (IF m \in S THEN 1 ELSE 0)
  BY <1>1, <1>2, PointChange, FinitenessAssumption
<1>5. QED BY <1>3, <1>4

LEMMA HoldersChange ==
  ASSUME TypeOK, NEW w \in Workers, NEW op, Become(w, op), NEW b
  PROVE  Cardinality(Holders(b)') = Cardinality(Holders(b))
           + (IF Holds(op, b) THEN 1 ELSE 0) - (IF Holds(worker[w], b) THEN 1 ELSE 0)
<1> DEFINE S == Holders(b)
           T == Holders(b)'
<1>1. S \in SUBSET Workers /\ T \in SUBSET Workers BY DEF Holders
<1>2. worker' = [worker EXCEPT ![w] = op] BY DEF Become
<1>3. \A x \in Workers : worker'[x] = IF x = w THEN op ELSE worker[x]
  BY <1>2 DEF TypeOK
<1>4. \A x \in Workers \ {w} : x \in S <=> x \in T BY <1>3 DEF Holders, Holds
<1>5. (w \in S <=> Holds(worker[w], b)) /\ (w \in T <=> Holds(op, b))
  BY <1>3 DEF Holders, Holds
<1>6. Cardinality(T) = Cardinality(S)
           + (IF w \in T THEN 1 ELSE 0) - (IF w \in S THEN 1 ELSE 0)
  BY <1>1, <1>4, PointChange, FinitenessAssumption
<1>7. QED BY <1>5, <1>6

\* An operation that neither held a blob nor comes to hold one is no holder.
LEMMA HoldersUnchanged ==
  ASSUME TypeOK, NEW w \in Workers, NEW op, Become(w, op),
         worker[w].pc \notin {"link", "release"}, op.pc \notin {"link", "release"},
         NEW b
  PROVE  Holders(b)' = Holders(b)
BY DEF Become, TypeOK, Holders, Holds

\* An operation that lets go of what it holds, if it holds anything.
LEMMA HoldersRelease ==
  ASSUME TypeOK, NEW w \in Workers, NEW op, Become(w, op),
         op.pc \notin {"link", "release"}, NEW b
  PROVE  Cardinality(Holders(b)') =
           Cardinality(Holders(b)) - (IF Holds(worker[w], b) THEN 1 ELSE 0)
<1>1. ~Holds(op, b) BY DEF Holds
<1>2. QED BY <1>1, HoldersChange, RefsAreFinite

\* An operation that holds c throughout, or passes from holding c to holding d.
LEMMA HoldersPass ==
  ASSUME TypeOK, NEW w \in Workers, NEW op, Become(w, op),
         worker[w].pc \in {"link", "release"}, op.pc = "release", NEW b
  PROVE  Cardinality(Holders(b)') = Cardinality(Holders(b))
           + (IF op.blob = b THEN 1 ELSE 0) - (IF worker[w].blob = b THEN 1 ELSE 0)
<1>1. (Holds(op, b) <=> op.blob = b) /\ (Holds(worker[w], b) <=> worker[w].blob = b)
  BY DEF Holds
<1>2. QED BY <1>1, HoldersChange

\* The counts stay exact if, for every blob, the count, the leak and the holders
\* change in step.
Excess(b) == Cardinality(AttRefs(b)) + Cardinality(RawRefs(b))
               + Cardinality(Holders(b)) + Cardinality(DueRefs(b))
               + leaked[b] - refcount[b]

LEMMA ExactInStep ==
  ASSUME Inv, UNCHANGED rows,
         \A b \in Blobs : /\ refcount'[b] \in Nat /\ refcount'[b] <= refcount[b]
                          /\ leaked'[b] \in Nat
                          /\ Excess(b)' = Excess(b)
  PROVE  RefcountExact'
<1> USE DEF Excess
<1>1. ASSUME NEW b \in Blobs
      PROVE  refcount'[b] = Cardinality(AttRefs(b)') + Cardinality(RawRefs(b)')
                              + Cardinality(Holders(b)') + Cardinality(DueRefs(b)')
                              + leaked'[b]
  <2>1. refcount[b] = Cardinality(AttRefs(b)) + Cardinality(RawRefs(b))
                        + Cardinality(Holders(b)) + Cardinality(DueRefs(b)) + leaked[b]
    BY DEF Inv, RefcountExact
  <2>2. refcount[b] \in Nat /\ leaked[b] \in Nat BY DEF Inv, TypeOK
  <2>3. QED BY <2>1, <2>2, RefsAreFinite
<1>2. ASSUME NEW b \in Blobs \ rows PROVE refcount'[b] = 0
  BY DEF Inv, RefcountExact
<1>3. QED BY <1>1, <1>2 DEF RefcountExact

\* Steps that touch neither the links nor the counts keep the counts exact.
LEMMA ExactKept ==
  ASSUME RefcountExact, UNCHANGED <<rows, refcount, rawBlob, attBlob, due, leaked>>,
         \A b \in Blobs : Cardinality(Holders(b)') = Cardinality(Holders(b))
  PROVE  RefcountExact'
<1>1. \A b \in Blobs : /\ AttRefs(b)' = AttRefs(b) /\ RawRefs(b)' = RawRefs(b)
                       /\ DueRefs(b)' = DueRefs(b)
  BY DEF AttRefs, RawRefs, DueRefs
<1>2. QED BY <1>1 DEF RefcountExact

-----------------------------------------------------------------------------
(* The invariant, action by action.                                        *)

\* An operation that goes on with its job, or ends.
LEMMA GoesOn ==
  ASSUME Inv, NEW w \in Workers, NEW op, Become(w, op), UNCHANGED <<sweeper, due>>,
         op = Idle \/ /\ op \in Operations
                      /\ op.job = worker[w].job /\ op.row = worker[w].row
                      /\ op.pc # "clear" => op.blob \in Blobs
  PROVE  worker' \in [Workers -> Operations] /\ WellFormed'
<1>1. worker' = [worker EXCEPT ![w] = op] BY DEF Become
<1>2. Idle \in Operations /\ Idle.pc = "idle" /\ Idle.job = "none"
  BY DEF Idle, Op, Operations
<1>3. worker' \in [Workers -> Operations] BY <1>1, <1>2 DEF Inv, TypeOK
<1>4. WellFormed'
  BY <1>1, <1>2 DEF Inv, TypeOK, WellFormed, AttJobs, MsgJobs
<1>5. QED BY <1>3, <1>4

LEMMA InitInv == Init => Inv
<1> SUFFICES ASSUME Init PROVE Inv OBVIOUS
<1> USE ConstantsAssumption
<1>1. TypeOK BY DEF Init, TypeOK, Operations, Sweeps, Idle, Op, Sweep, Sweepers
<1>2. WellFormed BY DEF Init, WellFormed, Idle, Op, Sweep, Sweepers, AttJobs, MsgJobs
<1>3. ASSUME NEW b \in Blobs
      PROVE  AttRefs(b) = {} /\ RawRefs(b) = {} /\ Holders(b) = {} /\ DueRefs(b) = {}
  BY DEF Init, Idle, Op, AttRefs, RawRefs, Holders, Holds, DueRefs
<1>4. Cardinality({}) = 0 BY FS_EmptySet
<1>5. \A b \in Blobs : /\ Cardinality(AttRefs(b)) = 0 /\ Cardinality(RawRefs(b)) = 0
                       /\ Cardinality(Holders(b)) = 0 /\ Cardinality(DueRefs(b)) = 0
                       /\ leaked[b] = 0 /\ refcount[b] = 0
  BY <1>3, <1>4 DEF Init
<1>6. RefcountExact BY <1>5 DEF RefcountExact
<1>7. QED BY <1>1, <1>2, <1>6 DEF Inv

\* An operation that starts holds nothing yet.
LEMMA StartInv ==
  ASSUME Inv, NEW w \in Workers, NEW op, Start(w, op),
         op \in [pc : {"store", "clear"}, job : AttJobs \cup MsgJobs,
                row : Atts \cup Msgs, blob : Blobs \cup {Null}],
         op.pc = "store" => op.blob \in Blobs,
         op.job \in AttJobs => op.row \in Atts,
         op.job \in MsgJobs => op.row \in Msgs
  PROVE  Inv'
<1>1. TypeOK' BY DEF Inv, TypeOK, Operations, Start, Become, refVars, liveVars
<1>2. WellFormed'
  BY DEF Inv, TypeOK, WellFormed, Start, Become, refVars, liveVars
<1>3. RefcountExact'
  <2>1. Become(w, op) /\ worker[w].pc = "idle" BY DEF Start, Idle, Op
  <2>2. \A b \in Blobs : Holders(b)' = Holders(b)
    BY <2>1, HoldersUnchanged DEF Inv
  <2>3. QED BY <2>2, ExactKept DEF Inv, Start, refVars
<1>4. QED BY <1>1, <1>2, <1>3 DEF Inv

LEMMA StartsInv ==
  ASSUME Inv, NEW w \in Workers,
         \/ StartDownload(w) \/ StartBackfill(w) \/ StartCapture(w)
         \/ StartOpen(w) \/ StartView(w)
  PROVE  Inv'
<1> USE DEF AttJobs, MsgJobs
<1> attachments \subseteq Atts /\ messages \subseteq Msgs BY DEF Inv, TypeOK
<1> /\ attBlob \in [Atts -> Blobs \cup {Null}]
    /\ rawBlob \in [Msgs -> Blobs \cup {Null}] BY DEF Inv, TypeOK
<1> /\ \A a \in Atts : PartBytes[a] \subseteq Blobs
    /\ \A m \in Msgs : RawBytes[m] \subseteq Blobs BY ConstantsAssumption
<1>1. ASSUME StartDownload(w) PROVE Inv'
  <2>1. PICK a \in attachments : \E b \in PartBytes[a] :
               Start(w, Op("store", "download", a, b))
    BY <1>1 DEF StartDownload
  <2>2. QED BY <2>1, StartInv DEF Op
<1>2. ASSUME StartBackfill(w) PROVE Inv'
  <2>1. PICK a \in attachments :
               \/ \E b \in PartBytes[a] : Start(w, Op("store", "backfill", a, b))
               \/ Start(w, Op("clear", "backfill", a, Null))
    BY <1>2 DEF StartBackfill
  <2>2. ASSUME NEW b \in PartBytes[a], Start(w, Op("store", "backfill", a, b))
        PROVE  Inv'
    BY <2>2, StartInv DEF Op
  <2>3. ASSUME Start(w, Op("clear", "backfill", a, Null)) PROVE Inv'
    BY <2>3, StartInv DEF Op
  <2>4. QED BY <2>1, <2>2, <2>3
<1>3. ASSUME StartCapture(w) PROVE Inv'
  <2>1. PICK m \in messages : \E b \in RawBytes[m] :
               Start(w, Op("store", "capture", m, b))
    BY <1>3 DEF StartCapture
  <2>2. QED BY <2>1, StartInv DEF Op
<1>4. ASSUME StartOpen(w) PROVE Inv'
  <2>1. PICK a \in attachments : Start(w, Op("clear", "open", a, attBlob[a]))
    BY <1>4 DEF StartOpen
  <2>2. QED BY <2>1, StartInv DEF Op
<1>5. ASSUME StartView(w) PROVE Inv'
  <2>1. PICK m \in messages : Start(w, Op("clear", "view", m, rawBlob[m]))
    BY <1>5 DEF StartView
  <2>2. QED BY <2>1, StartInv DEF Op
<1>6. QED BY <1>1, <1>2, <1>3, <1>4, <1>5

LEMMA WriteInv ==
  ASSUME Inv, NEW w \in Workers, WriteContentAddressed(w) PROVE Inv'
<1> USE DEF WriteContentAddressed, refVars, liveVars
<1> DEFINE op == [worker[w] EXCEPT !.pc = "insert"]
<1>1. Become(w, op) /\ worker[w].pc = "store" /\ worker[w].blob \in Blobs
  BY DEF Inv, WellFormed
<1>2. /\ op \in Operations /\ op.pc = "insert" /\ op.blob = worker[w].blob
      /\ op.job = worker[w].job /\ op.row = worker[w].row
  BY DEF Inv, TypeOK, Operations
<1> HIDE DEF op
<1>3. worker' \in [Workers -> Operations] /\ WellFormed' BY <1>1, <1>2, GoesOn
<1>4. TypeOK' BY <1>1, <1>3 DEF Inv, TypeOK
<1>5. \A b \in Blobs : Holders(b)' = Holders(b)
  BY <1>1, <1>2, HoldersUnchanged DEF Inv
<1>6. QED BY <1>3, <1>4, <1>5, ExactKept DEF Inv

\* The new unit of the count is held by the operation that took it.
LEMMA InsertInv ==
  ASSUME Inv, NEW w \in Workers, InsertOrIncBlob(w) PROVE Inv'
<1> USE DEF InsertOrIncBlob, refVars, liveVars
<1> DEFINE c  == worker[w].blob
           op == [worker[w] EXCEPT !.pc = "link"]
<1>1. Become(w, op) /\ worker[w].pc = "insert" /\ c \in Blobs
  BY DEF Inv, WellFormed
<1>2. /\ op \in Operations /\ op.pc = "link" /\ op.blob = c
      /\ op.job = worker[w].job /\ op.row = worker[w].row
  BY DEF Inv, TypeOK, Operations
<1> HIDE DEF op
<1>3. worker' \in [Workers -> Operations] /\ WellFormed' BY <1>1, <1>2, GoesOn
<1>4. refcount' \in [Blobs -> Nat] BY <1>1 DEF Inv, TypeOK
<1>5. TypeOK' BY <1>1, <1>3, <1>4 DEF Inv, TypeOK
<1>6. ASSUME NEW b \in Blobs
      PROVE  refcount'[b] = Cardinality(AttRefs(b)') + Cardinality(RawRefs(b)')
               + Cardinality(Holders(b)') + Cardinality(DueRefs(b)') + leaked'[b]
  <2>1. Cardinality(Holders(b)') = Cardinality(Holders(b)) + (IF b = c THEN 1 ELSE 0)
    <3>1. Cardinality(Holders(b)') = Cardinality(Holders(b))
             + (IF Holds(op, b) THEN 1 ELSE 0) - (IF Holds(worker[w], b) THEN 1 ELSE 0)
      BY <1>1, HoldersChange DEF Inv
    <3>2. (Holds(op, b) <=> b = c) /\ ~Holds(worker[w], b) BY <1>1, <1>2 DEF Holds
    <3>3. QED BY <3>1, <3>2, RefsAreFinite
  <2>2. refcount'[b] = refcount[b] + (IF b = c THEN 1 ELSE 0)
    BY <1>1 DEF Inv, TypeOK, RefcountExact
  <2>3. /\ AttRefs(b)' = AttRefs(b) /\ RawRefs(b)' = RawRefs(b)
        /\ DueRefs(b)' = DueRefs(b)
    BY DEF AttRefs, RawRefs, DueRefs
  <2>4. leaked[b] \in Nat /\ leaked' = leaked BY DEF Inv, TypeOK
  <2>5. refcount[b] = Cardinality(AttRefs(b)) + Cardinality(RawRefs(b))
            + Cardinality(Holders(b)) + Cardinality(DueRefs(b)) + leaked[b]
    BY DEF Inv, RefcountExact
  <2>6. QED BY <2>1, <2>2, <2>3, <2>4, <2>5, RefsAreFinite
<1>7. ASSUME NEW b \in Blobs, b \notin rows' PROVE refcount'[b] = 0
  BY <1>7, <1>1 DEF Inv, TypeOK, RefcountExact
<1>8. RefcountExact' BY <1>6, <1>7 DEF RefcountExact
<1>9. QED BY <1>3, <1>5, <1>8 DEF Inv

\* The link takes over the operation's reference; the link it overwrites, or the
\* reference itself if the row is gone, is leaked.
LEMMA UpdateInv ==
  ASSUME Inv, NEW w \in Workers, UpdateAttachmentDownloaded(w) PROVE Inv'
<1> USE DEF UpdateAttachmentDownloaded, refVars, liveVars
<1> DEFINE a == worker[w].row
           c == worker[w].blob
<1>0. c \in Blobs /\ a \in Atts /\ worker[w].pc = "link" /\ c # Null
  BY ConstantsAssumption DEF Inv, WellFormed, AttJobs
<1>1. Become(w, Idle) /\ Idle.pc = "idle" BY DEF Idle, Op
<1>2. /\ attBlob \in [Atts -> Blobs \cup {Null}] /\ leaked \in [Blobs -> Nat]
      /\ refcount \in [Blobs -> Nat]
  BY DEF Inv, TypeOK
<1>3. worker' \in [Workers -> Operations] /\ WellFormed' BY <1>1, GoesOn
<1>4. TypeOK'
  <2>1. attBlob' \in [Atts -> Blobs \cup {Null}] /\ localPath' \subseteq Atts
    BY <1>0, <1>2 DEF Inv, TypeOK
  <2>2. leaked' \in [Blobs -> Nat] BY <1>0, <1>2 DEF Leak, Forget
  <2>3. QED BY <1>3, <2>1, <2>2 DEF Inv, TypeOK
<1>5. ASSUME NEW b \in Blobs
      PROVE  Cardinality(AttRefs(b)') + Cardinality(Holders(b)') + leaked'[b]
               = Cardinality(AttRefs(b)) + Cardinality(Holders(b)) + leaked[b]
  <2>1. Cardinality(Holders(b)') = Cardinality(Holders(b)) - (IF c = b THEN 1 ELSE 0)
    BY <1>0, <1>1, HoldersRelease DEF Inv, Holds
  <2>2. CASE a \in attachments
    <3>1. Cardinality(AttRefs(b)') = Cardinality(AttRefs(b))
             + (IF c = b THEN 1 ELSE 0) - (IF attBlob[a] = b THEN 1 ELSE 0)
      <4>1. Assigned(attBlob, attBlob', a, c) BY <2>2 DEF Assigned
      <4>2. QED BY <4>1, <1>0, AttRefsChange DEF Inv
    <3>2. leaked'[b] = leaked[b] + (IF attBlob[a] = b THEN 1 ELSE 0)
      BY <2>2, <1>0, <1>2, ConstantsAssumption DEF Forget, Leak
    <3>3. leaked[b] \in Nat BY <1>2
    <3>4. QED BY <2>1, <3>1, <3>2, <3>3, RefsAreFinite
  <2>3. CASE a \notin attachments
    <3>1. AttRefs(b)' = AttRefs(b) BY <2>3 DEF AttRefs
    <3>2. leaked'[b] = leaked[b] + (IF c = b THEN 1 ELSE 0)
      BY <2>3, <1>0, <1>2 DEF Leak
    <3>3. leaked[b] \in Nat BY <1>2
    <3>4. QED BY <2>1, <3>1, <3>2, <3>3, RefsAreFinite
  <2>4. QED BY <2>2, <2>3
<1>6. RefcountExact'
  <2>1. \A b \in Blobs : RawRefs(b)' = RawRefs(b) /\ DueRefs(b)' = DueRefs(b)
    BY DEF RawRefs, DueRefs
  <2>2. \A b \in Blobs : leaked'[b] \in Nat /\ leaked[b] \in Nat /\ refcount[b] \in Nat
    BY <1>2, <1>4 DEF TypeOK
  <2>3. \A b \in Blobs : Excess(b)' = Excess(b)
    BY <1>5, <2>1, <2>2, RefsAreFinite DEF Excess
  <2>4. QED BY <2>2, <2>3, ExactInStep
<1>7. QED BY <1>3, <1>4, <1>6 DEF Inv

\* The link takes over the operation's reference, and the operation is left with
\* the link it replaced, if any; or the operation keeps what it has.
LEMMA SetRawInv ==
  ASSUME Inv, NEW w \in Workers, SetMessageRawBlob(w) PROVE Inv'
<1> USE DEF SetMessageRawBlob, refVars, liveVars
<1> DEFINE m == worker[w].row
           c == worker[w].blob
           GiveBack(d) == [worker[w] EXCEPT !.pc = "release", !.blob = d]
<1>0. c \in Blobs /\ m \in Msgs /\ worker[w].pc = "link" /\ c # Null
  BY ConstantsAssumption DEF Inv, WellFormed, MsgJobs
<1>1. /\ rawBlob \in [Msgs -> Blobs \cup {Null}] /\ leaked \in [Blobs -> Nat]
      /\ refcount \in [Blobs -> Nat]
  BY DEF Inv, TypeOK
<1>2. ASSUME NEW d \in Blobs
      PROVE  /\ GiveBack(d) \in Operations
             /\ GiveBack(d).pc = "release" /\ GiveBack(d).blob = d
             /\ GiveBack(d).job = worker[w].job /\ GiveBack(d).row = worker[w].row
  BY DEF Inv, TypeOK, Operations
<1>3. \/ /\ m \in messages /\ rawBlob[m] = Null
         /\ rawBlob' = [rawBlob EXCEPT ![m] = c]
         /\ Become(w, Idle)
      \/ /\ UNCHANGED rawBlob
         /\ Become(w, GiveBack(c))
      \/ /\ rawBlob[m] \in Blobs
         /\ rawBlob' = [rawBlob EXCEPT ![m] = c]
         /\ Become(w, GiveBack(rawBlob[m]))
  BY <1>0, <1>1
<1> HIDE DEF GiveBack
<1>4. worker' \in [Workers -> Operations] /\ WellFormed'
  <2>1. PICK op : Become(w, op) /\ (op = Idle \/ \E d \in Blobs : op = GiveBack(d))
    BY <1>0, <1>3
  <2>2. QED BY <2>1, <1>2, GoesOn
<1>5. TypeOK'
  <2>1. rawBlob' \in [Msgs -> Blobs \cup {Null}] BY <1>0, <1>1, <1>3
  <2>2. QED BY <2>1, <1>4 DEF Inv, TypeOK
<1>6. ASSUME NEW b \in Blobs
      PROVE  Cardinality(RawRefs(b)') + Cardinality(Holders(b)')
               = Cardinality(RawRefs(b)) + Cardinality(Holders(b))
  <2>1. CASE /\ rawBlob[m] = Null
             /\ rawBlob' = [rawBlob EXCEPT ![m] = c]
             /\ Become(w, Idle)
    <3>1. Cardinality(Holders(b)') = Cardinality(Holders(b)) - (IF c = b THEN 1 ELSE 0)
      BY <2>1, <1>0, HoldersRelease DEF Inv, Holds, Idle, Op
    <3>2. Cardinality(RawRefs(b)') = Cardinality(RawRefs(b)) + (IF c = b THEN 1 ELSE 0)
                                       - (IF rawBlob[m] = b THEN 1 ELSE 0)
      <4>1. Assigned(rawBlob, rawBlob', m, c) BY <2>1 DEF Assigned
      <4>2. QED BY <4>1, <1>0, RawRefsChange DEF Inv
    <3>3. rawBlob[m] # b BY <2>1, ConstantsAssumption
    <3>4. QED BY <3>1, <3>2, <3>3, RefsAreFinite
  <2>2. CASE UNCHANGED rawBlob /\ Become(w, GiveBack(c))
    <3>1. GiveBack(c).pc = "release" /\ GiveBack(c).blob = c BY <1>0, <1>2
    <3>2. Cardinality(Holders(b)') = Cardinality(Holders(b))
             + (IF c = b THEN 1 ELSE 0) - (IF c = b THEN 1 ELSE 0)
      BY <2>2, <3>1, <1>0, HoldersPass DEF Inv
    <3>3. RawRefs(b)' = RawRefs(b) BY <2>2 DEF RawRefs
    <3>4. QED BY <3>2, <3>3, RefsAreFinite
  <2>3. CASE /\ rawBlob[m] \in Blobs
             /\ rawBlob' = [rawBlob EXCEPT ![m] = c]
             /\ Become(w, GiveBack(rawBlob[m]))
    <3> DEFINE d == rawBlob[m]
    <3>1. GiveBack(d).pc = "release" /\ GiveBack(d).blob = d BY <2>3, <1>2
    <3>2. Cardinality(Holders(b)') = Cardinality(Holders(b))
             + (IF d = b THEN 1 ELSE 0) - (IF c = b THEN 1 ELSE 0)
      BY <2>3, <3>1, <1>0, HoldersPass DEF Inv
    <3>3. Cardinality(RawRefs(b)') = Cardinality(RawRefs(b)) + (IF c = b THEN 1 ELSE 0)
                                       - (IF d = b THEN 1 ELSE 0)
      <4>1. Assigned(rawBlob, rawBlob', m, c) BY <2>3 DEF Assigned
      <4>2. QED BY <4>1, <1>0, RawRefsChange DEF Inv
    <3>4. QED BY <3>2, <3>3, RefsAreFinite
  <2>4. QED BY <1>3, <2>1, <2>2, <2>3
<1>7. RefcountExact'
  <2>1. \A b \in Blobs : AttRefs(b)' = AttRefs(b) /\ DueRefs(b)' = DueRefs(b)
    BY DEF AttRefs, DueRefs
  <2>2. \A b \in Blobs : leaked[b] \in Nat /\ refcount[b] \in Nat BY <1>1
  <2>3. \A b \in Blobs : Excess(b)' = Excess(b)
    BY <1>6, <2>1, <2>2, RefsAreFinite DEF Excess
  <2>4. QED BY <2>2, <2>3, ExactInStep
<1>8. QED BY <1>4, <1>5, <1>7 DEF Inv

\* The cleared link becomes what its clearer holds, or is leaked.
LEMMA ClearAttInv ==
  ASSUME Inv, NEW w \in Workers, ClearAttachmentBlob(w) PROVE Inv'
<1> USE DEF ClearAttachmentBlob, refVars, liveVars
<1> DEFINE a == worker[w].row
           d == attBlob[a]
           op == [worker[w] EXCEPT !.pc = "release", !.blob = d]
<1>1. /\ attBlob \in [Atts -> Blobs \cup {Null}] /\ leaked \in [Blobs -> Nat]
      /\ refcount \in [Blobs -> Nat]
  BY DEF Inv, TypeOK
<1>2. a \in Atts /\ d \in Blobs \cup {Null} /\ worker[w].pc = "clear"
  BY <1>1 DEF Inv, WellFormed
<1>3. /\ op.pc = "release" /\ op.blob = d
      /\ op.job = worker[w].job /\ op.row = worker[w].row
      /\ op \in Operations
  BY <1>2 DEF Inv, TypeOK, Operations
<1>4. \/ /\ attBlob' = [attBlob EXCEPT ![a] = Null] /\ d \in Blobs
         /\ Become(w, op) /\ UNCHANGED leaked
      \/ /\ attBlob' = [attBlob EXCEPT ![a] = Null]
         /\ Become(w, Idle) /\ Forget(d)
      \/ UNCHANGED <<attBlob, leaked>> /\ Become(w, Idle)
  BY <1>2
<1> HIDE DEF op
<1>5. worker' \in [Workers -> Operations] /\ WellFormed' BY <1>3, <1>4, GoesOn
<1>6. TypeOK'
  <2>1. attBlob' \in [Atts -> Blobs \cup {Null}] /\ localPath' \subseteq Atts
    BY <1>1, <1>2, <1>4 DEF Inv, TypeOK
  <2>2. leaked' \in [Blobs -> Nat] BY <1>1, <1>2, <1>4 DEF Forget, Leak
  <2>3. QED BY <1>5, <2>1, <2>2 DEF Inv, TypeOK
<1>7. ASSUME NEW b \in Blobs
      PROVE  Cardinality(AttRefs(b)') + Cardinality(Holders(b)') + leaked'[b]
               = Cardinality(AttRefs(b)) + Cardinality(Holders(b)) + leaked[b]
  <2>1. ASSUME attBlob' = [attBlob EXCEPT ![a] = Null]
        PROVE  Cardinality(AttRefs(b)') = Cardinality(AttRefs(b)) - (IF d = b THEN 1 ELSE 0)
    <3>1. Assigned(attBlob, attBlob', a, Null) BY <2>1 DEF Assigned
    <3>2. Cardinality(AttRefs(b)') = Cardinality(AttRefs(b))
             + (IF Null = b THEN 1 ELSE 0) - (IF d = b THEN 1 ELSE 0)
      BY <3>1, <1>2, AttRefsChange DEF Inv
    <3>3. QED BY <3>2, ConstantsAssumption, RefsAreFinite
  <2>2. leaked[b] \in Nat BY <1>1
  <2>3. CASE /\ attBlob' = [attBlob EXCEPT ![a] = Null] /\ d \in Blobs
             /\ Become(w, op) /\ UNCHANGED leaked
    <3>1. Cardinality(Holders(b)') = Cardinality(Holders(b))
             + (IF Holds(op, b) THEN 1 ELSE 0) - (IF Holds(worker[w], b) THEN 1 ELSE 0)
      BY <2>3, HoldersChange DEF Inv
    <3>2. (Holds(op, b) <=> d = b) /\ ~Holds(worker[w], b) BY <1>2, <1>3 DEF Holds
    <3>3. QED BY <2>1, <2>2, <2>3, <3>1, <3>2, RefsAreFinite
  <2>4. CASE Become(w, Idle)
    <3>1. Cardinality(Holders(b)') = Cardinality(Holders(b))
      BY <2>4, <1>2, HoldersUnchanged DEF Inv, Idle, Op
    <3>2. CASE attBlob' = [attBlob EXCEPT ![a] = Null] /\ Forget(d)
      <4>1. leaked'[b] = leaked[b] + (IF d = b THEN 1 ELSE 0)
        BY <3>2, <1>1, <1>2, ConstantsAssumption DEF Forget, Leak
      <4>2. QED BY <4>1, <3>1, <3>2, <2>1, <2>2, RefsAreFinite
    <3>3. CASE UNCHANGED <<attBlob, leaked>>
      <4>1. AttRefs(b)' = AttRefs(b) BY <3>3 DEF AttRefs
      <4>2. QED BY <4>1, <3>1, <3>3
    <3>4. CASE Become(w, op)
      BY <3>4, <2>4, <1>3 DEF Become, Idle, Op, Inv, TypeOK
    <3>5. QED BY <3>2, <3>3, <3>4, <1>4
  <2>5. QED BY <1>4, <2>3, <2>4
<1>8. RefcountExact'
  <2>1. \A b \in Blobs : RawRefs(b)' = RawRefs(b) /\ DueRefs(b)' = DueRefs(b)
    BY DEF RawRefs, DueRefs
  <2>2. \A b \in Blobs : leaked'[b] \in Nat /\ leaked[b] \in Nat /\ refcount[b] \in Nat
    BY <1>1, <1>6 DEF TypeOK
  <2>3. \A b \in Blobs : Excess(b)' = Excess(b)
    BY <1>7, <2>1, <2>2, RefsAreFinite DEF Excess
  <2>4. QED BY <2>2, <2>3, ExactInStep
<1>9. QED BY <1>5, <1>6, <1>8 DEF Inv

LEMMA ClearRawInv ==
  ASSUME Inv, NEW w \in Workers, ClearMessageRawBlob(w) PROVE Inv'
<1> USE DEF ClearMessageRawBlob, refVars, liveVars
<1> DEFINE m == worker[w].row
           d == rawBlob[m]
           op == [worker[w] EXCEPT !.pc = "release", !.blob = d]
<1>1. /\ rawBlob \in [Msgs -> Blobs \cup {Null}] /\ leaked \in [Blobs -> Nat]
      /\ refcount \in [Blobs -> Nat]
  BY DEF Inv, TypeOK
<1>2. m \in Msgs /\ d \in Blobs \cup {Null} /\ worker[w].pc = "clear"
  BY <1>1 DEF Inv, WellFormed, MsgJobs
<1>3. /\ op.pc = "release" /\ op.blob = d
      /\ op.job = worker[w].job /\ op.row = worker[w].row
      /\ op \in Operations
  BY <1>2 DEF Inv, TypeOK, Operations
<1>4. \/ /\ rawBlob' = [rawBlob EXCEPT ![m] = Null] /\ d \in Blobs
         /\ Become(w, op)
      \/ UNCHANGED rawBlob /\ Become(w, Idle)
  BY <1>2
<1> HIDE DEF op
<1>5. worker' \in [Workers -> Operations] /\ WellFormed' BY <1>3, <1>4, GoesOn
<1>6. TypeOK' BY <1>1, <1>2, <1>4, <1>5 DEF Inv, TypeOK
<1>7. ASSUME NEW b \in Blobs
      PROVE  Cardinality(RawRefs(b)') + Cardinality(Holders(b)')
               = Cardinality(RawRefs(b)) + Cardinality(Holders(b))
  <2>1. CASE rawBlob' = [rawBlob EXCEPT ![m] = Null] /\ d \in Blobs /\ Become(w, op)
    <3>1. Cardinality(Holders(b)') = Cardinality(Holders(b))
             + (IF Holds(op, b) THEN 1 ELSE 0) - (IF Holds(worker[w], b) THEN 1 ELSE 0)
      BY <2>1, HoldersChange DEF Inv
    <3>2. (Holds(op, b) <=> d = b) /\ ~Holds(worker[w], b) BY <1>2, <1>3 DEF Holds
    <3>3. Assigned(rawBlob, rawBlob', m, Null) BY <2>1 DEF Assigned
    <3>4. Cardinality(RawRefs(b)') = Cardinality(RawRefs(b))
             + (IF Null = b THEN 1 ELSE 0) - (IF d = b THEN 1 ELSE 0)
      BY <3>3, <1>2, RawRefsChange DEF Inv
    <3>5. QED BY <3>1, <3>2, <3>4, ConstantsAssumption, RefsAreFinite
  <2>2. CASE UNCHANGED rawBlob /\ Become(w, Idle)
    <3>1. Holders(b)' = Holders(b)
      BY <2>2, <1>2, HoldersUnchanged DEF Inv, Idle, Op
    <3>2. RawRefs(b)' = RawRefs(b) BY <2>2 DEF RawRefs
    <3>3. QED BY <3>1, <3>2
  <2>3. QED BY <1>4, <2>1, <2>2
<1>8. RefcountExact'
  <2>1. \A b \in Blobs : AttRefs(b)' = AttRefs(b) /\ DueRefs(b)' = DueRefs(b)
    BY DEF AttRefs, DueRefs
  <2>2. \A b \in Blobs : leaked[b] \in Nat /\ refcount[b] \in Nat BY <1>1
  <2>3. \A b \in Blobs : Excess(b)' = Excess(b)
    BY <1>7, <2>1, <2>2, RefsAreFinite DEF Excess
  <2>4. QED BY <2>2, <2>3, ExactInStep
<1>9. QED BY <1>5, <1>6, <1>8 DEF Inv

\* What is given back was counted: the count does not go below zero.
LEMMA DecInv ==
  ASSUME Inv, NEW w \in Workers, DecBlobRef(w) PROVE Inv'
<1> USE DEF DecBlobRef, refVars, liveVars
<1> DEFINE c == worker[w].blob
<1>1. c \in Blobs /\ worker[w].pc = "release" /\ Become(w, Idle)
  BY DEF Inv, WellFormed
<1>2. refcount \in [Blobs -> Nat] /\ leaked \in [Blobs -> Nat] BY DEF Inv, TypeOK
<1>3. refcount[c] \in Nat \ {0}
  <2>1. w \in Holders(c) BY <1>1 DEF Holders, Holds
  <2>2. QED BY <2>1, <1>1, HeldIsCounted
<1>4. worker' \in [Workers -> Operations] /\ WellFormed' BY <1>1, GoesOn
<1>5. refcount' = [refcount EXCEPT ![c] = @ - 1] BY DEF Decrement
<1>6. refcount' \in [Blobs -> Nat]
  <2>1. refcount[c] - 1 \in Nat BY <1>3
  <2>2. QED BY <2>1, <1>2, <1>5
<1>7. TypeOK' BY <1>4, <1>6 DEF Inv, TypeOK
<1>8. ASSUME NEW b \in Blobs
      PROVE  /\ refcount'[b] = refcount[b] - (IF c = b THEN 1 ELSE 0)
             /\ Cardinality(Holders(b)') = Cardinality(Holders(b)) - (IF c = b THEN 1 ELSE 0)
  <2>1. refcount'[b] = refcount[b] - (IF c = b THEN 1 ELSE 0) BY <1>2, <1>5
  <2>2. QED BY <2>1, <1>1, HoldersRelease DEF Inv, Idle, Op, Holds
<1>9. RefcountExact'
  <2>1. \A b \in Blobs : /\ AttRefs(b)' = AttRefs(b) /\ RawRefs(b)' = RawRefs(b)
                         /\ DueRefs(b)' = DueRefs(b)
    BY DEF AttRefs, RawRefs, DueRefs
  <2>2. \A b \in Blobs : /\ leaked[b] \in Nat /\ leaked' = leaked
                         /\ refcount[b] \in Nat /\ refcount'[b] \in Nat
    BY <1>2, <1>6
  <2>3. \A b \in Blobs : Excess(b)' = Excess(b)
    BY <1>8, <2>1, <2>2, RefsAreFinite DEF Excess
  <2>4. QED BY <1>8, <2>2, <2>3, ExactInStep
<1>10. QED BY <1>4, <1>7, <1>9 DEF Inv

\* A failure loses a held reference, or leaves it with the operation.
LEMMA FailInv ==
  ASSUME Inv, NEW w \in Workers, Fail(w) PROVE Inv'
<1> USE DEF Fail, Fault, refVars, liveVars
<1> DEFINE c == worker[w].blob
           op == [worker[w] EXCEPT !.pc = "release"]
<1>1. leaked \in [Blobs -> Nat] /\ refcount \in [Blobs -> Nat] BY DEF Inv, TypeOK
<1>2. worker[w].pc \in {"link", "release"} => c \in Blobs BY DEF Inv, WellFormed
<1>3. /\ op.pc = "release" /\ op.blob = c
      /\ op.job = worker[w].job /\ op.row = worker[w].row
      /\ op \in Operations
  BY DEF Inv, TypeOK, Operations
<1>4. \/ worker[w].pc = "link" /\ Become(w, op) /\ UNCHANGED leaked
      \/ worker[w].pc \in {"link", "release"} /\ Become(w, Idle) /\ Leak(c)
      \/ worker[w].pc \notin {"link", "release"} /\ Become(w, Idle) /\ UNCHANGED leaked
  OBVIOUS
<1> HIDE DEF op
<1>5. worker' \in [Workers -> Operations] /\ WellFormed' BY <1>2, <1>3, <1>4, GoesOn
<1>6. TypeOK'
  <2>1. leaked' \in [Blobs -> Nat] BY <1>1, <1>2, <1>4 DEF Leak
  <2>2. faults' \in Nat BY DEF Inv, TypeOK
  <2>3. QED BY <1>5, <2>1, <2>2 DEF Inv, TypeOK
<1>7. ASSUME NEW b \in Blobs
      PROVE  Cardinality(Holders(b)') + leaked'[b] = Cardinality(Holders(b)) + leaked[b]
  <2>1. leaked[b] \in Nat BY <1>1
  <2>2. CASE worker[w].pc = "link" /\ Become(w, op) /\ UNCHANGED leaked
    <3>1. Cardinality(Holders(b)') = Cardinality(Holders(b))
             + (IF c = b THEN 1 ELSE 0) - (IF c = b THEN 1 ELSE 0)
      BY <2>2, <1>3, HoldersPass DEF Inv
    <3>2. QED BY <3>1, <2>2, RefsAreFinite
  <2>3. CASE worker[w].pc \in {"link", "release"} /\ Become(w, Idle) /\ Leak(c)
    <3>1. Cardinality(Holders(b)') = Cardinality(Holders(b)) - (IF c = b THEN 1 ELSE 0)
      BY <2>3, HoldersRelease DEF Inv, Holds, Idle, Op
    <3>2. leaked'[b] = leaked[b] + (IF c = b THEN 1 ELSE 0)
      BY <2>3, <1>1, <1>2 DEF Leak
    <3>3. QED BY <3>1, <3>2, <2>1, RefsAreFinite
  <2>4. CASE /\ worker[w].pc \notin {"link", "release"}
             /\ Become(w, Idle) /\ UNCHANGED leaked
    <3>1. Holders(b)' = Holders(b) BY <2>4, HoldersUnchanged DEF Inv, Idle, Op
    <3>2. QED BY <3>1, <2>4
  <2>5. QED BY <1>4, <2>2, <2>3, <2>4
<1>8. RefcountExact'
  <2>1. \A b \in Blobs : /\ AttRefs(b)' = AttRefs(b) /\ RawRefs(b)' = RawRefs(b)
                         /\ DueRefs(b)' = DueRefs(b)
    BY DEF AttRefs, RawRefs, DueRefs
  <2>2. \A b \in Blobs : leaked'[b] \in Nat /\ leaked[b] \in Nat /\ refcount[b] \in Nat
    BY <1>1, <1>6 DEF TypeOK
  <2>3. \A b \in Blobs : Excess(b)' = Excess(b)
    BY <1>7, <2>1, <2>2, RefsAreFinite DEF Excess
  <2>4. QED BY <2>2, <2>3, ExactInStep
<1>9. QED BY <1>5, <1>6, <1>8 DEF Inv

\* A message arrives with its attachments, none of which refers to a blob.
LEMMA ArriveInv ==
  ASSUME Inv, InsertParsedMessageBundle PROVE Inv'
<1> USE DEF InsertParsedMessageBundle, refVars, liveVars
<1>1. TypeOK' BY DEF Inv, TypeOK
<1>2. WellFormed' BY DEF Inv, WellFormed
<1>3. RefcountExact' BY ExactKept DEF Inv, Holders
<1>4. QED BY <1>1, <1>2, <1>3 DEF Inv

\* The counts fall by as many links as the deleted rows had.
LEMMA DeleteInv ==
  ASSUME Inv, DeleteMessages PROVE Inv'
<1> USE DEF refVars, liveVars
<1>1. PICK S \in Scopes :
        LET A == {a \in Atts : MsgOf[a] \in S} IN
        /\ DecBlobRefs(A, S)
        /\ messages' = messages \ S
        /\ attachments' = attachments \ A
        /\ rawBlob' = [m \in Msgs |-> IF m \in S THEN Null ELSE rawBlob[m]]
        /\ attBlob' = [a \in Atts |-> IF a \in A THEN Null ELSE attBlob[a]]
        /\ localPath' = localPath \ A
        /\ UNCHANGED <<rows, files, worker, sweeper, due, faults, leaked, lost>>
  BY DEF DeleteMessages
<1>2. PICK A :
        /\ DecBlobRefs(A, S)
        /\ messages' = messages \ S
        /\ attachments' = attachments \ A
        /\ rawBlob' = [m \in Msgs |-> IF m \in S THEN Null ELSE rawBlob[m]]
        /\ attBlob' = [a \in Atts |-> IF a \in A THEN Null ELSE attBlob[a]]
        /\ localPath' = localPath \ A
        /\ UNCHANGED <<rows, files, worker, sweeper, due, faults, leaked, lost>>
  BY <1>1
<1> DEFINE AttCut(b) == Cardinality(AttRefs(b) \cap A)
           RawCut(b) == Cardinality(RawRefs(b) \cap S)
<1>3. /\ attBlob \in [Atts -> Blobs \cup {Null}] /\ rawBlob \in [Msgs -> Blobs \cup {Null}]
      /\ leaked \in [Blobs -> Nat] /\ refcount \in [Blobs -> Nat]
  BY DEF Inv, TypeOK
<1>4. ASSUME NEW b \in Blobs
      PROVE  /\ Cardinality(AttRefs(b)') = Cardinality(AttRefs(b)) - AttCut(b)
             /\ Cardinality(RawRefs(b)') = Cardinality(RawRefs(b)) - RawCut(b)
             /\ AttCut(b) \in Nat /\ RawCut(b) \in Nat
  <2>1. b # Null BY ConstantsAssumption
  <2>2. AttRefs(b)' = AttRefs(b) \ A BY <1>2, <1>3, <2>1 DEF AttRefs
  <2>3. RawRefs(b)' = RawRefs(b) \ S BY <1>2, <1>3, <2>1 DEF RawRefs
  <2>4. AttRefs(b) \in SUBSET Atts /\ RawRefs(b) \in SUBSET Msgs BY DEF AttRefs, RawRefs
  <2>5. QED BY <2>2, <2>3, <2>4, SplitCard, FinitenessAssumption
<1>5. /\ refcount' = [b \in Blobs |-> refcount'[b]]
      /\ \A b \in Blobs : refcount'[b] = refcount[b] - AttCut(b) - RawCut(b)
  BY <1>2 DEF DecBlobRefs
<1> HIDE DEF AttCut, RawCut
<1>6. \A b \in Blobs : Holders(b)' = Holders(b) /\ DueRefs(b)' = DueRefs(b)
  BY <1>2 DEF Holders, DueRefs
<1>7. ASSUME NEW b \in Blobs
      PROVE  refcount'[b] \in Nat /\ refcount'[b] <= refcount[b] /\ Excess(b)' = Excess(b)
  <2>1. refcount[b] = Cardinality(AttRefs(b)) + Cardinality(RawRefs(b))
            + Cardinality(Holders(b)) + Cardinality(DueRefs(b)) + leaked[b]
    BY DEF Inv, RefcountExact
  <2>2. leaked[b] \in Nat /\ refcount[b] \in Nat /\ leaked' = leaked BY <1>2, <1>3
  <2>3. refcount'[b] = Cardinality(AttRefs(b)') + Cardinality(RawRefs(b)')
            + Cardinality(Holders(b)) + Cardinality(DueRefs(b)) + leaked[b]
    BY <1>4, <1>5, <2>1, <2>2, RefsAreFinite
  <2>4. refcount'[b] \in Nat /\ refcount'[b] <= refcount[b]
    BY <1>4, <1>5, <2>2, <2>3, RefsAreFinite
  <2>5. Excess(b) = 0 BY <2>1, <2>2, RefsAreFinite DEF Excess
  <2>6. Excess(b)' = 0 BY <2>2, <2>3, <2>4, <1>6, RefsAreFinite DEF Excess
  <2>7. QED BY <2>4, <2>5, <2>6
<1>8. refcount' \in [Blobs -> Nat] BY <1>5, <1>7
<1>9. TypeOK'
  <2>1. attBlob' \in [Atts -> Blobs \cup {Null}] BY <1>2, <1>3
  <2>2. rawBlob' \in [Msgs -> Blobs \cup {Null}] BY <1>2, <1>3
  <2>3. QED BY <1>2, <1>8, <2>1, <2>2 DEF Inv, TypeOK
<1>10. WellFormed' BY <1>2 DEF Inv, WellFormed
<1>11. RefcountExact'
  <2>1. \A b \in Blobs : leaked'[b] \in Nat BY <1>2, <1>3
  <2>2. QED BY <1>2, <1>7, <2>1, ExactInStep
<1>12. QED BY <1>9, <1>10, <1>11 DEF Inv

\* The swept links pass, all at once, from the messages to the sweep.
LEMMA ExpireInv ==
  ASSUME Inv, SweepExpiredRaw PROVE Inv'
<1> USE DEF refVars, liveVars
<1>1. PICK S : /\ rawBlob' = [m \in Msgs |-> IF m \in S THEN Null ELSE rawBlob[m]]
               /\ due' = [m \in Msgs |-> IF m \in S THEN rawBlob[m] ELSE Null]
  BY DEF SweepExpiredRaw
<1>2. /\ sweeper["raw"].pc = "idle"
      /\ sweeper' = [sweeper EXCEPT !["raw"] = [sweeper["raw"] EXCEPT !.pc = "list"]]
      /\ UNCHANGED <<rows, refcount, attBlob, localPath, messages, attachments, files,
                     worker, faults, leaked, lost>>
  BY DEF SweepExpiredRaw, SetSweeper
<1>3. /\ rawBlob \in [Msgs -> Blobs \cup {Null}]
      /\ leaked \in [Blobs -> Nat] /\ refcount \in [Blobs -> Nat]
  BY DEF Inv, TypeOK
<1>4. sweeper' \in [Sweepers -> Sweeps] /\ sweeper'["raw"].pc = "list"
  <2>1. [sweeper["raw"] EXCEPT !.pc = "list"] \in Sweeps
    BY DEF Inv, TypeOK, Sweeps, Sweepers
  <2>2. [sweeper["raw"] EXCEPT !.pc = "list"].pc = "list"
    BY DEF Inv, TypeOK, Sweeps, Sweepers
  <2>3. QED BY <2>1, <2>2, <1>2 DEF Inv, TypeOK, Sweepers
<1>5. TypeOK'
  <2>1. rawBlob' \in [Msgs -> Blobs \cup {Null}] BY <1>1, <1>3
  <2>2. due' \in [Msgs -> Blobs \cup {Null}] BY <1>1, <1>3
  <2>3. QED BY <1>2, <1>4, <2>1, <2>2 DEF Inv, TypeOK
<1>6. WellFormed' BY <1>2, <1>4 DEF Inv, WellFormed
<1>7. ASSUME NEW b \in Blobs PROVE Excess(b)' = Excess(b)
  <2>1. b # Null BY ConstantsAssumption
  <2>2. RawRefs(b)' = RawRefs(b) \ S BY <1>1, <1>3, <2>1 DEF RawRefs
  <2>3. DueRefs(b)' = RawRefs(b) \cap S BY <1>1, <1>3, <2>1 DEF RawRefs, DueRefs
  <2>4. DueRefs(b) = {} BY <1>2, <2>1 DEF Inv, WellFormed, DueRefs
  <2>5. RawRefs(b) \in SUBSET Msgs BY DEF RawRefs
  <2>6. /\ Cardinality(RawRefs(b)') = Cardinality(RawRefs(b)) - Cardinality(RawRefs(b) \cap S)
        /\ Cardinality(RawRefs(b) \cap S) \in Nat
    BY <2>2, <2>5, SplitCard, FinitenessAssumption
  <2>7. Cardinality(DueRefs(b)') = Cardinality(RawRefs(b) \cap S)
        /\ Cardinality(DueRefs(b)) = 0
    BY <2>3, <2>4, FS_EmptySet
  <2>8. AttRefs(b)' = AttRefs(b) /\ Holders(b)' = Holders(b)
    BY <1>2 DEF AttRefs, Holders
  <2>9. leaked[b] \in Nat /\ leaked' = leaked /\ refcount[b] \in Nat /\ refcount' = refcount
    BY <1>2, <1>3
  <2>10. QED BY <2>6, <2>7, <2>8, <2>9, RefsAreFinite DEF Excess
<1>8. \A b \in Blobs : /\ refcount'[b] \in Nat /\ refcount'[b] <= refcount[b]
                       /\ leaked'[b] \in Nat
  BY <1>2, <1>3
<1>9. RefcountExact' BY <1>2, <1>7, <1>8, ExactInStep
<1>10. QED BY <1>5, <1>6, <1>9 DEF Inv

\* One of the swept links is given back, or leaked.
LEMMA DecDueInv ==
  ASSUME Inv, NEW m \in Msgs, DecDue(m) PROVE Inv'
<1> USE DEF DecDue, refVars, liveVars
<1> DEFINE c == due[m]
<1>1. /\ due \in [Msgs -> Blobs \cup {Null}]
      /\ leaked \in [Blobs -> Nat] /\ refcount \in [Blobs -> Nat]
  BY DEF Inv, TypeOK
<1>2. c \in Blobs BY <1>1
<1>3. refcount[c] \in Nat \ {0}
  <2>1. m \in DueRefs(c) BY DEF DueRefs
  <2>2. QED BY <2>1, <1>2, HeldIsCounted
<1>4. ASSUME NEW b \in Blobs
      PROVE  Cardinality(DueRefs(b)') = Cardinality(DueRefs(b)) - (IF c = b THEN 1 ELSE 0)
  <2>1. Assigned(due, due', m, Null) BY DEF Assigned
  <2>2. Cardinality(DueRefs(b)') = Cardinality(DueRefs(b))
           + (IF Null = b THEN 1 ELSE 0) - (IF c = b THEN 1 ELSE 0)
    BY <2>1, DueRefsChange DEF Inv
  <2>3. QED BY <2>2, ConstantsAssumption, RefsAreFinite
<1>5. \A b \in Blobs : /\ AttRefs(b)' = AttRefs(b) /\ RawRefs(b)' = RawRefs(b)
                       /\ Holders(b)' = Holders(b)
  BY DEF AttRefs, RawRefs, Holders
<1>6. \/ refcount' = [refcount EXCEPT ![c] = @ - 1] /\ UNCHANGED <<faults, leaked>>
      \/ leaked' = [leaked EXCEPT ![c] = @ + 1] /\ UNCHANGED refcount
  BY DEF Decrement, Leak
<1>7. ASSUME NEW b \in Blobs
      PROVE  /\ refcount'[b] \in Nat /\ refcount'[b] <= refcount[b]
             /\ leaked'[b] \in Nat
             /\ leaked'[b] - refcount'[b]
                  = leaked[b] - refcount[b] + (IF c = b THEN 1 ELSE 0)
  BY <1>1, <1>2, <1>3, <1>6
<1>8. TypeOK'
  <2>1. refcount' \in [Blobs -> Nat] /\ leaked' \in [Blobs -> Nat] BY <1>1, <1>6, <1>7
  <2>2. faults' \in Nat BY DEF Fault, Inv, TypeOK
  <2>3. due' \in [Msgs -> Blobs \cup {Null}] BY <1>1
  <2>4. QED BY <2>1, <2>2, <2>3 DEF Inv, TypeOK
<1>9. WellFormed' BY <1>1 DEF Inv, WellFormed
<1>10. ASSUME NEW b \in Blobs PROVE Excess(b)' = Excess(b)
  <2>1. leaked[b] \in Nat /\ refcount[b] \in Nat BY <1>1
  <2>2. QED BY <1>4, <1>5, <1>7, <2>1, RefsAreFinite DEF Excess
<1>11. RefcountExact' BY <1>7, <1>10, ExactInStep
<1>12. QED BY <1>8, <1>9, <1>11 DEF Inv

\* Visiting what is left of a list of candidates.
LEMMA VisitType ==
  ASSUME NEW s \in Sweepers, NEW cand \in SUBSET Blobs, NEW stale \in SUBSET Blobs
  PROVE  Visit(s, cand, stale) \in Sweeps /\ Visit(s, cand, stale).pc # "list"
BY DEF Visit, Sweep, Sweeps

\* Collecting changes no count, and deletes the row of an uncounted blob only.
LEMMA CollectInv ==
  ASSUME Inv, NEW s \in Sweepers, Collect(s) PROVE Inv'
<1> USE DEF refVars, liveVars
<1>1. sweeper \in [Sweepers -> Sweeps] /\ rows \subseteq Blobs BY DEF Inv, TypeOK
<1>2. sweeper[s].cand \in SUBSET Blobs /\ sweeper[s].stale \in SUBSET Blobs
  BY <1>1 DEF Sweeps
<1>3. ASSUME ListZeroRefBlobs(s)
      PROVE  Inv'
  <2> USE <1>3 DEF ListZeroRefBlobs, SetSweeper
  <2>1. Visit(s, ZeroRefBlobs, {}) \in Sweeps /\ Visit(s, ZeroRefBlobs, {}).pc # "list"
    BY <1>1, VisitType DEF ZeroRefBlobs
  <2>2. TypeOK' BY <2>1 DEF Inv, TypeOK
  <2>3. WellFormed' BY <1>1, <2>1 DEF Inv, WellFormed, Sweepers
  <2>4. RefcountExact' BY ExactKept DEF Inv, Holders
  <2>5. QED BY <2>2, <2>3, <2>4 DEF Inv
<1>4. ASSUME UnlinkBlob(s)
      PROVE  Inv'
  <2> USE <1>4 DEF UnlinkBlob, SetSweeper
  <2>1. PICK b \in sweeper[s].cand :
          \/ /\ LoseFile(b)
             /\ sweeper' = [sweeper EXCEPT ![s] =
                              [sweeper[s] EXCEPT !.pc = "delete", !.blob = b]]
             /\ UNCHANGED faults
          \/ /\ Fault
             /\ sweeper' = [sweeper EXCEPT ![s] =
                              Visit(s, sweeper[s].cand \ {b}, sweeper[s].stale)]
             /\ UNCHANGED <<files, lost>>
    OBVIOUS
  <2>2. PICK sw \in Sweeps : sw.pc # "list" /\ sweeper' = [sweeper EXCEPT ![s] = sw]
    <3>1. /\ [sweeper[s] EXCEPT !.pc = "delete", !.blob = b] \in Sweeps
          /\ [sweeper[s] EXCEPT !.pc = "delete", !.blob = b].pc # "list"
      BY <1>1, <1>2 DEF Sweeps
    <3>2. /\ Visit(s, sweeper[s].cand \ {b}, sweeper[s].stale) \in Sweeps
          /\ Visit(s, sweeper[s].cand \ {b}, sweeper[s].stale).pc # "list"
      BY <1>2, VisitType
    <3>3. QED BY <2>1, <3>1, <3>2
  <2>3. faults' \in Nat /\ files' \subseteq Blobs /\ lost' \subseteq Blobs
    BY <1>2, <2>1 DEF Inv, TypeOK, Fault, LoseFile
  <2>4. TypeOK' BY <2>2, <2>3 DEF Inv, TypeOK
  <2>5. WellFormed'
    BY <1>1, <2>2 DEF Inv, WellFormed, Sweepers
  <2>6. RefcountExact' BY ExactKept DEF Inv, Holders
  <2>7. QED BY <2>4, <2>5, <2>6 DEF Inv
<1>5. ASSUME DeleteBlobIfZero(s)
      PROVE  Inv'
  <2> DEFINE sw == sweeper[s]
             next == Visit(s, sw.cand \ {sw.blob}, sw.stale)
  <2>1. next \in Sweeps /\ next.pc # "list" BY <1>2, VisitType
  <2>2. /\ sw.pc = "delete"
        /\ UNCHANGED <<refcount, rawBlob, attBlob, localPath, messages, attachments,
                       files, worker, due, leaked, lost>>
    BY <1>5 DEF DeleteBlobIfZero
  <2> DEFINE Marked(t, b) == [sweeper[t] EXCEPT !.stale = @ \cup ({b} \cap sweeper[t].cand)]
  <2>3. \/ \E b \in Deletable(sw) :
              /\ rows' = rows \ {b}
              /\ sweeper' = [t \in Sweepers |-> IF t = s THEN next ELSE Marked(t, b)]
              /\ UNCHANGED faults
        \/ /\ sweeper' = [sweeper EXCEPT ![s] = next]
           /\ UNCHANGED rows /\ (UNCHANGED faults \/ Fault)
    BY <1>5, Zenon DEF DeleteBlobIfZero, SetSweeper
  <2> HIDE DEF next
  <2>4. /\ sweeper' \in [Sweepers -> Sweeps]
        /\ sweeper'[s].pc # "list"
        /\ \A t \in Sweepers \ {s} : sweeper'[t].pc = sweeper[t].pc
    <3>1. ASSUME NEW b, NEW t \in Sweepers
          PROVE  Marked(t, b) \in Sweeps /\ Marked(t, b).pc = sweeper[t].pc
      BY <1>1 DEF Sweeps
    <3> HIDE DEF Marked
    <3>2. ASSUME NEW b,
                 sweeper' = [t \in Sweepers |-> IF t = s THEN next ELSE Marked(t, b)]
          PROVE  /\ sweeper' \in [Sweepers -> Sweeps]
                 /\ sweeper'[s].pc # "list"
                 /\ \A t \in Sweepers \ {s} : sweeper'[t].pc = sweeper[t].pc
      BY <3>1, <3>2, <2>1
    <3>3. CASE sweeper' = [sweeper EXCEPT ![s] = next]
      BY <3>3, <1>1, <2>1
    <3>4. QED BY <2>3, <3>2, <3>3
  <2>5. rows' \subseteq rows /\ \A b \in rows \ rows' : refcount[b] = 0
    BY <2>3 DEF Deletable, ZeroRefBlobs
  <2>6. TypeOK'
    <3>1. faults' \in Nat BY <2>3 DEF Inv, TypeOK, Fault
    <3>2. QED BY <3>1, <2>2, <2>4, <2>5 DEF Inv, TypeOK
  <2>7. WellFormed'
    <3>1. sweeper'["raw"].pc # "list" => sweeper["raw"].pc # "list"
      BY <2>2, <2>4 DEF Sweepers
    <3>2. QED BY <3>1, <2>2 DEF Inv, WellFormed
  <2>8. RefcountExact'
    <3>1. \A b \in Blobs : /\ AttRefs(b)' = AttRefs(b) /\ RawRefs(b)' = RawRefs(b)
                           /\ Holders(b)' = Holders(b) /\ DueRefs(b)' = DueRefs(b)
      BY <2>2 DEF AttRefs, RawRefs, Holders, DueRefs
    <3>2. QED BY <3>1, <2>2, <2>5 DEF Inv, RefcountExact
  <2>9. QED BY <2>6, <2>7, <2>8 DEF Inv
<1>6. QED BY <1>3, <1>4, <1>5 DEF Collect

\* The references of a process that stops are all leaked.
LEMMA CrashInv ==
  ASSUME Inv, Crash PROVE Inv'
<1> USE DEF Crash, Fault, refVars, liveVars
<1>1. leaked \in [Blobs -> Nat] /\ refcount \in [Blobs -> Nat] BY DEF Inv, TypeOK
<1>2. /\ leaked' = [b \in Blobs |-> leaked'[b]]
      /\ \A b \in Blobs : leaked'[b] = leaked[b] + Cardinality(Holders(b))
                                                  + Cardinality(DueRefs(b))
  OBVIOUS
<1>3. \A b \in Blobs : leaked'[b] \in Nat BY <1>1, <1>2, RefsAreFinite
<1>4. TypeOK'
  <2>1. leaked' \in [Blobs -> Nat] BY <1>2, <1>3
  <2>2. worker' \in [Workers -> Operations] BY DEF Idle, Op, Operations
  <2>3. sweeper' \in [Sweepers -> Sweeps] BY DEF Sweep, Sweeps
  <2>4. due' \in [Msgs -> Blobs \cup {Null}] OBVIOUS
  <2>5. faults' \in Nat BY DEF Inv, TypeOK
  <2>6. QED BY <2>1, <2>2, <2>3, <2>4, <2>5 DEF Inv, TypeOK
<1>5. WellFormed' BY DEF WellFormed, Idle, Op, AttJobs, MsgJobs
<1>6. ASSUME NEW b \in Blobs PROVE Excess(b)' = Excess(b)
  <2>1. Holders(b)' = {} /\ DueRefs(b)' = {}
    BY ConstantsAssumption DEF Holders, Holds, Idle, Op, DueRefs
  <2>2. Cardinality(Holders(b)') = 0 /\ Cardinality(DueRefs(b)') = 0
    BY <2>1, FS_EmptySet
  <2>3. AttRefs(b)' = AttRefs(b) /\ RawRefs(b)' = RawRefs(b) BY DEF AttRefs, RawRefs
  <2>4. leaked[b] \in Nat /\ refcount[b] \in Nat /\ refcount' = refcount BY <1>1
  <2>5. leaked'[b] = leaked[b] + Cardinality(Holders(b)) + Cardinality(DueRefs(b))
    BY <1>2
  <2>6. QED BY <2>2, <2>3, <2>4, <2>5, RefsAreFinite DEF Excess
<1>7. RefcountExact'
  <2>1. \A b \in Blobs : refcount'[b] \in Nat /\ refcount'[b] <= refcount[b] BY <1>1
  <2>2. QED BY <1>3, <1>6, <2>1, ExactInStep
<1>8. QED BY <1>4, <1>5, <1>7 DEF Inv

LEMMA LoseInv ==
  ASSUME Inv, LoseFileOnDisk PROVE Inv'
<1> USE DEF LoseFileOnDisk, Fault, refVars, liveVars
<1>1. TypeOK' BY DEF Inv, TypeOK, LoseFile
<1>2. WellFormed' BY DEF Inv, WellFormed
<1>3. RefcountExact' BY ExactKept DEF Inv, Holders
<1>4. QED BY <1>1, <1>2, <1>3 DEF Inv

LEMMA StepInv == Inv /\ [Next]_vars => Inv'
<1> SUFFICES ASSUME Inv, [Next]_vars PROVE Inv' OBVIOUS
<1>1. ASSUME NEW w \in Workers, Operation(w) PROVE Inv'
  BY <1>1, StartsInv, WriteInv, InsertInv, UpdateInv, SetRawInv, ClearAttInv,
     ClearRawInv, DecInv, FailInv DEF Operation
<1>2. CASE UNCHANGED vars
  <2>1. TypeOK' BY <1>2 DEF vars, refVars, liveVars, Inv, TypeOK
  <2>2. WellFormed' BY <1>2 DEF vars, refVars, liveVars, Inv, WellFormed
  <2>3. RefcountExact'
    BY <1>2, ExactKept DEF vars, refVars, liveVars, Inv, Holders
  <2>4. QED BY <2>1, <2>2, <2>3 DEF Inv
<1>3. QED
  BY <1>1, <1>2, ArriveInv, DeleteInv, ExpireInv, DecDueInv, CollectInv, CrashInv,
     LoseInv DEF Next

LEMMA Invariance == Spec => []Inv
BY InitInv, StepInv, PTL DEF Spec

\* At all times the refcount of every blob is the number of its holders and of
\* the units known to be leaked, whatever the interleaving of downloads, captures,
\* deletions, sweeps, failures and crashes; so no count is ever negative.
THEOREM Accounting == Spec => [](TypeOK /\ RefcountExact)
<1>1. Inv => TypeOK /\ RefcountExact BY DEF Inv
<1>2. QED BY <1>1, Invariance, PTL

\* Every variable keeps its type. It is no routine fact here: a count stays a
\* natural number only because whoever gives a unit back is one of its holders.
THEOREM TypeCorrectness == Spec => []TypeOK
<1>1. Inv => TypeOK BY DEF Inv
<1>2. QED BY <1>1, Invariance, PTL

-----------------------------------------------------------------------------
(* No operation takes a reference without having seen the file in place.   *)

\* Steps after which nobody relies on a file who did not before.
LEMMA ReliesNoMore ==
  ASSUME FileLostOnlyUnderUse, UNCHANGED <<files, lost>>,
         \A b \in Blobs : ReliesOnFile(b)' => ReliesOnFile(b)
  PROVE  FileLostOnlyUnderUse'
BY DEF FileLostOnlyUnderUse

\* The counts do not rise and no operation is about to insert that was not.
LEMMA NobodyInserts ==
  ASSUME Inv, Inv', NEW w \in Workers, NEW op, Become(w, op), op.pc # "insert",
         UNCHANGED refcount, NEW b, ReliesOnFile(b)'
  PROVE  ReliesOnFile(b)
BY DEF ReliesOnFile, Become, Inv, TypeOK

\* A file may go: it is marked as lost if somebody relies on it.
LEMMA LosingIsNoted ==
  ASSUME FileLostOnlyUnderUse, NEW c, LoseFile(c), UNCHANGED <<refcount, worker>>
  PROVE  FileLostOnlyUnderUse'
<1>1. \A b \in Blobs : ReliesOnFile(b)' = ReliesOnFile(b) BY DEF ReliesOnFile
<1>2. QED BY <1>1 DEF FileLostOnlyUnderUse, LoseFile

LEMMA OperationRelies ==
  ASSUME Inv, Inv', FileLostOnlyUnderUse, NEW w \in Workers, Operation(w)
  PROVE  FileLostOnlyUnderUse'
<1> USE DEF refVars, liveVars
<1>0. worker \in [Workers -> Operations] /\ refcount \in [Blobs -> Nat]
  BY DEF Inv, TypeOK
<1>1. ASSUME NEW op, Start(w, op), op.pc # "insert" PROVE FileLostOnlyUnderUse'
  BY <1>1, NobodyInserts, ReliesNoMore DEF Start
<1>2. CASE \/ StartDownload(w) \/ StartBackfill(w) \/ StartCapture(w)
           \/ StartOpen(w) \/ StartView(w)
  BY <1>1, <1>2 DEF StartDownload, StartBackfill, StartCapture, StartOpen, StartView, Op
<1>3. CASE WriteContentAddressed(w)
  <2> DEFINE c == worker[w].blob
  <2>1. ASSUME NEW b \in Blobs, ReliesOnFile(b)' PROVE ReliesOnFile(b) \/ b = c
    BY <2>1, <1>0, <1>3 DEF WriteContentAddressed, Become, ReliesOnFile, Operations
  <2>2. QED BY <2>1, <1>3 DEF WriteContentAddressed, FileLostOnlyUnderUse
<1>4. CASE InsertOrIncBlob(w)
  <2>1. ASSUME NEW b \in Blobs, ReliesOnFile(b)' PROVE ReliesOnFile(b)
    BY <2>1, <1>0, <1>4 DEF InsertOrIncBlob, Become, ReliesOnFile, Operations
  <2>2. QED BY <2>1, <1>4, ReliesNoMore DEF InsertOrIncBlob
<1>5. CASE DecBlobRef(w)
  <2>1. ASSUME NEW b \in Blobs, ReliesOnFile(b)' PROVE ReliesOnFile(b)
    BY <2>1, <1>0, <1>5 DEF DecBlobRef, Decrement, Become, ReliesOnFile, Idle, Op,
                            Inv, TypeOK
  <2>2. QED BY <2>1, <1>5, ReliesNoMore DEF DecBlobRef
<1>6. CASE \/ UpdateAttachmentDownloaded(w) \/ SetMessageRawBlob(w)
           \/ ClearAttachmentBlob(w) \/ ClearMessageRawBlob(w) \/ Fail(w)
  <2>1. /\ UNCHANGED <<refcount, files, lost>>
        /\ \A v \in Workers \ {w} : worker'[v] = worker[v]
        /\ worker'[w].pc # "insert"
    <3>1. \A d : /\ [worker[w] EXCEPT !.pc = "release"].pc = "release"
                 /\ [worker[w] EXCEPT !.pc = "release", !.blob = d].pc = "release"
                 /\ Idle.pc = "idle"
      BY <1>0 DEF Operations, Idle, Op
    <3>2. \E op : Become(w, op) /\ op.pc # "insert"
      BY <1>6, <3>1 DEF UpdateAttachmentDownloaded, SetMessageRawBlob,
                   ClearAttachmentBlob, ClearMessageRawBlob, Fail
    <3>3. UNCHANGED <<refcount, files, lost>>
      BY <1>6 DEF UpdateAttachmentDownloaded, SetMessageRawBlob,
                   ClearAttachmentBlob, ClearMessageRawBlob, Fail
    <3>4. QED BY <1>0, <3>2, <3>3 DEF Become
  <2>2. \A b \in Blobs : ReliesOnFile(b)' => ReliesOnFile(b)
    BY <2>1 DEF ReliesOnFile
  <2>3. QED BY <2>1, <2>2, ReliesNoMore
<1>7. QED BY <1>2, <1>3, <1>4, <1>5, <1>6 DEF Operation

LEMMA StepRelies ==
  ASSUME Inv, Inv', FileLostOnlyUnderUse, [Next]_vars
  PROVE  FileLostOnlyUnderUse'
<1> USE DEF refVars, liveVars
<1>0. refcount \in [Blobs -> Nat] /\ refcount' \in [Blobs -> Nat] BY DEF Inv, TypeOK
<1>1. ASSUME UNCHANGED <<files, lost, worker>>,
             \A b \in Blobs : refcount'[b] <= refcount[b]
      PROVE  FileLostOnlyUnderUse'
  <2>1. \A b \in Blobs : ReliesOnFile(b)' => ReliesOnFile(b)
    BY <1>0, <1>1 DEF ReliesOnFile
  <2>2. QED BY <1>1, <2>1, ReliesNoMore
<1>2. ASSUME NEW w \in Workers, Operation(w) PROVE FileLostOnlyUnderUse'
  BY <1>2, OperationRelies
<1>3. CASE InsertParsedMessageBundle BY <1>0, <1>1, <1>3 DEF InsertParsedMessageBundle
<1>4. CASE DeleteMessages
  <2>1. \A b \in Blobs : refcount'[b] <= refcount[b]
    <3>1. PICK S \in Scopes, A \in SUBSET Atts : DecBlobRefs(A, S)
      BY <1>4 DEF DeleteMessages
    <3>2. ASSUME NEW b \in Blobs PROVE refcount'[b] <= refcount[b]
      <4>1. AttRefs(b) \in SUBSET Atts /\ RawRefs(b) \in SUBSET Msgs
        BY DEF AttRefs, RawRefs
      <4>2. /\ Cardinality(AttRefs(b) \cap A) \in Nat
            /\ Cardinality(RawRefs(b) \cap S) \in Nat
        BY <4>1, SplitCard, FinitenessAssumption
      <4>3. QED BY <4>2, <3>1, <1>0 DEF DecBlobRefs
    <3>3. QED BY <3>2
  <2>2. UNCHANGED <<files, lost, worker>> BY <1>4 DEF DeleteMessages
  <2>3. QED BY <2>1, <2>2, <1>1
<1>5. CASE SweepExpiredRaw BY <1>0, <1>1, <1>5 DEF SweepExpiredRaw
<1>6. ASSUME NEW m \in Msgs, DecDue(m) PROVE FileLostOnlyUnderUse'
  <2>1. \A b \in Blobs : refcount'[b] <= refcount[b]
    BY <1>0, <1>6 DEF DecDue, Decrement
  <2>2. QED BY <1>1, <1>6, <2>1 DEF DecDue
<1>7. ASSUME NEW s \in Sweepers, Collect(s) PROVE FileLostOnlyUnderUse'
  <2>1. CASE ListZeroRefBlobs(s) BY <1>0, <1>1, <2>1 DEF ListZeroRefBlobs
  <2>2. CASE DeleteBlobIfZero(s) BY <1>0, <1>1, <2>2 DEF DeleteBlobIfZero
  <2>3. CASE UnlinkBlob(s)
    <3>1. UNCHANGED <<refcount, worker>> /\ ((\E b : LoseFile(b)) \/ UNCHANGED <<files, lost>>)
      BY <2>3 DEF UnlinkBlob
    <3>2. QED BY <3>1, <1>0, <1>1, LosingIsNoted
  <2>4. QED BY <1>7, <2>1, <2>2, <2>3 DEF Collect
<1>8. CASE Crash
  <2>1. \A b \in Blobs : ReliesOnFile(b)' => ReliesOnFile(b)
    BY <1>8 DEF Crash, ReliesOnFile, Idle, Op
  <2>2. QED BY <2>1, <1>8, ReliesNoMore DEF Crash
<1>9. CASE LoseFileOnDisk BY <1>9, LosingIsNoted DEF LoseFileOnDisk
<1>10. CASE UNCHANGED vars BY <1>0, <1>1, <1>10 DEF vars
<1>11. QED BY <1>2, <1>3, <1>4, <1>5, <1>6, <1>7, <1>8, <1>9, <1>10 DEF Next

\* A file that is missing while somebody relies on it was removed under them, by
\* the garbage collector or from outside: no operation counts a reference to
\* a blob without having seen the blob's file in place.
THEOREM ReferencesFindTheirFile == Spec => []FileLostOnlyUnderUse
<1>1. Init => FileLostOnlyUnderUse
  BY DEF Init, FileLostOnlyUnderUse, ReliesOnFile, Idle, Op
<1>2. Inv /\ Inv' /\ FileLostOnlyUnderUse /\ [Next]_vars => FileLostOnlyUnderUse'
  BY StepRelies
<1>3. QED BY <1>1, <1>2, Invariance, PTL DEF Spec

-----------------------------------------------------------------------------
(* The store implements ContentStore.                                      *)

LEMMA InUseMeans ==
  /\ \A b : b \in InUse <=> /\ b \in Blobs
                            /\ \/ \E a \in Atts : attBlob[a] = b
                               \/ \E m \in Msgs : rawBlob[m] = b \/ due[m] = b
                               \/ \E w \in Workers : Holds(worker[w], b)
  /\ \A b : b \in InUse' <=> /\ b \in Blobs
                             /\ \/ \E a \in Atts : attBlob'[a] = b
                                \/ \E m \in Msgs : rawBlob'[m] = b \/ due'[m] = b
                                \/ \E w \in Workers : Holds(worker'[w], b)
BY DEF InUse, AttRefs, RawRefs, DueRefs, Holders, Holds

\* A blob with no count is not in use.
LEMMA ZeroIsUnused ==
  ASSUME Inv, NEW b \in Blobs, refcount[b] = 0 PROVE b \notin InUse
BY HeldIsCounted DEF InUse

\* Steps by which a content ceases to be in use, or passes to another holder.
LEMMA Releases ==
  ASSUME UNCHANGED rows, \A b \in InUse' : b \in InUse
  PROVE  Abstract!Next
BY DEF Abstract!Next, Abstract!Release

LEMMA OperationRefines ==
  ASSUME Inv, NEW w \in Workers, Operation(w) PROVE Abstract!Next
<1> USE DEF refVars, liveVars
<1>0. /\ worker \in [Workers -> Operations]
      /\ attBlob \in [Atts -> Blobs \cup {Null}] /\ rawBlob \in [Msgs -> Blobs \cup {Null}]
  BY DEF Inv, TypeOK
<1>1. ASSUME NEW op, Become(w, op), ~(op.pc \in {"link", "release"}),
             UNCHANGED <<rows, attBlob, rawBlob, due>>
      PROVE  Abstract!Next
  <2>1. \A b \in InUse' : b \in InUse
    BY <1>0, <1>1, InUseMeans DEF Become, Holds
  <2>2. QED BY <1>1, <2>1, Releases
<1>2. CASE \/ StartDownload(w) \/ StartBackfill(w) \/ StartCapture(w)
           \/ StartOpen(w) \/ StartView(w)
  <2>1. ASSUME NEW op, Start(w, op), ~(op.pc \in {"link", "release"})
        PROVE  Abstract!Next
    BY <2>1, <1>1 DEF Start
  <2>2. QED
    BY <1>2, <2>1
       DEF StartDownload, StartBackfill, StartCapture, StartOpen, StartView, Op
<1>3. CASE WriteContentAddressed(w)
  <2>1. [worker[w] EXCEPT !.pc = "insert"].pc = "insert" BY <1>0 DEF Operations
  <2>2. QED BY <1>1, <1>3, <2>1 DEF WriteContentAddressed
<1>4. CASE InsertOrIncBlob(w)
  <2> DEFINE c  == worker[w].blob
             op == [worker[w] EXCEPT !.pc = "link"]
  <2>1. /\ op.pc = "link" /\ op.blob = c /\ c \in Blobs /\ worker[w].pc = "insert"
        /\ worker' = [worker EXCEPT ![w] = op] /\ rows' = rows \cup {c}
        /\ UNCHANGED <<attBlob, rawBlob, due>>
    BY <1>0, <1>4 DEF InsertOrIncBlob, Become, Operations, Inv, WellFormed
  <2> HIDE DEF op
  <2>2. \A b \in Blobs : Holds(worker'[w], b) <=> b = c
    BY <1>0, <2>1 DEF Holds
  <2>3. \A b \in Blobs : ~Holds(worker[w], b) BY <2>1 DEF Holds
  <2>4. \A v \in Workers \ {w} : worker'[v] = worker[v] BY <1>0, <2>1
  <2>5. \A b : b \in InUse' <=> b \in InUse \/ b = c
    BY <2>1, <2>2, <2>3, <2>4, InUseMeans
  <2>6. InUse' = InUse \cup {c} BY <2>5
  <2>7. QED BY <2>1, <2>6 DEF Abstract!Next, Abstract!Retain
<1>5. CASE UpdateAttachmentDownloaded(w)
  <2>1. \A b \in InUse' : b \in InUse
    BY <1>0, <1>5, InUseMeans
       DEF UpdateAttachmentDownloaded, Become, Holds, Idle, Op
  <2>2. QED BY <1>5, <2>1, Releases DEF UpdateAttachmentDownloaded
<1>6. CASE SetMessageRawBlob(w)
  <2>1. \A d : [worker[w] EXCEPT !.pc = "release", !.blob = d].blob = d
    BY <1>0 DEF Operations
  <2>2. \E op : /\ Become(w, op)
               /\ \/ op = Idle
                  \/ op.blob = worker[w].blob
                  \/ op.blob = rawBlob[worker[w].row] /\ worker[w].row \in Msgs
    BY <1>6, <2>1 DEF SetMessageRawBlob, Inv, WellFormed, MsgJobs
  <2>3. \/ UNCHANGED rawBlob
        \/ rawBlob' = [rawBlob EXCEPT ![worker[w].row] = worker[w].blob]
    BY <1>6 DEF SetMessageRawBlob
  <2>4. UNCHANGED <<rows, attBlob, due>> /\ worker[w].pc = "link"
    BY <1>6 DEF SetMessageRawBlob
  <2>5. ASSUME NEW b \in Blobs
        PROVE  /\ \A v \in Workers : Holds(worker'[v], b)
                    => Holds(worker[v], b) \/ \E n \in Msgs : rawBlob[n] = b
               /\ \A n \in Msgs : rawBlob'[n] = b
                    => rawBlob[n] = b \/ Holds(worker[w], b)
    <3>1. PICK op : /\ Become(w, op)
                    /\ \/ op = Idle
                       \/ op.blob = worker[w].blob
                       \/ op.blob = rawBlob[worker[w].row] /\ worker[w].row \in Msgs
      BY <2>2
    <3>2. /\ worker'[w] = op
          /\ \A v \in Workers \ {w} : worker'[v] = worker[v]
      BY <1>0, <3>1 DEF Become
    <3>3. ASSUME Holds(op, b)
          PROVE  Holds(worker[w], b) \/ \E n \in Msgs : rawBlob[n] = b
      BY <2>4, <3>1, <3>3 DEF Holds, Idle, Op
    <3>4. ASSUME NEW n \in Msgs, rawBlob'[n] = b
          PROVE  rawBlob[n] = b \/ Holds(worker[w], b)
      BY <1>0, <2>3, <2>4, <3>4 DEF Holds
    <3>5. QED BY <3>2, <3>3, <3>4
  <2>6. \A b \in InUse' : b \in InUse BY <2>4, <2>5, InUseMeans
  <2>7. QED BY <2>4, <2>6, Releases
<1>7. CASE ClearAttachmentBlob(w)
  <2>1. \A d : [worker[w] EXCEPT !.pc = "release", !.blob = d].blob = d
    BY <1>0 DEF Operations
  <2>2. worker[w].row \in Atts BY <1>7 DEF ClearAttachmentBlob, Inv, WellFormed
  <2>3. \E op : Become(w, op) /\ (op = Idle \/ op.blob = attBlob[worker[w].row])
    BY <1>7, <2>1 DEF ClearAttachmentBlob
  <2>4. \/ UNCHANGED attBlob
        \/ attBlob' = [attBlob EXCEPT ![worker[w].row] = Null]
    BY <1>7 DEF ClearAttachmentBlob
  <2>5. UNCHANGED <<rows, rawBlob, due>> BY <1>7 DEF ClearAttachmentBlob
  <2>6. \A b \in InUse' : b \in InUse
    BY <1>0, <2>2, <2>3, <2>4, <2>5, InUseMeans, ConstantsAssumption
       DEF Become, Holds, Idle, Op
  <2>7. QED BY <2>5, <2>6, Releases
<1>8. CASE ClearMessageRawBlob(w)
  <2>1. \A d : [worker[w] EXCEPT !.pc = "release", !.blob = d].blob = d
    BY <1>0 DEF Operations
  <2>2. worker[w].row \in Msgs
    BY <1>8 DEF ClearMessageRawBlob, Inv, WellFormed, MsgJobs
  <2>3. \E op : Become(w, op) /\ (op = Idle \/ op.blob = rawBlob[worker[w].row])
    BY <1>8, <2>1 DEF ClearMessageRawBlob
  <2>4. \/ UNCHANGED rawBlob
        \/ rawBlob' = [rawBlob EXCEPT ![worker[w].row] = Null]
    BY <1>8 DEF ClearMessageRawBlob
  <2>5. UNCHANGED <<rows, attBlob, due>> BY <1>8 DEF ClearMessageRawBlob
  <2>6. \A b \in InUse' : b \in InUse
    BY <1>0, <2>2, <2>3, <2>4, <2>5, InUseMeans, ConstantsAssumption
       DEF Become, Holds, Idle, Op
  <2>7. QED BY <2>5, <2>6, Releases
<1>9. CASE DecBlobRef(w)
  BY <1>1, <1>9 DEF DecBlobRef, Idle, Op
<1>10. CASE Fail(w)
  <2> DEFINE op == [worker[w] EXCEPT !.pc = "release"]
  <2>1. op.blob = worker[w].blob BY <1>0 DEF Operations
  <2>2. \/ Become(w, Idle)
        \/ worker[w].pc = "link" /\ Become(w, op)
    BY <1>10 DEF Fail
  <2>3. UNCHANGED <<rows, attBlob, rawBlob, due>> BY <1>10 DEF Fail
  <2> HIDE DEF op
  <2>4. ASSUME NEW b, NEW v \in Workers, Holds(worker'[v], b)
        PROVE  Holds(worker[v], b)
    BY <1>0, <2>1, <2>2, <2>4 DEF Become, Holds, Idle, Op
  <2>5. \A b \in InUse' : b \in InUse BY <2>3, <2>4, InUseMeans
  <2>6. QED BY <2>3, <2>5, Releases
<1>11. QED
  BY <1>2, <1>3, <1>4, <1>5, <1>6, <1>7, <1>8, <1>9, <1>10 DEF Operation

LEMMA StepRefines ==
  ASSUME Inv, [Next]_vars PROVE [Abstract!Next]_(Abstract!vars)
<1> USE DEF refVars, liveVars
<1>0. /\ attBlob \in [Atts -> Blobs \cup {Null}] /\ rawBlob \in [Msgs -> Blobs \cup {Null}]
      /\ due \in [Msgs -> Blobs \cup {Null}] /\ rows \subseteq Blobs
  BY DEF Inv, TypeOK
<1>1. ASSUME UNCHANGED <<rows, attBlob, rawBlob, due, worker>> PROVE Abstract!Next
  BY <1>1, InUseMeans, Releases
<1>2. ASSUME NEW w \in Workers, Operation(w) PROVE Abstract!Next
  BY <1>2, OperationRefines
<1>3. CASE InsertParsedMessageBundle BY <1>1, <1>3 DEF InsertParsedMessageBundle
<1>4. CASE DeleteMessages
  <2>1. /\ \A a \in Atts : attBlob'[a] \in {attBlob[a], Null}
        /\ \A m \in Msgs : rawBlob'[m] \in {rawBlob[m], Null}
        /\ UNCHANGED <<rows, due, worker>>
    BY <1>4 DEF DeleteMessages
  <2>2. \A b \in InUse' : b \in InUse BY <2>1, InUseMeans, ConstantsAssumption
  <2>3. QED BY <2>1, <2>2, Releases
<1>5. CASE SweepExpiredRaw
  <2>1. /\ \A m \in Msgs : rawBlob'[m] \in {rawBlob[m], Null} /\ due'[m] \in {rawBlob[m], Null}
        /\ UNCHANGED <<rows, attBlob, worker>>
    BY <1>5 DEF SweepExpiredRaw
  <2>2. \A b \in InUse' : b \in InUse BY <2>1, InUseMeans, ConstantsAssumption
  <2>3. QED BY <2>1, <2>2, Releases
<1>6. ASSUME NEW m \in Msgs, DecDue(m) PROVE Abstract!Next
  <2>1. /\ \A n \in Msgs : due'[n] \in {due[n], Null}
        /\ UNCHANGED <<rows, attBlob, rawBlob, worker>>
    BY <1>0, <1>6 DEF DecDue
  <2>2. \A b \in InUse' : b \in InUse BY <2>1, InUseMeans, ConstantsAssumption
  <2>3. QED BY <2>1, <2>2, Releases
<1>7. ASSUME NEW s \in Sweepers, Collect(s) PROVE Abstract!Next
  <2>1. CASE ListZeroRefBlobs(s) BY <1>1, <2>1 DEF ListZeroRefBlobs
  <2>2. CASE UnlinkBlob(s) BY <1>1, <2>2 DEF UnlinkBlob
  <2>3. CASE DeleteBlobIfZero(s)
    <3>1. \/ \E b \in Deletable(sweeper[s]) : rows' = rows \ {b}
          \/ UNCHANGED rows
      BY <2>3 DEF DeleteBlobIfZero
    <3>2. UNCHANGED <<attBlob, rawBlob, due, worker>> BY <2>3 DEF DeleteBlobIfZero
    <3>3. InUse' = InUse BY <3>2 DEF InUse, AttRefs, RawRefs, Holders, DueRefs
    <3>4. ASSUME NEW b \in Deletable(sweeper[s]), rows' = rows \ {b}
          PROVE  Abstract!Next
      <4>1. b \in rows /\ refcount[b] = 0 BY DEF Deletable, ZeroRefBlobs
      <4>2. b \in Blobs /\ b \notin InUse BY <4>1, <1>0, ZeroIsUnused
      <4>3. QED BY <3>3, <3>4, <4>1, <4>2 DEF Abstract!Next, Abstract!Reclaim
    <3>5. QED BY <3>1, <3>2, <3>4, <1>1
  <2>4. QED BY <1>7, <2>1, <2>2, <2>3 DEF Collect
<1>8. CASE Crash
  <2>1. /\ \A w \in Workers : worker'[w] = Idle
        /\ \A m \in Msgs : due'[m] = Null
        /\ UNCHANGED <<rows, attBlob, rawBlob>>
    BY <1>8 DEF Crash
  <2>2. \A b \in InUse' : b \in InUse
    BY <2>1, InUseMeans, ConstantsAssumption DEF Holds, Idle, Op
  <2>3. QED BY <2>1, <2>2, Releases
<1>9. CASE LoseFileOnDisk BY <1>1, <1>9 DEF LoseFileOnDisk
<1>10. CASE UNCHANGED vars BY <1>1, <1>10 DEF vars
<1>11. QED BY <1>2, <1>3, <1>4, <1>5, <1>6, <1>7, <1>8, <1>9, <1>10 DEF Next

\* The store keeps ContentStore's promise: no step reclaims the row of a content
\* that a row, or an operation under way, refers to, and every reference is taken
\* to a content that is stored.
THEOREM Refinement == Spec => RefinesContentStore
<1>1. Init => Abstract!Init
  <2>1. SUFFICES ASSUME Init PROVE Abstract!Init OBVIOUS
  <2>2. \A b : b \notin InUse
    BY <2>1, InUseMeans, ConstantsAssumption DEF Init, Holds, Idle, Op
  <2>3. InUse = {} BY <2>2
  <2>4. QED BY <2>1, <2>3 DEF Init, Abstract!Init
<1>2. Inv /\ [Next]_vars => [Abstract!Next]_(Abstract!vars) BY StepRefines
<1>3. QED BY <1>1, <1>2, Invariance, PTL DEF Spec, RefinesContentStore, Abstract!Spec
=============================================================================
