------------------------------ MODULE StoreProofs ------------------------------
(***************************************************************************)
(* Proofs about what the database holds: ThreadStore, for any set of       *)
(* mails, folders and accounts, whatever the headers refer to, and for any *)
(* bounds on faults and requests; and Migrations, for any number of        *)
(* processes, of tables in schema.sql and of failures.                     *)
(***************************************************************************)
EXTENDS ThreadStore, Migrations, FiniteLemmas, TLAPS

(***************************************************************************)
(* ThreadStore. That a thread has the messages of one account is not       *)
(* inductive: a lookup of a thread is used in a later step. Held says what *)
(* remains true of its result meanwhile: the writer alone adds to a        *)
(* thread, and the id of a thread that is gone is given again only by the  *)
(* writer itself.                                                          *)
(***************************************************************************)
Rows == [subject : {NormalizeSubject(Subject[m]) : m \in Mails}, stats : Counters]

OneOwner(t) == \A m, n \in Members(messages, t) : Owner(m) = Owner(n)

Meeting == \A t \in DOMAIN threads : t \in bridged \/ OneOwner(t)

\* What the lookup by subject found, if it is still there, is a thread of the account
\* or one that a reference has opened to all.
Held ==
  writer.pc = "insert" /\ writer.by = "subject" /\ writer.thread \in DOMAIN threads
    => \/ writer.thread \in bridged
       \/ \A n \in Members(messages, writer.thread) : Owner(n) = Owner(writer.mail)

Inv == TypeOK /\ NoGhosts /\ Meeting /\ Held

-----------------------------------------------------------------------------
(* Statistics and ids.                                                     *)

\* Statistics are of their type, whatever the flags of the messages.
LEMMA StatsType ==
  ASSUME NEW msgs, DOMAIN msgs \subseteq Mails, NEW t
  PROVE  Stats(msgs, t) \in Counters
<1> DEFINE own    == Members(msgs, t)
           unread == {m \in own : "Seen" \notin msgs[m].flags}
           dates  == {Date[m] : m \in own}
<1>1. own \subseteq Mails /\ IsFiniteSet(own)
  BY ConstantsAssumption, FS_Subset DEF Members
<1>2. Cardinality(own) \in Nat /\ Cardinality(unread) \in Nat
  BY <1>1, FS_Subset, FS_CardinalityType
<1>3. dates \in SUBSET Nat /\ IsFiniteSet(dates)
  <2>1. dates \in SUBSET Nat
    BY <1>1, ConstantsAssumption
  <2>2. IsFiniteSet(dates)
    BY <1>1, ImageIsFinite
  <2> QED  BY <2>1, <2>2
<1>4. (IF own = {} THEN 0 ELSE Max(dates)) \in Nat
  <2>1. CASE own = {}
    BY <2>1
  <2>2. CASE own # {}
    <3>1. dates # {}
      BY <2>2
    <3> HIDE DEF dates
    <3>2. Max(dates) \in dates
      BY <1>3, <3>1, MaxIsGreatest
    <3> QED  BY <1>3, <2>2, <3>2
  <2> QED  BY <2>1, <2>2
<1> HIDE DEF dates, unread
<1> QED  BY <1>2, <1>4 DEF Stats, Counters, dates, unread

\* A recount keeps the rows and their type.
LEMMA RecountType ==
  ASSUME NEW rows, rows \in [DOMAIN rows -> Rows],
         NEW msgs, DOMAIN msgs \subseteq Mails, NEW ids
  PROVE  /\ DOMAIN Recount(rows, msgs, ids) = DOMAIN rows
         /\ Recount(rows, msgs, ids) \in [DOMAIN rows -> Rows]
<1>1. \A t : Stats(msgs, t) \in Counters
  BY StatsType
<1> QED  BY <1>1 DEF Recount, Rows

\* A new thread has an id of its own.
LEMMA NextIdIsNew ==
  ASSUME TypeOK, NoGhosts
  PROVE  NextId \in Nat \ {NoThread} /\ NextId \notin DOMAIN threads
<1>1. CASE DOMAIN threads = {}
  BY <1>1 DEF NextId, NoThread
<1>2. CASE DOMAIN threads # {}
  <2>2. DOMAIN threads \in SUBSET Nat /\ NoThread \notin DOMAIN threads
    BY DEF TypeOK
  <2>3. IsFiniteSet(DOMAIN threads)
    <3>1. IsFiniteSet(DOMAIN messages)
      BY ConstantsAssumption, FS_Subset DEF TypeOK
    <3> DEFINE at == [m \in DOMAIN messages |-> messages[m].thread]
    <3>2. IsFiniteSet({at[m] : m \in DOMAIN messages})
      BY <3>1, ImageIsFinite
    <3>3. {at[m] : m \in DOMAIN messages} = DOMAIN threads
      BY DEF NoGhosts
    <3> QED  BY <3>2, <3>3
  <2>4. Max(DOMAIN threads) \in DOMAIN threads /\ \A y \in DOMAIN threads : Max(DOMAIN threads) >= y
    BY <1>2, <2>2, <2>3, MaxIsGreatest
  <2> QED  BY <1>2, <2>2, <2>4 DEF NextId, NoThread
<1> QED  BY <1>1, <1>2

-----------------------------------------------------------------------------
(* The invariant, step by step.                                            *)

\* Without a row there is nothing to relate.
LEMMA InitInv == Init => Inv
<1> SUFFICES ASSUME Init PROVE Inv
  OBVIOUS
<1>1. DOMAIN threads = {} /\ DOMAIN messages = {}
  BY DEF Init
<1>2. writer = Idle /\ writer.pc # "insert"
  BY DEF Init, Idle
<1>3. TypeOK
  <2>1. threads \in [DOMAIN threads -> Rows]
    BY <1>1 DEF Init
  <2>2. messages \in [DOMAIN messages -> [thread : DOMAIN threads, flags : Flags]]
    BY <1>1 DEF Init
  <2>3. sweep \in [Accounts -> [pc : {"idle", "apply", "stats"}, touched : SUBSET Nat]]
    BY DEF Init, NoSweep
  <2> QED  BY <1>1, <1>2, <2>1, <2>2, <2>3, ConstantsAssumption DEF Init, TypeOK, Rows
<1> QED  BY <1>1, <1>2, <1>3 DEF Inv, NoGhosts, Meeting, Held

\* A step that moves no message to another thread, and no reference's mark.
LEMMA Relabelled ==
  ASSUME Inv,
         DOMAIN messages' = DOMAIN messages,
         \A m \in DOMAIN messages : messages'[m].thread = messages[m].thread,
         DOMAIN threads' = DOMAIN threads, writer' = writer, bridged' = bridged
  PROVE  NoGhosts' /\ Meeting' /\ Held'
<1>1. \A t : Members(messages', t) = Members(messages, t)
  BY DEF Members
<1>2. NoGhosts'
  BY DEF Inv, NoGhosts
<1>3. Meeting'
  BY <1>1 DEF Inv, Meeting, OneOwner
<1>4. Held'
  BY <1>1 DEF Inv, Held
<1> QED  BY <1>2, <1>3, <1>4

\* The transitions of the writer that touch no row.
LEMMA LookupInv ==
  ASSUME Inv, UNCHANGED <<accounts, threads, messages, sweep, stale, bridged, requests>>,
         faults' \in 0..MaxFaults,
         writer' \in {Idle} \cup [pc : {"subject"}, mail : Mails]
                       \cup [pc : {"insert"}, mail : Mails, thread : Nat,
                            by : {"refs", "subject"}],
         Held'
  PROVE  Inv'
<1>1. TypeOK'
  BY DEF Inv, TypeOK
<1>2. NoGhosts' /\ Meeting'
  BY DEF Inv, NoGhosts, Meeting, OneOwner, Members
<1> QED  BY <1>1, <1>2 DEF Inv

\* A fault is one within the bound.
LEMMA FaultCounted ==
  ASSUME TypeOK, Fault
  PROVE  faults' \in 0..MaxFaults
BY ConstantsAssumption DEF TypeOK, Fault

\* What the references found is a thread; nothing need be known of its owners.
LEMMA FindThreadByMessageIDsInv ==
  ASSUME Inv, NEW m \in Mails, FindThreadByMessageIDs(m)
  PROVE  Inv'
<1>1. TypeOK
  BY DEF Inv
<1>2. faults' \in 0..MaxFaults
  <2>1. CASE UNCHANGED faults
    BY <1>1, <2>1 DEF TypeOK
  <2>2. CASE Fault
    BY <1>1, <2>2, FaultCounted
  <2> QED  BY <2>1, <2>2 DEF FindThreadByMessageIDs
<1>3. CASE \E t \in Referred(m) : writer' = Found(m, t, "refs")
  <2>1. PICK t \in Referred(m) : writer' = Found(m, t, "refs")
    BY <1>3
  <2>2. t \in Nat
    BY <1>1 DEF Referred, TypeOK
  <2>3. writer' \in [pc : {"insert"}, mail : Mails, thread : Nat, by : {"refs", "subject"}]
    BY <2>1, <2>2 DEF Found
  <2>4. Held'
    BY <2>1 DEF Held, Found
  <2> QED  BY <1>2, <2>3, <2>4, LookupInv DEF FindThreadByMessageIDs
<1>4. CASE writer' = [pc |-> "subject", mail |-> m]
  <2>1. writer' \in [pc : {"subject"}, mail : Mails]
    BY <1>4
  <2>2. Held'
    BY <1>4 DEF Held
  <2> QED  BY <1>2, <2>1, <2>2, LookupInv DEF FindThreadByMessageIDs
<1> QED  BY <1>3, <1>4 DEF FindThreadByMessageIDs

\* What SameSubject finds is Held: one message of the thread is the account's.
LEMMA FindThreadBySubjectInv ==
  ASSUME Inv, NEW m \in Mails, FindThreadBySubject(m)
  PROVE  Inv'
<1>1. TypeOK
  BY DEF Inv
<1>2. faults' \in 0..MaxFaults
  <2>1. CASE UNCHANGED faults
    BY <1>1, <2>1 DEF TypeOK
  <2>2. CASE Fault
    BY <1>1, <2>2, FaultCounted
  <2> QED  BY <2>1, <2>2 DEF FindThreadBySubject
<1>3. PICK t : /\ t \in SameSubject(m) \cup {NoThread}
               /\ writer' = Found(m, t, "subject")
  BY DEF FindThreadBySubject
<1>4. t \in Nat
  BY <1>1, <1>3 DEF SameSubject, TypeOK, NoThread
<1>5. writer' \in [pc : {"insert"}, mail : Mails, thread : Nat, by : {"refs", "subject"}]
  BY <1>3, <1>4 DEF Found
<1>6. Held'
  <2> SUFFICES ASSUME t \in DOMAIN threads, t \notin bridged
               PROVE  \A n \in Members(messages, t) : Owner(n) = Owner(m)
    BY <1>3 DEF Held, Found, FindThreadBySubject
  <2>1. t # NoThread
    BY <1>1 DEF TypeOK
  <2>2. PICK k \in Members(messages, t) : Owner(k) = Owner(m)
    BY <1>3, <2>1 DEF SameSubject
  <2>3. OneOwner(t)
    BY DEF Inv, Meeting
  <2> QED  BY <2>2, <2>3 DEF OneOwner
<1> QED  BY <1>2, <1>5, <1>6, LookupInv DEF FindThreadBySubject

\* The message is dropped, and the writer holds nothing.
LEMMA InsertFailsInv ==
  ASSUME Inv, InsertFails
  PROVE  Inv'
<1>1. TypeOK
  BY DEF Inv
<1>2. faults' \in 0..MaxFaults
  <2>1. CASE UNCHANGED faults
    BY <1>1, <2>1 DEF TypeOK
  <2>2. CASE Fault
    BY <1>1, <2>2, FaultCounted
  <2> QED  BY <2>1, <2>2 DEF InsertFails
<1>3. writer' = Idle /\ Held'
  BY DEF InsertFails, Held, Idle
<1> QED  BY <1>2, <1>3, LookupInv DEF InsertFails

\* A message is inserted into a thread found, or into a new one: in the first case the
\* thread is its account's, or the reference that led to it is recorded.
LEMMA InsertInv ==
  ASSUME Inv, InsertParsedMessageBundle
  PROVE  Inv'
<1> DEFINE m == writer.mail
           t == IF writer.thread = NoThread THEN NextId ELSE writer.thread
<1>1. /\ writer.pc = "insert" /\ m \in Mails /\ writer.by \in {"refs", "subject"}
      /\ Owner(m) \in accounts /\ m \notin DOMAIN messages
      /\ writer.thread \in DOMAIN threads \cup {NoThread}
  <2>1. writer.pc = "insert" /\ Insertable(writer.mail, writer.thread)
    BY DEF InsertParsedMessageBundle
  <2>2. m \in Mails /\ writer.by \in {"refs", "subject"}
    BY <2>1 DEF Inv, TypeOK, Idle
  <2> QED  BY <2>1, <2>2 DEF Insertable
<1>2. /\ t \in Nat \ {NoThread}
      /\ writer.thread # NoThread => t \in DOMAIN threads /\ t = writer.thread
      /\ writer.thread = NoThread => t \notin DOMAIN threads
  BY <1>1, NextIdIsNew DEF Inv, TypeOK
<1> HIDE DEF m, t
<1>3. PICK fl \in ServerFlags :
        LET msgs == [n \in DOMAIN messages \cup {m} |->
                       IF n = m THEN [thread |-> t, flags |-> fl] ELSE messages[n]]
            row  == IF writer.thread = NoThread
                    THEN [subject |-> NormalizeSubject(Subject[m]), stats |-> Stats(msgs, t)]
                    ELSE [threads[t] EXCEPT !.stats = Stats(msgs, t)]
        IN /\ messages' = msgs
           /\ threads' = [u \in DOMAIN threads \cup {t} |-> IF u = t THEN row ELSE threads[u]]
  BY DEF InsertParsedMessageBundle, m, t
<1>4. /\ stale' = stale \ {t}
      /\ bridged' = IF writer.by = "refs" /\ Owner(m) \notin Owners(messages, t)
                    THEN bridged \cup {t} ELSE bridged
      /\ writer' = Idle
      /\ UNCHANGED <<accounts, sweep, faults, requests>>
  BY DEF InsertParsedMessageBundle, m, t
<1>5. /\ DOMAIN messages' = DOMAIN messages \cup {m}
      /\ DOMAIN threads' = DOMAIN threads \cup {t}
      /\ messages'[m] = [thread |-> t, flags |-> fl]
      /\ \A n \in DOMAIN messages : messages'[n] = messages[n]
  BY <1>1, <1>3
<1>6. Stats(messages', t) \in Counters
  BY <1>1, <1>5, StatsType DEF Inv, TypeOK
<1>7. threads' \in [DOMAIN threads' -> Rows]
  <2>1. \A u \in DOMAIN threads : threads[u] \in Rows
    BY DEF Inv, TypeOK, Rows
  <2>2. threads'[t] \in Rows
    <3>1. CASE writer.thread = NoThread
      BY <1>1, <1>3, <1>6, <3>1 DEF Rows
    <3>2. CASE writer.thread # NoThread
      <4>1. threads'[t] = [threads[t] EXCEPT !.stats = Stats(messages', t)]
        BY <1>3, <3>2
      <4> QED  BY <1>2, <1>6, <2>1, <3>2, <4>1 DEF Rows
    <3> QED  BY <3>1, <3>2
  <2>3. threads' = [u \in DOMAIN threads' |-> threads'[u]]
    BY <1>3
  <2>4. \A u \in DOMAIN threads : u # t => threads'[u] = threads[u]
    BY <1>3
  <2> QED  BY <1>5, <2>1, <2>2, <2>3, <2>4
<1>8. messages' \in [DOMAIN messages' -> [thread : DOMAIN threads', flags : Flags]]
  <2>1. fl \in Flags
    BY ConstantsAssumption DEF Flags
  <2>2. \A n \in DOMAIN messages : messages'[n] \in [thread : DOMAIN threads', flags : Flags]
    BY <1>5 DEF Inv, TypeOK
  <2>3. messages'[m] \in [thread : DOMAIN threads', flags : Flags]
    BY <1>5, <2>1
  <2>4. messages' = [n \in DOMAIN messages' |-> messages'[n]]
    BY <1>3
  <2> QED  BY <1>5, <2>2, <2>3, <2>4
<1>9. TypeOK'
  BY <1>1, <1>2, <1>4, <1>5, <1>7, <1>8 DEF Inv, TypeOK, Rows, Owner
<1>10. NoGhosts'
  BY <1>1, <1>5 DEF Inv, NoGhosts
<1>11. Meeting'
  <2> SUFFICES ASSUME NEW u \in DOMAIN threads', u \notin bridged'
               PROVE  OneOwner(u)'
    BY DEF Meeting
  <2>1. CASE u # t
    <3>1. Members(messages', u) = Members(messages, u)
      BY <1>1, <1>5, <2>1 DEF Members
    <3> QED  BY <1>4, <1>5, <2>1, <3>1 DEF Inv, Meeting, OneOwner
  <2>2. CASE u = t
    <3>1. Members(messages', t) = Members(messages, t) \cup {m}
      BY <1>1, <1>5 DEF Members
    <3>2. \A n \in Members(messages, t) : Owner(n) = Owner(m)
      <4>1. CASE t \notin DOMAIN threads
        BY <4>1 DEF Inv, NoGhosts, Members
      <4>2. CASE t \in DOMAIN threads /\ writer.by = "subject"
        BY <1>1, <1>2, <1>4, <2>2, <4>2 DEF Inv, Held, m
      <4>3. CASE t \in DOMAIN threads /\ writer.by = "refs"
        <5>1. t \notin bridged /\ Owner(m) \in Owners(messages, t)
          BY <1>4, <2>2, <4>3
        <5> QED  BY <4>3, <5>1 DEF Inv, Meeting, OneOwner, Owners
      <4> QED  BY <1>1, <4>1, <4>2, <4>3
    <3> QED  BY <2>2, <3>1, <3>2 DEF OneOwner
  <2> QED  BY <2>1, <2>2
<1>12. Held'
  BY <1>4 DEF Held, Idle
<1> QED  BY <1>9, <1>10, <1>11, <1>12 DEF Inv

\* With messages gone, the threads that remain are those of the messages that do.
LEMMA DeleteInv ==
  ASSUME Inv, NEW gone, Delete(gone), UNCHANGED <<writer, sweep, requests>>,
         faults' \in 0..MaxFaults, accounts' \subseteq accounts,
         \A m \in DOMAIN messages \ gone : Owner(m) \in accounts'
  PROVE  Inv'
<1> DEFINE kept == {messages'[m].thread : m \in DOMAIN messages'}
<1>1. /\ DOMAIN messages' = DOMAIN messages \ gone
      /\ \A m \in DOMAIN messages' : messages'[m] = messages[m]
      /\ messages' = [m \in DOMAIN messages' |-> messages'[m]]
  BY DEF Delete
<1>2. threads' = [t \in kept |-> threads[t]] /\ bridged' = kept \cap bridged
  BY DEF Delete
<1>3. stale' \subseteq kept
  BY DEF Delete
<1>4. DOMAIN threads' = kept /\ kept \subseteq DOMAIN threads
  BY <1>1, <1>2 DEF Inv, NoGhosts
<1> HIDE DEF kept
<1>5. TypeOK'
  <2>1. threads' \in [DOMAIN threads' -> Rows]
    BY <1>2, <1>4 DEF Inv, TypeOK, Rows
  <2>2. messages' \in [DOMAIN messages' -> [thread : DOMAIN threads', flags : Flags]]
    <3>1. \A m \in DOMAIN messages' : messages'[m].thread \in DOMAIN threads'
      BY <1>4 DEF kept
    <3>2. \A m \in DOMAIN messages' : messages'[m] \in [thread : DOMAIN threads, flags : Flags]
      BY <1>1 DEF Inv, TypeOK
    <3>3. \A m \in DOMAIN messages' : messages'[m] \in [thread : DOMAIN threads', flags : Flags]
      BY <3>1, <3>2
    <3> QED  BY <1>1, <3>3
  <2>3. DOMAIN messages' \subseteq {m \in Mails : Owner(m) \in accounts'}
    BY <1>1 DEF Inv, TypeOK
  <2>4. bridged' \subseteq DOMAIN threads' /\ stale' \subseteq DOMAIN threads'
    BY <1>2, <1>3, <1>4
  <2>5. DOMAIN threads' \subseteq Nat \ {NoThread}
    BY <1>4 DEF Inv, TypeOK
  <2> QED  BY <2>1, <2>2, <2>3, <2>4, <2>5 DEF Inv, TypeOK, Rows, Owner
<1>6. NoGhosts'
  BY <1>4 DEF NoGhosts, kept
<1>7. \A t : Members(messages', t) \subseteq Members(messages, t)
  BY <1>1 DEF Members
<1>8. Meeting'
  BY <1>2, <1>4, <1>7 DEF Inv, Meeting, OneOwner
<1>9. Held'
  BY <1>2, <1>4, <1>7 DEF Inv, Held
<1> QED  BY <1>5, <1>6, <1>8, <1>9 DEF Inv

\* A folder's messages go, or an account's and the account.
LEMMA RemoveInv ==
  ASSUME Inv, Remove
  PROVE  Inv'
<1>1. TypeOK
  BY DEF Inv
<1>2. \A m \in DOMAIN messages : Owner(m) \in accounts
  BY <1>1 DEF TypeOK
<1>3. ASSUME NEW f \in Folders, DeleteMessagesByFolder(f)
      PROVE  Inv'
  <2>1. faults' \in 0..MaxFaults /\ accounts' = accounts
    BY <1>1, <1>3, FaultCounted DEF DeleteMessagesByFolder
  <2> QED  BY <1>2, <1>3, <2>1, DeleteInv DEF DeleteMessagesByFolder
<1>4. ASSUME NEW a \in Accounts, DeleteAccount(a)
      PROVE  Inv'
  <2> DEFINE gone == {m \in DOMAIN messages : Owner(m) = a}
  <2>1. /\ Delete(gone) /\ accounts' = accounts \ {a} /\ faults' \in 0..MaxFaults
        /\ UNCHANGED <<writer, sweep, requests>>
    BY <1>1, <1>4, FaultCounted DEF DeleteAccount
  <2>2. \A m \in DOMAIN messages \ gone : Owner(m) \in accounts'
    BY <1>2, <2>1
  <2> HIDE DEF gone
  <2> QED  BY <2>1, <2>2, DeleteInv
<1> QED  BY <1>3, <1>4 DEF Remove

\* New flags, in a transaction with the recount.
LEMMA SetFlagsInv ==
  ASSUME Inv, NEW new, \A m \in DOMAIN new : new[m] \in Flags, SetFlags(new)
  PROVE  Inv'
<1>1. TypeOK
  BY DEF Inv
<1>2. messages' = [m \in DOMAIN messages |->
                     IF m \in DOMAIN new THEN [messages[m] EXCEPT !.flags = new[m]]
                                         ELSE messages[m]]
  BY DEF SetFlags
<1>3. \A m \in DOMAIN messages : messages[m] \in [thread : DOMAIN threads, flags : Flags]
  BY <1>1 DEF TypeOK
<1>4. /\ DOMAIN messages' = DOMAIN messages
      /\ \A m \in DOMAIN messages : messages'[m].thread = messages[m].thread
  BY <1>2, <1>3
<1>5. messages' \in [DOMAIN messages' -> [thread : DOMAIN threads, flags : Flags]]
  BY <1>2, <1>3
<1> DEFINE ids == {messages[m].thread : m \in DOMAIN new}
<1>6. /\ threads' = Recount(threads, messages', ids)
      /\ stale' = stale \ ids
      /\ requests < MaxRequests /\ requests' = requests + 1
      /\ UNCHANGED <<accounts, writer, sweep, bridged, faults>>
  BY DEF SetFlags
<1> HIDE DEF ids
<1>7. DOMAIN threads' = DOMAIN threads /\ threads' \in [DOMAIN threads' -> Rows]
  BY <1>1, <1>4, <1>6, RecountType DEF TypeOK, Rows
<1>8. requests' \in 0..MaxRequests
  BY <1>1, <1>6, ConstantsAssumption DEF TypeOK
<1>9. TypeOK'
  BY <1>1, <1>4, <1>5, <1>6, <1>7, <1>8 DEF TypeOK, Rows, Owner
<1> QED  BY <1>4, <1>6, <1>7, <1>9, Relabelled DEF Inv

\* The user's changes are SetFlags with flags of messages of the threads shown.
LEMMA UserInv ==
  ASSUME Inv, User
  PROVE  Inv'
<1>1. \A m \in DOMAIN messages : messages[m].flags \in Flags
  BY DEF Inv, TypeOK
<1>2. ASSUME NEW S, S \subseteq DOMAIN messages, MarkRead(S)
      PROVE  Inv'
  <2> DEFINE new == [m \in {n \in S : "Seen" \notin messages[n].flags} |->
                       messages[m].flags \cup {"Seen"}]
  <2>1. \A m \in DOMAIN new : new[m] \in Flags
    BY <1>1, <1>2 DEF Flags
  <2>2. SetFlags(new)
    BY <1>2 DEF MarkRead
  <2> HIDE DEF new
  <2> QED  BY <2>1, <2>2, SetFlagsInv
<1>3. ASSUME NEW t, ToggleThreadFlagged(t)
      PROVE  Inv'
  <2> DEFINE own     == Members(messages, t)
             starred == {m \in own : "Flagged" \in messages[m].flags}
             off     == [m \in starred |-> messages[m].flags \ {"Flagged"}]
             on(m)   == [n \in {m} |-> messages[n].flags \cup {"Flagged"}]
  <2>1. own \subseteq DOMAIN messages
    BY DEF Members
  <2>2. CASE starred # {}
    <3>1. SetFlags(off)
      BY <1>3, <2>2 DEF ToggleThreadFlagged
    <3>2. \A m \in DOMAIN off : off[m] \in Flags
      BY <1>1, <2>1 DEF Flags
    <3> HIDE DEF off
    <3> QED  BY <3>1, <3>2, SetFlagsInv
  <2>3. CASE starred = {}
    <3>1. PICK m \in own : SetFlags(on(m))
      BY <1>3, <2>3 DEF ToggleThreadFlagged
    <3>2. \A n \in DOMAIN on(m) : on(m)[n] \in Flags
      BY <1>1, <2>1, <3>1 DEF Flags
    <3> HIDE DEF on
    <3> QED  BY <3>1, <3>2, SetFlagsInv
  <2> QED  BY <2>2, <2>3
<1> QED  BY <1>2, <1>3 DEF User, Members

\* The steps of a sweep that change no row of messages or threads.
LEMMA BookkeepingInv ==
  ASSUME Inv, UNCHANGED <<accounts, threads, messages, bridged, requests>>,
         writer' = writer \/ writer' = Idle,
         sweep' \in [Accounts -> [pc : {"idle", "apply", "stats"}, touched : SUBSET Nat]],
         stale' \subseteq DOMAIN threads, faults' \in 0..MaxFaults
  PROVE  Inv'
<1>1. TypeOK'
  BY DEF Inv, TypeOK
<1>2. NoGhosts' /\ Meeting'
  BY DEF Inv, NoGhosts, Meeting, OneOwner, Members
<1>3. Held'
  BY DEF Inv, Held, Idle, Members
<1> QED  BY <1>1, <1>2, <1>3 DEF Inv

\* A sweep moves no message to another thread.
LEMMA SweepInv ==
  ASSUME Inv, NEW a \in Accounts,
         \/ BeginSweep(a) \/ UpdateFlagsByUID(a) \/ Fetched(a) \/ FetchFails(a)
         \/ UpdateThreadStats(a)
  PROVE  Inv'
<1> DEFINE Sweeps == [pc : {"idle", "apply", "stats"}, touched : SUBSET Nat]
<1>1. TypeOK
  BY DEF Inv
<1>2. sweep \in [Accounts -> Sweeps] /\ stale \subseteq DOMAIN threads /\ faults \in 0..MaxFaults
  BY <1>1 DEF TypeOK
<1>3. CASE BeginSweep(a)
  <2>1. sweep' \in [Accounts -> Sweeps]
    BY <1>2, <1>3 DEF BeginSweep
  <2> QED  BY <1>2, <1>3, <2>1, BookkeepingInv DEF BeginSweep
<1>4. CASE UpdateFlagsByUID(a)
  <2>1. PICK m \in DOMAIN messages, fl \in ServerFlags :
          /\ messages' = [messages EXCEPT ![m].flags = fl]
          /\ sweep' = [sweep EXCEPT ![a].touched = @ \cup {messages[m].thread}]
    BY <1>4 DEF UpdateFlagsByUID
  <2>2. UNCHANGED <<accounts, threads, writer, stale, bridged, faults, requests>>
    BY <1>4 DEF UpdateFlagsByUID
  <2>3. messages \in [DOMAIN messages -> [thread : DOMAIN threads, flags : Flags]]
    BY <1>1 DEF TypeOK
  <2>4. messages[m].thread \in Nat
    BY <1>1, <2>3 DEF TypeOK
  <2>5. sweep' \in [Accounts -> Sweeps]
    BY <1>2, <2>1, <2>4
  <2>6. fl \in Flags
    BY ConstantsAssumption DEF Flags
  <2>7. messages' \in [DOMAIN messages -> [thread : DOMAIN threads, flags : Flags]]
    BY <2>1, <2>3, <2>6
  <2>8. /\ DOMAIN messages' = DOMAIN messages
        /\ \A n \in DOMAIN messages : messages'[n].thread = messages[n].thread
    BY <2>1, <2>3
  <2>9. TypeOK'
    BY <1>1, <2>2, <2>5, <2>7, <2>8 DEF TypeOK, Owner
  <2> QED  BY <2>2, <2>8, <2>9, Relabelled DEF Inv
<1>5. CASE Fetched(a)
  <2>1. sweep' \in [Accounts -> Sweeps]
    BY <1>2, <1>5 DEF Fetched
  <2> QED  BY <1>2, <1>5, <2>1, BookkeepingInv DEF Fetched
<1>6. CASE FetchFails(a)
  <2>1. sweep' \in [Accounts -> Sweeps]
    BY <1>2, <1>6 DEF FetchFails, NoSweep
  <2>2. stale' \subseteq DOMAIN threads
    BY <1>2, <1>6 DEF FetchFails, Wrong
  <2>3. faults' \in 0..MaxFaults
    BY <1>1, <1>6, FaultCounted DEF FetchFails
  <2> QED  BY <1>6, <2>1, <2>2, <2>3, BookkeepingInv DEF FetchFails
<1>7. CASE UpdateThreadStats(a)
  <2>1. PICK t \in sweep[a].touched :
          /\ sweep' = [sweep EXCEPT ![a] = IF @.touched = {t} THEN NoSweep
                                           ELSE [pc |-> "stats", touched |-> @.touched \ {t}]]
          /\ \/ /\ threads' = Recount(threads, messages, {t})
                /\ stale' = stale \ {t} /\ UNCHANGED faults
             \/ Fault /\ threads' = threads /\ stale' = stale \cup Wrong({t})
    BY <1>7 DEF UpdateThreadStats
  <2>2. UNCHANGED <<accounts, messages, writer, bridged, requests>>
    BY <1>7 DEF UpdateThreadStats
  <2>3. sweep' \in [Accounts -> Sweeps]
    BY <1>2, <2>1 DEF NoSweep
  <2>4. CASE threads' = Recount(threads, messages, {t}) /\ stale' = stale \ {t} /\ UNCHANGED faults
    <3>1. DOMAIN threads' = DOMAIN threads /\ threads' \in [DOMAIN threads' -> Rows]
      BY <1>1, <2>4, RecountType DEF TypeOK, Rows
    <3>2. TypeOK'
      BY <1>1, <2>2, <2>3, <2>4, <3>1 DEF TypeOK, Rows
    <3> QED  BY <2>2, <3>1, <3>2, Relabelled DEF Inv
  <2>5. CASE Fault /\ threads' = threads /\ stale' = stale \cup Wrong({t})
    <3>1. stale' \subseteq DOMAIN threads /\ faults' \in 0..MaxFaults
      BY <1>1, <1>2, <2>5, FaultCounted DEF Wrong
    <3> QED  BY <2>2, <2>3, <2>5, <3>1, BookkeepingInv
  <2> QED  BY <2>1, <2>4, <2>5
<1> QED  BY <1>3, <1>4, <1>5, <1>6, <1>7

\* After a crash the writer holds nothing.
LEMMA CrashInv ==
  ASSUME Inv, Crash
  PROVE  Inv'
<1>1. faults' \in 0..MaxFaults
  BY FaultCounted DEF Inv, Crash
<1>2. stale' \subseteq DOMAIN threads
  BY DEF Inv, TypeOK, Crash, Wrong
<1>3. sweep' \in [Accounts -> [pc : {"idle", "apply", "stats"}, touched : SUBSET Nat]]
  BY DEF Crash, NoSweep
<1> QED  BY <1>1, <1>2, <1>3, BookkeepingInv DEF Crash

\* Every step preserves the invariant.
LEMMA NextInv == Inv /\ [Next]_vars => Inv'
<1> SUFFICES ASSUME Inv, [Next]_vars PROVE Inv'
  OBVIOUS
<1>1. CASE Write
  BY <1>1, FindThreadByMessageIDsInv, FindThreadBySubjectInv, InsertInv, InsertFailsInv DEF Write
<1>2. CASE Remove
  BY <1>2, RemoveInv
<1>3. CASE User
  BY <1>3, UserInv
<1>4. CASE Sweep
  BY <1>4, SweepInv DEF Sweep
<1>5. CASE Crash
  BY <1>5, CrashInv
<1>6. CASE UNCHANGED vars
  <2>1. UNCHANGED <<accounts, threads, messages, writer, sweep, requests, faults, stale, bridged>>
    BY <1>6 DEF vars
  <2>2. sweep' \in [Accounts -> [pc : {"idle", "apply", "stats"}, touched : SUBSET Nat]]
    BY <2>1 DEF Inv, TypeOK
  <2>3. stale' \subseteq DOMAIN threads /\ faults' \in 0..MaxFaults
    BY <2>1 DEF Inv, TypeOK
  <2> QED  BY <2>1, <2>2, <2>3, BookkeepingInv
<1> QED  BY <1>1, <1>2, <1>3, <1>4, <1>5, <1>6 DEF Next

\* The invariant holds in every reachable state.
LEMMA Invariance == Spec => []Inv
BY InitInv, NextInv, PTL DEF Spec

-----------------------------------------------------------------------------

\* A thread whose messages are all of one account has one owner at most.
LEMMA OneOwnerIsOne ==
  ASSUME NEW t, OneOwner(t)
  PROVE  ~(Cardinality(Owners(messages, t)) > 1)
<1>1. CASE Members(messages, t) = {}
  <2>1. Owners(messages, t) = {}
    BY <1>1 DEF Owners
  <2> QED  BY <2>1, FS_EmptySet
<1>2. CASE Members(messages, t) # {}
  <2>1. PICK k \in Members(messages, t) : TRUE
    BY <1>2
  <2>2. Owners(messages, t) = {Owner(k)}
    BY <2>1 DEF Owners, OneOwner
  <2> QED  BY <2>2, FS_Singleton
<1> QED  BY <1>1, <1>2

(* The statistics.                                                         *)

\* Equal members with equal flags have equal statistics.
LEMMA SameStats ==
  ASSUME NEW ma, NEW mb, NEW t, Members(ma, t) = Members(mb, t),
         \A m \in Members(mb, t) : ma[m].flags = mb[m].flags
  PROVE  Stats(ma, t) = Stats(mb, t)
<1> DEFINE own == Members(mb, t)
<1>1. /\ {m \in own : "Seen" \notin ma[m].flags} = {m \in own : "Seen" \notin mb[m].flags}
      /\ (\E m \in own : "Flagged" \in ma[m].flags) = (\E m \in own : "Flagged" \in mb[m].flags)
  OBVIOUS
<1> QED  BY <1>1 DEF Stats

\* The thread of the new message is counted in its transaction, no other changes.
LEMMA InsertExact ==
  ASSUME Inv, StatsExact, InsertParsedMessageBundle
  PROVE  StatsExact'
<1> DEFINE m == writer.mail
           t == IF writer.thread = NoThread THEN NextId ELSE writer.thread
<1> HIDE DEF m, t
<1>1. m \notin DOMAIN messages
  BY DEF InsertParsedMessageBundle, Insertable, m
<1>2. PICK fl \in ServerFlags :
        LET msgs == [n \in DOMAIN messages \cup {m} |->
                       IF n = m THEN [thread |-> t, flags |-> fl] ELSE messages[n]]
            row  == IF writer.thread = NoThread
                    THEN [subject |-> NormalizeSubject(Subject[m]), stats |-> Stats(msgs, t)]
                    ELSE [threads[t] EXCEPT !.stats = Stats(msgs, t)]
        IN /\ messages' = msgs
           /\ threads' = [u \in DOMAIN threads \cup {t} |-> IF u = t THEN row ELSE threads[u]]
  BY DEF InsertParsedMessageBundle, m, t
<1>3. stale' = stale \ {t} /\ sweep' = sweep
  BY DEF InsertParsedMessageBundle, m, t
<1>4. DOMAIN threads' = DOMAIN threads \cup {t}
  BY <1>2
<1>5. threads'[t].stats = Stats(messages', t)
  <2>1. CASE writer.thread = NoThread
    BY <1>2, <2>1
  <2>2. CASE writer.thread # NoThread
    <3>1. t \in DOMAIN threads
      BY <2>2 DEF InsertParsedMessageBundle, Insertable, t
    <3>2. threads[t] \in Rows
      BY <3>1 DEF Inv, TypeOK, Rows
    <3>3. threads'[t] = [threads[t] EXCEPT !.stats = Stats(messages', t)]
      BY <1>2, <2>2
    <3> QED  BY <3>2, <3>3 DEF Rows
  <2> QED  BY <2>1, <2>2
<1>6. ASSUME NEW u \in DOMAIN threads, u # t
      PROVE  threads'[u] = threads[u] /\ Stats(messages', u) = Stats(messages, u)
  <2>1. /\ Members(messages', u) = Members(messages, u)
        /\ \A n \in Members(messages, u) : messages'[n].flags = messages[n].flags
    BY <1>1, <1>2, <1>6 DEF Members
  <2> QED  BY <1>2, <1>6, <2>1, SameStats
<1> QED  BY <1>3, <1>4, <1>5, <1>6 DEF StatsExact, Pending

\* A thread that keeps its statistics and lost a message is stale.
LEMMA DeleteExact ==
  ASSUME Inv, StatsExact, NEW gone, Delete(gone), sweep' = sweep
  PROVE  StatsExact'
<1> SUFFICES ASSUME NEW t \in DOMAIN threads', t \notin stale', ~Pending(t)'
             PROVE  threads'[t].stats = Stats(messages', t)
  BY DEF StatsExact
<1>1. messages' = [m \in DOMAIN messages \ gone |-> messages[m]]
  BY DEF Delete
<1>2. DOMAIN threads' = {messages'[m].thread : m \in DOMAIN messages'} /\ threads'[t] = threads[t]
  BY DEF Delete
<1>3. t \notin stale /\ t \notin {messages[m].thread : m \in gone}
  BY <1>2 DEF Delete
<1>4. t \in DOMAIN threads
  BY <1>1, <1>2 DEF Inv, NoGhosts
<1>5. Stats(messages', t) = Stats(messages, t)
  <2>1. /\ Members(messages', t) = Members(messages, t)
        /\ \A n \in Members(messages, t) : messages'[n].flags = messages[n].flags
    BY <1>1, <1>3 DEF Members
  <2> QED  BY <2>1, SameStats
<1> QED  BY <1>2, <1>3, <1>4, <1>5 DEF StatsExact, Pending

\* The threads of the messages changed are recounted in the transaction.
LEMMA SetFlagsExact ==
  ASSUME Inv, StatsExact, NEW new, SetFlags(new)
  PROVE  StatsExact'
<1> SUFFICES ASSUME NEW t \in DOMAIN threads', t \notin stale', ~Pending(t)'
             PROVE  threads'[t].stats = Stats(messages', t)
  BY DEF StatsExact
<1> DEFINE ids == {messages[m].thread : m \in DOMAIN new}
<1>1. messages' = [m \in DOMAIN messages |->
                     IF m \in DOMAIN new THEN [messages[m] EXCEPT !.flags = new[m]]
                                         ELSE messages[m]]
  BY DEF SetFlags
<1>2. threads' = Recount(threads, messages', ids) /\ stale' = stale \ ids /\ sweep' = sweep
  BY DEF SetFlags
<1>3. t \in DOMAIN threads
  BY <1>2 DEF Recount
<1>4. CASE t \in ids
  <2>1. threads[t] \in Rows
    BY <1>3 DEF Inv, TypeOK, Rows
  <2>2. threads'[t] = [threads[t] EXCEPT !.stats = Stats(messages', t)]
    BY <1>2, <1>3, <1>4 DEF Recount
  <2> QED  BY <2>1, <2>2 DEF Rows
<1>5. CASE t \notin ids
  <2>1. threads'[t] = threads[t]
    BY <1>2, <1>3, <1>5 DEF Recount
  <2>2. \A m \in DOMAIN messages : messages[m] \in [thread : DOMAIN threads, flags : Flags]
    BY DEF Inv, TypeOK
  <2>3. /\ DOMAIN messages' = DOMAIN messages
        /\ \A m \in DOMAIN messages : messages'[m].thread = messages[m].thread
    BY <1>1, <2>2
  <2>4. /\ Members(messages', t) = Members(messages, t)
        /\ \A n \in Members(messages, t) : messages'[n].flags = messages[n].flags
    BY <1>1, <1>5, <2>3 DEF Members
  <2>5. Stats(messages', t) = Stats(messages, t)
    BY <2>4, SameStats
  <2> QED  BY <1>2, <1>3, <1>5, <2>1, <2>5 DEF StatsExact, Pending
<1> QED  BY <1>4, <1>5

\* A sweep either keeps the thread of a message it has changed in touched, or has
\* recounted it, or leaves it stale.
LEMMA SweepExact ==
  ASSUME Inv, StatsExact, NEW a \in Accounts,
         \/ BeginSweep(a) \/ UpdateFlagsByUID(a) \/ Fetched(a) \/ FetchFails(a)
         \/ UpdateThreadStats(a)
  PROVE  StatsExact'
<1> DEFINE Sweeps == [pc : {"idle", "apply", "stats"}, touched : SUBSET Nat]
<1>1. sweep \in [Accounts -> Sweeps]
  BY DEF Inv, TypeOK
<1>2. CASE BeginSweep(a) \/ Fetched(a)
  <2>1. \A b \in Accounts : sweep'[b].touched = sweep[b].touched
    BY <1>1, <1>2 DEF BeginSweep, Fetched
  <2>2. UNCHANGED <<threads, messages, stale>>
    BY <1>2 DEF BeginSweep, Fetched
  <2> QED  BY <2>1, <2>2 DEF StatsExact, Pending
<1>3. CASE UpdateFlagsByUID(a)
  <2>1. PICK m \in DOMAIN messages, fl \in ServerFlags :
          /\ messages' = [messages EXCEPT ![m].flags = fl]
          /\ sweep' = [sweep EXCEPT ![a].touched = @ \cup {messages[m].thread}]
    BY <1>3 DEF UpdateFlagsByUID
  <2>2. UNCHANGED <<threads, stale>>
    BY <1>3 DEF UpdateFlagsByUID
  <2>3. \A b \in Accounts : sweep[b].touched \subseteq sweep'[b].touched
    BY <1>1, <2>1
  <2>4. messages[m].thread \in sweep'[a].touched
    BY <1>1, <2>1
  <2>5. ASSUME NEW t, t # messages[m].thread
        PROVE  Stats(messages', t) = Stats(messages, t)
    <3>1. /\ DOMAIN messages' = DOMAIN messages
          /\ \A n \in DOMAIN messages : n # m => messages'[n] = messages[n]
      BY <2>1
    <3>2. messages'[m].thread = messages[m].thread
      <4>1. messages[m] \in [thread : DOMAIN threads, flags : Flags]
        BY DEF Inv, TypeOK
      <4>2. messages'[m] = [messages[m] EXCEPT !.flags = fl]
        BY <2>1
      <4> QED  BY <4>1, <4>2
    <3>3. /\ Members(messages', t) = Members(messages, t)
          /\ \A n \in Members(messages, t) : messages'[n].flags = messages[n].flags
      BY <2>5, <3>1, <3>2 DEF Members
    <3> QED  BY <3>3, SameStats
  <2> QED  BY <2>2, <2>3, <2>4, <2>5 DEF StatsExact, Pending
<1>4. CASE FetchFails(a)
  <2>1. \A b \in Accounts : b # a => sweep'[b] = sweep[b]
    BY <1>1, <1>4 DEF FetchFails
  <2>2. UNCHANGED <<threads, messages>> /\ stale' = stale \cup Wrong(sweep[a].touched)
    BY <1>4 DEF FetchFails
  <2> QED  BY <2>1, <2>2 DEF StatsExact, Pending, Wrong
<1>5. CASE UpdateThreadStats(a)
  <2>1. PICK t \in sweep[a].touched :
          /\ sweep' = [sweep EXCEPT ![a] = IF @.touched = {t} THEN NoSweep
                                           ELSE [pc |-> "stats", touched |-> @.touched \ {t}]]
          /\ \/ /\ threads' = Recount(threads, messages, {t})
                /\ stale' = stale \ {t} /\ UNCHANGED faults
             \/ Fault /\ threads' = threads /\ stale' = stale \cup Wrong({t})
    BY <1>5 DEF UpdateThreadStats
  <2>2. messages' = messages
    BY <1>5 DEF UpdateThreadStats
  <2>3. \A u : u # t /\ Pending(u) => Pending(u)'
    <3>1. \A b \in Accounts : b # a => sweep'[b] = sweep[b]
      BY <1>1, <2>1
    <3>2. sweep'[a].touched = sweep[a].touched \ {t}
      BY <1>1, <2>1 DEF NoSweep
    <3> QED  BY <3>1, <3>2 DEF Pending
  <2>4. CASE threads' = Recount(threads, messages, {t}) /\ stale' = stale \ {t}
    <3>1. DOMAIN threads' = DOMAIN threads /\ \A u \in DOMAIN threads : u # t => threads'[u] = threads[u]
      BY <2>4 DEF Recount
    <3>2. t \in DOMAIN threads => threads'[t].stats = Stats(messages, t)
      <4> SUFFICES ASSUME t \in DOMAIN threads PROVE threads'[t].stats = Stats(messages, t)
        OBVIOUS
      <4>1. threads[t] \in Rows
        BY DEF Inv, TypeOK, Rows
      <4>2. threads'[t] = [threads[t] EXCEPT !.stats = Stats(messages, t)]
        BY <2>4 DEF Recount
      <4> QED  BY <4>1, <4>2 DEF Rows
    <3> QED  BY <2>2, <2>3, <2>4, <3>1, <3>2 DEF StatsExact
  <2>5. CASE threads' = threads /\ stale' = stale \cup Wrong({t})
    BY <2>2, <2>3, <2>5 DEF StatsExact, Wrong
  <2> QED  BY <2>1, <2>4, <2>5
<1> QED  BY <1>2, <1>3, <1>4, <1>5

\* Every step preserves the exactness of the statistics.
LEMMA NextExact == Inv /\ StatsExact /\ [Next]_vars => StatsExact'
<1> SUFFICES ASSUME Inv, StatsExact, [Next]_vars PROVE StatsExact'
  OBVIOUS
<1>1. ASSUME UNCHANGED <<threads, messages, sweep, stale>>
      PROVE  StatsExact'
  BY <1>1 DEF StatsExact, Pending
<1>2. CASE Write
  <2>1. CASE InsertParsedMessageBundle
    BY <2>1, InsertExact
  <2>2. CASE InsertFails
    BY <1>1, <2>2 DEF InsertFails
  <2>3. CASE \E m \in Mails : FindThreadByMessageIDs(m) \/ FindThreadBySubject(m)
    BY <1>1, <2>3 DEF FindThreadByMessageIDs, FindThreadBySubject
  <2> QED  BY <1>2, <2>1, <2>2, <2>3 DEF Write
<1>3. CASE Remove
  <2>1. PICK gone : Delete(gone) /\ sweep' = sweep
    BY <1>3 DEF Remove, DeleteMessagesByFolder, DeleteAccount
  <2> QED  BY <2>1, DeleteExact
<1>4. CASE User
  <2>1. PICK new : SetFlags(new)
    BY <1>4 DEF User, MarkRead, ToggleThreadFlagged
  <2> QED  BY <2>1, SetFlagsExact
<1>5. CASE Sweep
  BY <1>5, SweepExact DEF Sweep
<1>6. CASE Crash
  BY <1>6 DEF Crash, StatsExact, Pending, Wrong
<1>7. CASE UNCHANGED vars
  BY <1>1, <1>7 DEF vars
<1> QED  BY <1>2, <1>3, <1>4, <1>5, <1>6, <1>7 DEF Next

-----------------------------------------------------------------------------
(* Theorems.                                                               *)

\* Every row is of its type; in particular each message is in a thread that exists.
THEOREM TypeCorrectness == Spec => []TypeOK
BY Invariance, PTL DEF Inv

\* Whatever folder or account is deleted between the lookup of a thread and the
\* insertion into it, no thread is without a message, nor a message without its thread.
THEOREM ThreadsAreOfMessages == Spec => []NoGhosts
BY Invariance, PTL DEF Inv

\* Messages of two accounts share a thread only if a reference has brought them
\* together, although the lookup by subject is used a step after it is made.
THEOREM SubjectsDoNotMerge == Spec => []AccountsMeetByReference
<1>1. Inv => AccountsMeetByReference
  BY OneOwnerIsOne DEF Inv, Meeting, AccountsMeetByReference
<1> QED  BY <1>1, Invariance, PTL

\* The statistics of a thread are those of its messages, except where a sweep that is
\* under way or was cut short, or a deletion, accounts for it.
THEOREM StatisticsAreExact == Spec => []StatsExact
<1>1. Init => StatsExact
  <2>1. Init => DOMAIN threads = {}
    BY DEF Init
  <2> QED  BY <2>1 DEF StatsExact
<1> QED  BY <1>1, NextExact, Invariance, PTL DEF Spec

-----------------------------------------------------------------------------
(***************************************************************************)
(* Migrations. That the versions match the tables is not inductive: what a *)
(* process will do next must fit what another has recorded meanwhile,      *)
(* which is what InOrder says of it.                                       *)
(***************************************************************************)
\* The steps are recorded without a gap.
Gapless == \E k \in 0..Last : versions = 1..k

\* A process applies a step only when the one before it is recorded, and creates a table
\* of schema.sql only after those before it.
InOrder ==
  \A p \in Processes :
    /\ pc[p] = "apply" => next[p] >= 2 /\ next[p] - 1 \in versions
    /\ pc[p] = "create" => next[p] <= tables
    /\ pc[p] = "open" => Last \in versions

\* What a step repairs is sound once the step is recorded.
Repaired ==
  /\ unassigned => 2 \notin versions
  /\ drifted # {} => 4 \notin versions
  /\ ghosts # {} => 5 \notin versions

\* The second half of SchemaMatchesVersions.
Matching == added = versions \ {1} /\ (versions # {} => tables = Tables)

MigrationsInv == MigrationsTypeOK /\ Gapless /\ InOrder /\ Repaired /\ Matching

-----------------------------------------------------------------------------
\* The version that ReadVersion finds is the number of steps recorded.
LEMMA CurrentIsLast ==
  ASSUME NEW k \in 0..Last, versions = 1..k
  PROVE  Current = k
<1>1. CASE k = 0
  BY <1>1 DEF Current
<1>2. CASE k # 0
  <2>1. k \in 1..k /\ \A y \in 1..k : k >= y
    BY <1>2 DEF Last
  <2>2. Max(1..k) \in 1..k /\ \A y \in 1..k : Max(1..k) >= y
    BY <2>1, Zenon DEF Max
  <2>3. Max(1..k) = k
    BY <2>1, <2>2 DEF Last
  <2> QED  BY <1>2, <2>1, <2>3 DEF Current
<1> QED  BY <1>1, <1>2

\* An older version has left any content, and the tables of its versions.
LEMMA MigrationsInitially ==
  ASSUME MigrationsInit
  PROVE  MigrationsInv
<1>1. PICK v \in 0..Last :
        /\ versions = 1..v /\ added = 2..v
        /\ tables = IF v = 0 THEN 0 ELSE Tables
        /\ unassigned \in BOOLEAN /\ (unassigned => v = 1)
        /\ drifted \in SUBSET Threads /\ (drifted # {} => v \in 1..3)
        /\ ghosts \in SUBSET Threads /\ (ghosts # {} => v \in 1..4)
  BY DEF MigrationsInit
<1>2. MigrationsTypeOK
  BY <1>1, MigrationsAssumption DEF MigrationsInit, MigrationsTypeOK, Last
<1>3. Gapless
  BY <1>1 DEF Gapless
<1>4. Matching
  BY <1>1 DEF Matching, Last
<1>5. Repaired
  BY <1>1 DEF Repaired, Last
<1>6. InOrder
  BY DEF MigrationsInit, InOrder
<1> QED  BY <1>2, <1>3, <1>4, <1>5, <1>6 DEF MigrationsInv

\* A step that leaves the database alone keeps the invariant if the process it moves is
\* where it may be.
LEMMA Moving ==
  ASSUME MigrationsInv, NEW p \in Processes, NEW place, NEW n, Goes(p, place, n),
         UNCHANGED database, failures' \in 0..MaxFailures,
         place \in {"closed", "read", "create", "apply", "open"}, n \in 0..(Last + 1),
         place = "create" => n = 0,
         place = "apply" => n >= 2 /\ n - 1 \in versions,
         place = "open" => Last \in versions
  PROVE  MigrationsInv'
<1>1. /\ pc' \in [Processes -> {"closed", "read", "create", "apply", "open"}]
      /\ next' \in [Processes -> Nat]
      /\ \A q \in Processes : /\ pc'[q] = IF q = p THEN place ELSE pc[q]
                              /\ next'[q] = IF q = p THEN n ELSE next[q]
  BY DEF Goes, MigrationsInv, MigrationsTypeOK, Last
<1>2. MigrationsTypeOK'
  BY <1>1, MigrationsAssumption DEF MigrationsInv, MigrationsTypeOK, database, content, Last
<1>3. InOrder'
  BY <1>1, MigrationsAssumption DEF MigrationsInv, MigrationsTypeOK, InOrder, database, content
<1>4. Gapless' /\ Repaired' /\ Matching'
  BY DEF MigrationsInv, Gapless, Repaired, Matching, database, content
<1> QED  BY <1>2, <1>3, <1>4 DEF MigrationsInv

\* CREATE TABLE finds the tables before it and not its own, and adds one.
LEMMA Creating ==
  ASSUME MigrationsInv, NEW p \in Processes, CreateTable(p)
  PROVE  MigrationsInv'
<1> DEFINE n == next[p]
<1>1. CASE n < Tables /\ tables = n
  <2>1. /\ tables' = n + 1 /\ Goes(p, "create", n + 1)
        /\ UNCHANGED <<versions, added, content, failures>>
    BY <1>1, MigrationsAssumption DEF CreateTable, MigrationsInv, MigrationsTypeOK
  <2>2. versions = {} /\ n \in Nat
    BY <1>1 DEF MigrationsInv, MigrationsTypeOK, Matching
  <2>3. /\ pc' \in [Processes -> {"closed", "read", "create", "apply", "open"}]
        /\ next' \in [Processes -> Nat]
        /\ \A q \in Processes : /\ pc'[q] = IF q = p THEN "create" ELSE pc[q]
                                /\ next'[q] = IF q = p THEN n + 1 ELSE next[q]
    BY <2>1, <2>2 DEF Goes, MigrationsInv, MigrationsTypeOK
  <2>4. MigrationsTypeOK'
    BY <1>1, <2>1, <2>2, <2>3, MigrationsAssumption DEF MigrationsInv, MigrationsTypeOK, content
  <2>5. InOrder'
    BY <1>1, <2>1, <2>2, <2>3, MigrationsAssumption DEF MigrationsInv, MigrationsTypeOK, InOrder
  <2>6. Gapless' /\ Repaired' /\ Matching'
    BY <2>1, <2>2 DEF MigrationsInv, Gapless, Repaired, Matching, content
  <2> QED  BY <2>4, <2>5, <2>6 DEF MigrationsInv
<1>2. CASE n = Tables /\ 1 \notin versions
  <2>1. /\ versions' = versions \cup {1} /\ Goes(p, "apply", 2)
        /\ UNCHANGED <<tables, added, content, failures>> /\ pc[p] = "create"
    BY <1>2, MigrationsAssumption DEF CreateTable, MigrationsInv, MigrationsTypeOK
  <2>2. versions = {} /\ versions' = 1..1 /\ tables' = Tables
    BY <1>2, <2>1, MigrationsAssumption DEF MigrationsInv, MigrationsTypeOK, Gapless, InOrder,
       Last
  <2>3. /\ pc' \in [Processes -> {"closed", "read", "create", "apply", "open"}]
        /\ next' \in [Processes -> Nat]
        /\ \A q \in Processes : /\ pc'[q] = IF q = p THEN "apply" ELSE pc[q]
                                /\ next'[q] = IF q = p THEN 2 ELSE next[q]
    BY <2>1 DEF Goes, MigrationsInv, MigrationsTypeOK
  <2>4. MigrationsTypeOK'
    BY <2>1, <2>2, <2>3, MigrationsAssumption DEF MigrationsInv, MigrationsTypeOK, content, Last
  <2>5. InOrder'
    BY <2>1, <2>2, <2>3, MigrationsAssumption DEF MigrationsInv, MigrationsTypeOK, InOrder
  <2>6. Gapless'
    BY <2>2 DEF Gapless, Last
  <2>7. Repaired' /\ Matching'
    BY <2>1, <2>2 DEF MigrationsInv, MigrationsTypeOK, Repaired, Matching, content
  <2> QED  BY <2>4, <2>5, <2>6, <2>7 DEF MigrationsInv
<1>3. CASE (n < Tables /\ tables # n) \/ (n = Tables /\ 1 \in versions)
  <2>1. /\ Goes(p, "closed", 0)
        /\ UNCHANGED <<tables, versions, added, content, failures>>
    BY <1>3, MigrationsAssumption DEF CreateTable, MigrationsInv, MigrationsTypeOK
  <2> QED  BY <2>1, Moving DEF MigrationsInv, MigrationsTypeOK, Last, database, content
<1>4. n < Tables \/ n = Tables
  BY DEF CreateTable
<1> QED  BY <1>1, <1>2, <1>3, <1>4

\* The transaction of a step: it is the next one, or its version is there already.
LEMMA Applying ==
  ASSUME MigrationsInv, NEW p \in Processes, Apply(p)
  PROVE  MigrationsInv'
<1> DEFINE v == next[p]
<1>1. CASE v \in versions
  <2>1. Goes(p, "closed", 0) /\ UNCHANGED <<database, failures>>
    BY <1>1 DEF Apply, database, content
  <2> QED  BY <2>1, Moving DEF MigrationsInv, MigrationsTypeOK, Last
<1>2. CASE v \notin versions
  <2>1. /\ added' = added \cup {v} /\ versions' = versions \cup {v} /\ Repairs(v)
        /\ Goes(p, "apply", v + 1) /\ UNCHANGED <<tables, failures>>
    BY <1>2 DEF Apply
  <2>2. v \in 2..Last /\ v - 1 \in versions
    BY DEF Apply, MigrationsInv, MigrationsTypeOK, InOrder, Last
  <2>3. PICK k \in 0..Last : versions = 1..k
    BY DEF MigrationsInv, Gapless
  <2>4. v = k + 1 /\ versions' = 1..v
    BY <1>2, <2>1, <2>2, <2>3 DEF Last
  <2>5. /\ pc' \in [Processes -> {"closed", "read", "create", "apply", "open"}]
        /\ next' \in [Processes -> Nat]
        /\ \A q \in Processes : /\ pc'[q] = IF q = p THEN "apply" ELSE pc[q]
                                /\ next'[q] = IF q = p THEN v + 1 ELSE next[q]
    BY <2>1, <2>2 DEF Goes, MigrationsInv, MigrationsTypeOK, Last
  <2>6. MigrationsTypeOK'
    <3>1. /\ tables' \in 0..Tables /\ failures' \in 0..MaxFailures
          /\ added' \subseteq 2..Last /\ versions' \subseteq 1..Last
      BY <2>1, <2>2, <2>4 DEF MigrationsInv, MigrationsTypeOK, Last
    <3>2. unassigned' \in BOOLEAN /\ drifted' \subseteq Threads /\ ghosts' \subseteq Threads
      BY <2>1 DEF MigrationsInv, MigrationsTypeOK, Repairs
    <3>3. \A q \in Processes : next'[q] <= IF pc'[q] = "create" THEN Tables ELSE Last + 1
      BY <2>2, <2>5 DEF MigrationsInv, MigrationsTypeOK, Last
    <3> QED  BY <2>5, <3>1, <3>2, <3>3 DEF MigrationsTypeOK
  <2>7. InOrder'
    BY <2>1, <2>2, <2>4, <2>5 DEF MigrationsInv, MigrationsTypeOK, InOrder, Last
  <2>8. Gapless'
    <3>1. v \in 0..Last
      BY <2>2 DEF Last
    <3> QED  BY <2>4, <3>1, Zenon DEF Gapless
  <2>9. Repaired'
    BY <2>1, <2>2, <2>3, <2>4 DEF MigrationsInv, MigrationsTypeOK, Repaired, Repairs, Last
  <2>10. Matching'
    BY <2>1, <2>2, <2>3, <2>4 DEF MigrationsInv, Matching, Last
  <2> QED  BY <2>6, <2>7, <2>8, <2>9, <2>10 DEF MigrationsInv
<1> QED  BY <1>1, <1>2

\* Every step of a process keeps the inductive invariant, and so does one that fails.
LEMMA MigrationsKept ==
  ASSUME MigrationsInv, [MigrationsNext]_migrationsVars
  PROVE  MigrationsInv'
<1>1. CASE MigrationsNext
  <2>1. PICK p \in Processes : Works(p) \/ Fails(p) \/ Close(p)
    BY <1>1 DEF MigrationsNext
  <2>2. CASE Start(p)
    BY <2>2, Moving DEF Start, MigrationsInv, MigrationsTypeOK, Last, database, content
  <2>3. CASE ReadVersion(p)
    <3>1. PICK k \in 0..Last : versions = 1..k
      BY DEF MigrationsInv, Gapless
    <3>2. Current = k
      BY <3>1, CurrentIsLast
    <3>3. CASE k = 0
      BY <2>3, <3>2, <3>3, Moving DEF ReadVersion, MigrationsInv, MigrationsTypeOK, Last
    <3>4. CASE k # 0
      <4>1. Goes(p, "apply", k + 1) /\ UNCHANGED <<database, failures>>
        BY <2>3, <3>2, <3>4 DEF ReadVersion
      <4>2. k + 1 \in 0..(Last + 1) /\ k + 1 >= 2 /\ (k + 1) - 1 \in versions
        BY <3>1, <3>4 DEF Last
      <4> QED  BY <4>1, <4>2, Moving DEF MigrationsInv, MigrationsTypeOK
    <3> QED  BY <3>3, <3>4
  <2>4. CASE CreateTable(p)
    BY <2>4, Creating
  <2>5. CASE Apply(p)
    BY <2>5, Applying
  <2>6. CASE Opened(p)
    <3>1. Last \in versions
      BY <2>6 DEF Opened, MigrationsInv, MigrationsTypeOK, InOrder, Last
    <3> QED  BY <2>6, <3>1, Moving DEF Opened, MigrationsInv, MigrationsTypeOK, Last
  <2>7. CASE Fails(p)
    <3>1. failures' \in 0..MaxFailures /\ Goes(p, "closed", 0) /\ UNCHANGED database
      BY <2>7, MigrationsAssumption DEF Fails, Failure, MigrationsInv, MigrationsTypeOK
    <3> QED  BY <3>1, Moving DEF Last
  <2>8. CASE Close(p)
    BY <2>8, Moving DEF Close, MigrationsInv, MigrationsTypeOK, Last
  <2> QED  BY <2>1, <2>2, <2>3, <2>4, <2>5, <2>6, <2>7, <2>8 DEF Works
<1>2. CASE UNCHANGED migrationsVars
  BY <1>2 DEF MigrationsInv, MigrationsTypeOK, Gapless, InOrder, Repaired, Matching, migrationsVars, database, content
<1> QED  BY <1>1, <1>2

\* The inductive invariant holds of every behaviour.
LEMMA MigrationsInvariance == MigrationsSpec => []MigrationsInv
<1>1. MigrationsInit => MigrationsInv
  BY MigrationsInitially
<1>2. MigrationsInv /\ [MigrationsNext]_migrationsVars => MigrationsInv'
  BY MigrationsKept
<1> QED  BY <1>1, <1>2, PTL DEF MigrationsSpec

-----------------------------------------------------------------------------
\* The state of Migrations keeps its type, however many processes open the database.
THEOREM MigrationsTypeCorrectness == MigrationsSpec => []MigrationsTypeOK
<1>1. MigrationsInv => MigrationsTypeOK
  BY DEF MigrationsInv
<1> QED  BY <1>1, MigrationsInvariance, PTL

\* storage.migrate leaves no step half done: tables and columns are those of the recorded
\* versions, whatever fails and however many processes migrate at once.
THEOREM SchemaIsThatOfItsVersions == MigrationsSpec => []SchemaMatchesVersions
<1>1. MigrationsInv => SchemaMatchesVersions
  <2> SUFFICES ASSUME MigrationsInv PROVE SchemaMatchesVersions
    OBVIOUS
  <2>1. PICK k \in 0..Last : versions = 1..k
    BY DEF MigrationsInv, Gapless
  <2>2. Cardinality(1..k) = k
    <3>1. k \in Int /\ 1 \in Int
      BY <2>1 DEF Last
    <3>2. Cardinality(1..k) = IF 1 > k THEN 0 ELSE k - 1 + 1
      BY <3>1, FS_Interval, Zenon
    <3> QED  BY <2>1, <3>2 DEF Last
  <2> QED  BY <2>1, <2>2 DEF MigrationsInv, Matching, SchemaMatchesVersions
<1> QED  BY <1>1, MigrationsInvariance, PTL

\* storage.Open returns on a database of the last version, in which no account is without
\* a profile, no thread's statistics are wrong and no thread is empty, whatever an older
\* version has left and another process does meanwhile.
THEOREM OpenFindsItMigrated == MigrationsSpec => []OpenIsMigrated
<1>1. MigrationsInv => OpenIsMigrated
  <2> SUFFICES ASSUME MigrationsInv, NEW p \in Processes, pc[p] = "open"
               PROVE  versions = 1..Last /\ ~unassigned /\ drifted = {} /\ ghosts = {}
    BY DEF OpenIsMigrated
  <2>1. Last \in versions
    BY DEF MigrationsInv, InOrder
  <2>2. versions = 1..Last
    BY <2>1 DEF MigrationsInv, Gapless, Last
  <2> QED  BY <2>2 DEF MigrationsInv, MigrationsTypeOK, Repaired, Last
<1> QED  BY <1>1, MigrationsInvariance, PTL
=============================================================================
