------------------------------ MODULE ThreadStore -----------------------------
(***************************************************************************)
(* Conversations: how the store writer puts a message into a thread, and   *)
(* what keeps the statistics of a thread right. StoreWriter.process looks  *)
(* the thread up in two reads outside its transaction; flag sweeps write a *)
(* message at a time and recount the threads afterwards; folders and       *)
(* accounts are deleted under both.                                        *)
(*                                                                         *)
(* A mail is a message of one folder on the server; what its headers say   *)
(* are constants. Several mails may have one Message-ID: copies.           *)
(***************************************************************************)
EXTENDS Integers, Sequences, FiniteSetsExt

CONSTANTS
  Mails, Folders, Accounts,
  FolderOf,     \* [Mails -> Folders]
  AccountOf,    \* [Folders -> Accounts]
  MessageId,    \* [Mails -> message ids]
  References,   \* [Mails -> sets of message ids]: References and In-Reply-To
  Subject,      \* [Mails -> sequences of words]
  Date,         \* [Mails -> Nat], in days
  HasAttachments,
  Window,       \* days within which a subject stands for a conversation
  CondStore,    \* accounts whose server supports it: the others are not swept
  ServerFlags,  \* sets of flags the server may give a message
  MaxRequests,  \* bound: the user's changes of flags
  MaxFaults     \* bound: deletions, sweeps cut short, statistics not written

ASSUME ConstantsAssumption ==
  /\ IsFiniteSet(Mails)
  /\ FolderOf \in [Mails -> Folders] /\ AccountOf \in [Folders -> Accounts]
  /\ Date \in [Mails -> Nat] /\ HasAttachments \in [Mails -> BOOLEAN]
  /\ Window \in Nat /\ MaxRequests \in Nat /\ MaxFaults \in Nat
  /\ ServerFlags \subseteq SUBSET {"Seen", "Flagged"}

VARIABLES
  accounts,  \* the rows of accounts
  threads,   \* the rows of threads: their statistics, by row id
  messages,  \* the rows of messages: thread and flags
  writer,    \* StoreWriter.process: where it is, its message, the thread found
  sweep,     \* syncFlagDeltas of each account
  requests,  \* changes by the user so far
  faults,    \* faults so far
  \* History.
  stale,     \* threads whose statistics were left wrong
  bridged    \* threads that a reference from another account has joined

vars == <<accounts, threads, messages, writer, sweep, requests, faults, stale, bridged>>

Flags == SUBSET {"Seen", "Flagged"}
Owner(m) == AccountOf[FolderOf[m]]
NoThread == 0

Fault == faults < MaxFaults /\ faults' = faults + 1

PrefixWords == {"re:", "fwd:", "fw:", "antw:", "aw:", "rv:", "tr:"}

\* Strips the leading prefix words; case and white space are not represented.
NormalizeSubject(s) ==
  LET topic == {i \in DOMAIN s : s[i] \notin PrefixWords}
  IN IF topic = {} THEN <<>> ELSE SubSeq(s, Min(topic), Len(s))

Members(msgs, t) == {m \in DOMAIN msgs : msgs[m].thread = t}

\* The accounts with a message in the thread.
Owners(msgs, t) == {Owner(m) : m \in Members(msgs, t)}

\* updateThreadStats: what the row of a thread says of its messages.
Stats(msgs, t) ==
  LET own == Members(msgs, t) IN
  [last    |-> IF own = {} THEN 0 ELSE Max({Date[m] : m \in own}),
   count   |-> Cardinality(own),
   unread  |-> Cardinality({m \in own : "Seen" \notin msgs[m].flags}),
   flagged |-> \E m \in own : "Flagged" \in msgs[m].flags,
   attach  |-> \E m \in own : HasAttachments[m]]

\* updateThreadStats on a set of threads: rows that are gone are not found.
Recount(rows, msgs, ids) ==
  [t \in DOMAIN rows |-> IF t \in ids THEN [rows[t] EXCEPT !.stats = Stats(msgs, t)]
                                      ELSE rows[t]]

\* INTEGER PRIMARY KEY: one more than the largest id in use.
NextId == IF DOMAIN threads = {} THEN 1 ELSE Max(DOMAIN threads) + 1

Idle == [pc |-> "idle"]
NoSweep == [pc |-> "idle", touched |-> {}]

Counters == [last : Nat, count : Nat, unread : Nat, flagged : BOOLEAN, attach : BOOLEAN]

TypeOK ==
  /\ accounts \subseteq Accounts
  /\ threads \in [DOMAIN threads -> [subject : {NormalizeSubject(Subject[m]) : m \in Mails},
                                    stats : Counters]]
  /\ messages \in [DOMAIN messages -> [thread : DOMAIN threads, flags : Flags]]
  /\ DOMAIN threads \subseteq Nat \ {NoThread}
  /\ DOMAIN messages \subseteq {m \in Mails : Owner(m) \in accounts}
  /\ writer \in {Idle} \cup [pc : {"subject"}, mail : Mails]
                       \cup [pc : {"insert"}, mail : Mails, thread : Nat,
                            by : {"refs", "subject"}]
  /\ sweep \in [Accounts -> [pc : {"idle", "apply", "stats"}, touched : SUBSET Nat]]
  /\ requests \in 0..MaxRequests /\ faults \in 0..MaxFaults
  /\ stale \subseteq DOMAIN threads /\ bridged \subseteq DOMAIN threads

Init ==
  /\ accounts = Accounts /\ threads = <<>> /\ messages = <<>>
  /\ writer = Idle /\ sweep = [a \in Accounts |-> NoSweep]
  /\ requests = 0 /\ faults = 0 /\ stale = {} /\ bridged = {}

-----------------------------------------------------------------------------
(* StoreWriter.process.                                                    *)

\* What a lookup has found, and which of the two it was.
Found(m, t, read) == [pc |-> "insert", mail |-> m, thread |-> t, by |-> read]

\* The threads of the messages referred to, of whatever account.
Referred(m) == {messages[n].thread : n \in {k \in DOMAIN messages : MessageId[k] \in References[m]}}

\* Any one of them. A read that fails counts as a miss.
FindThreadByMessageIDs(m) ==
  /\ writer = Idle /\ References[m] # {}
  /\ \/ /\ \E t \in Referred(m) : writer' = Found(m, t, "refs")
        /\ UNCHANGED faults
     \/ /\ writer' = [pc |-> "subject", mail |-> m]
        /\ IF Referred(m) = {} THEN UNCHANGED faults ELSE Fault
  /\ UNCHANGED <<accounts, threads, messages, sweep, stale, bridged, requests>>

\* Mutant: the lookup is not scoped to the account.
AnyAccountsSubject(m) ==
  {t \in DOMAIN threads :
     /\ NormalizeSubject(Subject[m]) # <<>>
     /\ threads[t].subject = NormalizeSubject(Subject[m])
     /\ threads[t].stats.last \in Date[m] - Window .. Date[m] + Window}

\* Threads of the same subject, of about the same time, that own a message of the
\* account.
SameSubject(m) ==
  {t \in DOMAIN threads :
     /\ NormalizeSubject(Subject[m]) # <<>>
     /\ threads[t].subject = NormalizeSubject(Subject[m])
     /\ threads[t].stats.last \in Date[m] - Window .. Date[m] + Window
     /\ \E n \in Members(messages, t) : Owner(n) = Owner(m)}

\* The one with the latest message, likewise.
FindThreadBySubject(m) ==
  /\ IF References[m] = {} THEN writer = Idle ELSE writer = [pc |-> "subject", mail |-> m]
  /\ \/ /\ \E t \in SameSubject(m) :
             /\ \A u \in SameSubject(m) : threads[u].stats.last <= threads[t].stats.last
             /\ writer' = Found(m, t, "subject")
        /\ UNCHANGED faults
     \/ /\ writer' = Found(m, NoThread, "subject")
        /\ IF SameSubject(m) = {} THEN UNCHANGED faults ELSE Fault
  /\ UNCHANGED <<accounts, threads, messages, sweep, stale, bridged, requests>>

\* Mutant: the foreign keys are not enforced.
InsertableUnchecked(m, t) == m \notin DOMAIN messages

\* The foreign keys and UNIQUE(account_id, folder_id, uid).
Insertable(m, t) ==
  /\ Owner(m) \in accounts
  /\ m \notin DOMAIN messages
  /\ t \in DOMAIN threads \cup {NoThread}

\* The transaction of thread, message and statistics.
InsertParsedMessageBundle ==
  /\ writer.pc = "insert" /\ Insertable(writer.mail, writer.thread)
  /\ LET m == writer.mail
         t == IF writer.thread = NoThread THEN NextId ELSE writer.thread
     IN \E fl \in ServerFlags :
          LET msgs == [n \in DOMAIN messages \cup {m} |->
                         IF n = m THEN [thread |-> t, flags |-> fl] ELSE messages[n]]
              row  == IF writer.thread = NoThread
                      THEN [subject |-> NormalizeSubject(Subject[m]), stats |-> Stats(msgs, t)]
                      ELSE [threads[t] EXCEPT !.stats = Stats(msgs, t)]
          IN /\ messages' = msgs
             /\ threads' = [u \in DOMAIN threads \cup {t} |-> IF u = t THEN row ELSE threads[u]]
         /\ stale' = stale \ {t}
         /\ bridged' = IF writer.by = "refs" /\ Owner(m) \notin Owners(messages, t)
                       THEN bridged \cup {t} ELSE bridged
  /\ writer' = Idle
  /\ UNCHANGED <<accounts, sweep, faults, requests>>

\* The rollback: the message is dropped.
InsertFails ==
  /\ writer.pc = "insert"
  /\ IF Insertable(writer.mail, writer.thread) THEN Fault ELSE UNCHANGED faults
  /\ writer' = Idle
  /\ UNCHANGED <<accounts, threads, messages, sweep, stale, bridged, requests>>

-----------------------------------------------------------------------------
(* Deletions.                                                              *)

\* Mutant: rows of threads are left without a message.
DeleteKeepingThreads(gone) ==
  /\ messages' = [m \in DOMAIN messages \ gone |-> messages[m]]
  /\ threads' = threads
  /\ stale' = stale \cup {messages[m].thread : m \in gone}
  /\ bridged' = bridged

\* The messages, and with deleteOrphanThreads the threads that had no others. The
\* statistics of a thread that keeps some are not looked at.
Delete(gone) ==
  LET msgs == [m \in DOMAIN messages \ gone |-> messages[m]]
      kept == {msgs[m].thread : m \in DOMAIN msgs}
  IN /\ messages' = msgs
     /\ threads' = [t \in kept |-> threads[t]]
     /\ stale' = kept \cap (stale \cup {messages[m].thread : m \in gone})
     /\ bridged' = kept \cap bridged

\* UIDVALIDITY has changed.
DeleteMessagesByFolder(f) ==
  /\ Fault
  /\ Delete({m \in DOMAIN messages : FolderOf[m] = f})
  /\ UNCHANGED <<accounts, writer, sweep, requests>>

DeleteAccount(a) ==
  /\ Fault
  /\ a \in accounts
  /\ accounts' = accounts \ {a}
  /\ Delete({m \in DOMAIN messages : Owner(m) = a})
  /\ UNCHANGED <<writer, sweep, requests>>

-----------------------------------------------------------------------------
(* Flags: the user's changes, and the sweeps.                              *)

\* Mutant: the statistics are not recounted.
SetFlagsUncounted(new) ==
  /\ messages' = [m \in DOMAIN messages |->
                    IF m \in DOMAIN new THEN [messages[m] EXCEPT !.flags = new[m]] ELSE messages[m]]
  /\ requests < MaxRequests /\ requests' = requests + 1
  /\ UNCHANGED <<accounts, threads, writer, sweep, stale, bridged, faults>>

\* One transaction: new flags, then the statistics of the threads they are in.
SetFlags(new) ==
  LET msgs == [m \in DOMAIN messages |->
                 IF m \in DOMAIN new THEN [messages[m] EXCEPT !.flags = new[m]] ELSE messages[m]]
      ids  == {messages[m].thread : m \in DOMAIN new}
  IN /\ messages' = msgs
     /\ threads' = Recount(threads, msgs, ids)
     /\ stale' = stale \ ids
     /\ requests < MaxRequests /\ requests' = requests + 1
     /\ UNCHANGED <<accounts, writer, sweep, bridged, faults>>

\* MarkMessagesRead of a list of messages, or MarkFolderMessagesRead.
MarkRead(S) ==
  SetFlags([m \in {n \in S : "Seen" \notin messages[n].flags} |->
              messages[m].flags \cup {"Seen"}])

\* Unstar every starred message of the thread, or star the latest one.
ToggleThreadFlagged(t) ==
  LET own     == Members(messages, t)
      starred == {m \in own : "Flagged" \in messages[m].flags}
  IN IF starred # {}
     THEN SetFlags([m \in starred |-> messages[m].flags \ {"Flagged"}])
     ELSE \E m \in own : /\ \A n \in own : Date[n] <= Date[m]
                         /\ SetFlags([n \in {m} |-> messages[n].flags \cup {"Flagged"}])

BeginSweep(a) ==
  /\ sweep[a].pc = "idle" /\ a \in accounts \cap CondStore
  /\ sweep' = [sweep EXCEPT ![a].pc = "apply"]
  /\ UNCHANGED <<accounts, threads, messages, writer, stale, bridged, faults, requests>>

\* The server reports a change, and it is applied in a transaction of its own. Those
\* of messages that are not stored or have these flags already are passed over.
UpdateFlagsByUID(a) ==
  /\ sweep[a].pc = "apply"
  /\ \E m \in DOMAIN messages, fl \in ServerFlags :
       /\ Owner(m) = a /\ messages[m].flags # fl
       /\ messages' = [messages EXCEPT ![m].flags = fl]
       /\ sweep' = [sweep EXCEPT ![a].touched = @ \cup {messages[m].thread}]
  /\ UNCHANGED <<accounts, threads, writer, stale, bridged, faults, requests>>

\* The answer is complete.
Fetched(a) ==
  /\ sweep[a].pc = "apply"
  /\ sweep' = [sweep EXCEPT ![a].pc = IF sweep[a].touched = {} THEN "idle" ELSE "stats"]
  /\ UNCHANGED <<accounts, threads, messages, writer, stale, bridged, faults, requests>>

\* Threads whose statistics are wrong.
Wrong(ids) == {t \in ids \cap DOMAIN threads : threads[t].stats # Stats(messages, t)}

\* The fetch fails: syncFlagDeltas returns, and what it changed is not recounted.
FetchFails(a) ==
  /\ Fault
  /\ sweep[a].pc = "apply"
  /\ stale' = stale \cup Wrong(sweep[a].touched)
  /\ sweep' = [sweep EXCEPT ![a] = NoSweep]
  /\ UNCHANGED <<accounts, threads, messages, writer, bridged, requests>>

\* After the fetch, a thread at a time; a failure is logged.
UpdateThreadStats(a) ==
  /\ sweep[a].pc = "stats"
  /\ \E t \in sweep[a].touched :
       /\ sweep' = [sweep EXCEPT ![a] = IF @.touched = {t} THEN NoSweep
                                        ELSE [pc |-> "stats", touched |-> @.touched \ {t}]]
       /\ \/ threads' = Recount(threads, messages, {t}) /\ stale' = stale \ {t} /\ UNCHANGED faults
          \/ Fault /\ threads' = threads /\ stale' = stale \cup Wrong({t})
  /\ UNCHANGED <<accounts, messages, writer, bridged, requests>>

\* The process stops between two transactions, and starts again.
Crash ==
  /\ Fault
  /\ writer' = Idle /\ sweep' = [a \in Accounts |-> NoSweep]
  /\ stale' = stale \cup Wrong(UNION {sweep[a].touched : a \in Accounts})
  /\ UNCHANGED <<accounts, threads, messages, bridged, requests>>

-----------------------------------------------------------------------------
Write  == \/ \E m \in Mails : FindThreadByMessageIDs(m) \/ FindThreadBySubject(m)
          \/ InsertParsedMessageBundle \/ InsertFails
Remove == \/ \E f \in Folders : DeleteMessagesByFolder(f)
          \/ \E a \in Accounts : DeleteAccount(a)
User   == \/ \E f \in Folders : MarkRead({m \in DOMAIN messages : FolderOf[m] = f})
          \/ \E t \in DOMAIN threads : MarkRead(Members(messages, t))
          \/ \E t \in DOMAIN threads : ToggleThreadFlagged(t)
Sweep  == \E a \in Accounts :
            \/ BeginSweep(a) \/ UpdateFlagsByUID(a) \/ Fetched(a) \/ FetchFails(a)
            \/ UpdateThreadStats(a)

Next == Write \/ Remove \/ User \/ Sweep \/ Crash
Spec == Init /\ [][Next]_vars

\* Passes follow one another and their sweeps come to an end.
FairSpec == Spec /\ \A a \in CondStore : WF_vars(BeginSweep(a)) /\ WF_vars(Fetched(a))
                                         /\ WF_vars(UpdateThreadStats(a))

-----------------------------------------------------------------------------
(* Properties.                                                             *)

Pending(t) == \E a \in Accounts : t \in sweep[a].touched

\* The statistics of a thread, by which the list is sorted and filtered, are those
\* of its messages: unless a sweep is about to recount it, was interrupted before,
\* or some of its messages were deleted and no other change has followed.
StatsExact ==
  \A t \in DOMAIN threads :
    threads[t].stats = Stats(messages, t) \/ Pending(t) \/ t \in stale

\* No thread without a message, the ghosts that migration 5 removed, and no message
\* without its thread, whatever is deleted between a lookup and the insert.
NoGhosts == DOMAIN threads = {messages[m].thread : m \in DOMAIN messages}

\* "The account scope prevents two unrelated messages in different accounts from
\* silently merging into one thread": only a reference brings two accounts together.
AccountsMeetByReference ==
  \A t \in DOMAIN threads : Cardinality(Owners(messages, t)) > 1 => t \in bridged

\* A message marked read elsewhere is sooner or later taken off the unread count of
\* its thread, provided no message of the thread was deleted.
\* ThreadStore does not satisfy this: see the README on interrupted sweeps.
SeenIsCounted ==
  []<>(\A t \in DOMAIN threads :
         \/ threads[t].stats.count # Cardinality(Members(messages, t))
         \/ threads[t].stats.unread = Stats(messages, t).unread)
=============================================================================
