---------------------------------- MODULE View ---------------------------------
(***************************************************************************)
(* The mail view of the frontend: the list of threads of a filter, and the *)
(* open thread, refetched upon the events of the stream. Every handler is  *)
(* an asynchronous function: between a request and its answer the user may *)
(* have gone on, and answers come in any order. Events are dropped by the  *)
(* emitter and lost with the connection.                                   *)
(*                                                                         *)
(* The messages of a thread are numbered; what is read of them is a prefix.*)
(***************************************************************************)
EXTENDS EventBus, FiniteSets, FiniteSetsExt, Functions

CONSTANTS
  Threads, Profiles,
  ProfileOf,  \* of each thread
  Unread,     \* threads with unread mail at the start
  MaxTasks,   \* bound: asynchronous functions at work at a time
  MaxMail,    \* bound: messages that arrive
  MaxMoves    \* bound: actions of the user, here and elsewhere

\* No thread, no profile.
None == "none"

ASSUME ViewAssumption ==
  /\ IsFiniteSet(Threads) /\ ProfileOf \in [Threads -> Profiles] /\ Unread \subseteq Threads
  /\ None \notin Threads \cup Profiles
  /\ MaxTasks \in Nat \ {0}
  /\ MaxMail \in Nat /\ MaxMoves \in Nat

VARIABLES
  mail, seen,  \* the database: the messages of each thread, those of them read
  unsent,      \* the event of the last change by the synchronisation is yet to be emitted
  connected,   \* the event stream, whose channel is the subscriber's
  view,        \* the filter and its list, and history: when it was read, when it is to be
  open,        \* the open thread, its messages, whether any of them is unread
  focused,     \* document.hasFocus
  lastLink,    \* App's openedDeepLink
  tasks,       \* the asynchronous functions at work
  known,       \* history: the messages of each thread that the user has seen
  clock,       \* history: counts the changes of the database
  moves

database == <<mail, seen, clock>>
stream == <<unsent, channel, connected>>
bounds == <<moves, faults>>
viewVars == <<database, stream, view, open, focused, lastLink, tasks, known, bounds>>

Slots == 1..MaxTasks
Scopes == [profile : Profiles, unreadOnly : BOOLEAN]

\* storage.ListThreads: the threads of a filter, with their unread messages.
List(s) ==
  [t \in {t \in Threads : ProfileOf[t] = s.profile /\ (s.unreadOnly => seen[t] < mail[t])}
     |-> mail[t] - seen[t]]

Nowhere == [profile |-> None, unreadOnly |-> FALSE]
Closed == [id |-> None, upto |-> 0, unread |-> FALSE]
Idle == [kind |-> "idle", pc |-> "idle", scope |-> Nowhere, list |-> <<>>, id |-> None, upto |-> 0,
         unread |-> FALSE, stale |-> FALSE, at |-> 0]
Kinds == {"idle", "event", "page", "click", "link", "focus"}
Steps == {"idle", "list", "listed", "get", "got", "mark", "emit", "marked"}

\* Types; the list is of the active profile.
ViewTypeOK ==
  /\ mail \in [Threads -> Nat] /\ seen \in [Threads -> Nat]
  /\ \A t \in Threads : seen[t] <= mail[t]
  /\ unsent \in BOOLEAN /\ connected \in BOOLEAN /\ focused \in BOOLEAN
  /\ Len(channel) <= Capacity /\ (~connected => channel = <<>>)
  /\ view.scope \in Scopes /\ clock \in Nat /\ view.at \in 0..clock /\ view.owed \in 0..clock
  /\ \A t \in DOMAIN view.list : ProfileOf[t] = view.scope.profile
  /\ open.id \in Threads \cup {None} /\ open.upto \in Nat
  /\ lastLink \in Threads \cup {None}
  /\ \A i \in Slots : /\ tasks[i].kind \in Kinds /\ tasks[i].pc \in Steps
                      /\ (tasks[i].pc \in {"list", "listed"}) = (tasks[i].scope # Nowhere)
                      /\ (tasks[i].pc \in {"get", "got", "mark", "emit", "marked"})
                           = (tasks[i].id # None)
  /\ moves \in 0..MaxMoves /\ faults \in 0..MaxFaults

\* Bootstrapped: a list is shown, of threads with one message each.
ViewInit ==
  /\ mail = [t \in Threads |-> 1] /\ seen = [t \in Threads |-> IF t \in Unread THEN 0 ELSE 1]
  /\ unsent = FALSE /\ channel = <<>> /\ connected = TRUE
  /\ \E p \in Profiles :
       LET s == [profile |-> p, unreadOnly |-> FALSE]
       IN view = [scope |-> s, list |-> List(s), at |-> 1, owed |-> 0]
  /\ open = Closed /\ focused = TRUE /\ lastLink = None
  /\ tasks = [i \in Slots |-> Idle]
  /\ known = seen /\ clock = 1
  /\ moves = 0 /\ faults = 0

-----------------------------------------------------------------------------
Move == moves < MaxMoves /\ moves' = moves + 1

Owing(v) == [v EXCEPT !.owed = clock]
Becomes(i, task) == tasks' = [tasks EXCEPT ![i] = task]

Free == {i \in Slots : tasks[i] = Idle}
Starts(task) == Free # {} /\ Becomes(Min(Free), task)
Listing(kind, s) == [Idle EXCEPT !.kind = kind, !.pc = "list", !.scope = s]
Getting(kind, t) == [Idle EXCEPT !.kind = kind, !.pc = "get", !.id = t]
Marking(kind, msgs) ==
  [Idle EXCEPT !.kind = kind, !.pc = "mark", !.id = msgs.id, !.upto = msgs.upto]

Sees(t, upto) == known' = [known EXCEPT ![t] = Max({@, upto})]

-----------------------------------------------------------------------------
(* The backend, and the stream of events.                                  *)

\* The view is owed an event that is dropped.
EmitEvent ==
  IF connected /\ ~IsFull(channel)
  THEN channel' = Send(channel, "event") /\ UNCHANGED view
  ELSE view' = Owing(view) /\ UNCHANGED channel

Arrive(t) ==
  /\ FoldFunction(+, 0, mail) < Cardinality(Threads) + MaxMail
  /\ ~unsent /\ unsent' = TRUE
  /\ mail' = [mail EXCEPT ![t] = @ + 1] /\ clock' = clock + 1
  /\ UNCHANGED <<seen, channel, connected, view, open, focused, lastLink, tasks, known, bounds>>

\* The sweep finds what was read on another device.
ReadElsewhere(t) ==
  /\ Move
  /\ seen[t] < mail[t]
  /\ ~unsent /\ unsent' = TRUE
  /\ seen' = [seen EXCEPT ![t] = mail[t]] /\ Sees(t, mail[t])
  /\ clock' = clock + 1
  /\ UNCHANGED <<mail, channel, connected, view, open, focused, lastLink, tasks, faults>>

EmitUnsent ==
  /\ unsent /\ unsent' = FALSE
  /\ EmitEvent
  /\ UNCHANGED <<database, connected, open, focused, lastLink, tasks, known, bounds>>

\* HTTP.sse returns upon a write that fails: its subscription goes with what is in it.
Disconnect ==
  /\ Fault
  /\ connected /\ connected' = FALSE /\ channel' = <<>>
  /\ view' = IF channel # <<>> THEN Owing(view) ELSE view
  /\ UNCHANGED <<database, unsent, open, focused, lastLink, tasks, known, moves>>

\* EventSource connects again, and nothing is refetched.
Reconnect ==
  /\ ~connected /\ connected' = TRUE
  /\ UNCHANGED <<database, unsent, channel, view, open, focused, lastLink, tasks, known, bounds>>

\* The handler takes the filter as it is now.
EventArrives ==
  /\ channel # <<>> /\ channel' = Tail(channel)
  /\ Starts(Listing("event", view.scope))
  /\ UNCHANGED <<database, unsent, connected, view, open, focused, lastLink, known, bounds>>

-----------------------------------------------------------------------------
(* The list.                                                               *)

TaskOnly == UNCHANGED <<stream, focused, lastLink, moves>>

AnswerList(i) ==
  /\ tasks[i].pc = "list"
  /\ Becomes(i, [tasks[i] EXCEPT !.pc = "listed", !.list = List(tasks[i].scope), !.at = clock])
  /\ TaskOnly /\ UNCHANGED <<database, view, open, known, faults>>

\* The rejection ends the handler.
ListFails(i) ==
  /\ Fault
  /\ tasks[i].pc = "list" /\ Becomes(i, Idle)
  /\ view' = Owing(view)
  /\ TaskOnly /\ UNCHANGED <<database, open, known>>

\* Mutant: whatever was asked for is shown.
AppliesAny(task) == TRUE

\* The event handler compares the filters, fetchThreads the generations.
Applies(task) == IF task.kind = "event" THEN task.scope = view.scope ELSE ~task.stale

\* The list as of when it was read. It is owed what a later one showed.
Shows(list, at) ==
  [view EXCEPT !.list = list, !.at = at, !.owed = IF at < view.at THEN Max({@, view.at}) ELSE @]

\* setThreads; the event handler goes on to the open thread.
ListArrives(i) ==
  LET task == tasks[i] IN
  /\ task.pc = "listed"
  /\ view' = IF Applies(task) THEN Shows(task.list, task.at) ELSE view
  /\ Becomes(i, IF task.kind = "event" /\ open.id # None THEN Getting("event", open.id) ELSE Idle)
  /\ TaskOnly /\ UNCHANGED <<database, open, known, faults>>

-----------------------------------------------------------------------------
(* The open thread.                                                        *)

AnswerThread(i) ==
  LET t == tasks[i].id IN
  /\ tasks[i].pc = "get"
  /\ Becomes(i, [tasks[i] EXCEPT !.pc = "got", !.upto = mail[t], !.unread = seen[t] < mail[t]])
  /\ TaskOnly /\ UNCHANGED <<database, view, open, known, faults>>

GetFails(i) ==
  /\ Fault
  /\ tasks[i].pc = "get" /\ Becomes(i, Idle)
  /\ TaskOnly /\ UNCHANGED <<database, view, open, known>>

\* Mutant: the thread is not checked again after the answer.
StillWantedAny(task) == TRUE

\* A click on a row asks nothing; the others must find the thread still open.
StillWanted(task) == task.kind = "click" \/ open.id = task.id

\* Mutant: mail is marked read behind the user's back.
MarksAlways(task) == task.unread

\* Mail that lands in the open thread is marked read if the window has the focus.
Marks(task) == task.unread /\ (task.kind = "event" => focused)

ThreadArrives(i) ==
  LET task == tasks[i]
      msgs == [id |-> task.id, upto |-> task.upto, unread |-> task.unread]
  IN /\ task.pc = "got"
     /\ IF StillWanted(task)
        THEN /\ open' = msgs
             /\ IF focused \/ task.kind # "event" THEN Sees(task.id, task.upto) ELSE UNCHANGED known
             /\ Becomes(i, IF Marks(task) THEN Marking(task.kind, msgs) ELSE Idle)
        ELSE Becomes(i, Idle) /\ UNCHANGED <<open, known>>
     /\ TaskOnly /\ UNCHANGED <<database, view, faults>>

\* Mutant: the last of the messages stays unread.
MarksAllButLast(i) ==
  LET task == tasks[i] IN
  /\ task.pc = "mark"
  /\ seen' = [seen EXCEPT ![task.id] = Max({@, task.upto - 1})]
  /\ clock' = IF seen' = seen THEN clock ELSE clock + 1
  /\ Becomes(i, [task EXCEPT !.pc = IF seen[task.id] < task.upto THEN "emit" ELSE "marked"])
  /\ TaskOnly /\ UNCHANGED <<mail, view, open, known, faults>>

\* Stub.MarkRead commits; there are events only for what it changes. A thread with mail
\* that came since is not all read by that.
MarkRead(i) ==
  LET task    == tasks[i]
      changed == Max({task.upto - seen[task.id], 0})
  IN /\ task.pc = "mark"
     /\ seen' = [seen EXCEPT ![task.id] = @ + changed]
     /\ clock' = IF changed > 0 THEN clock + 1 ELSE clock
     /\ Becomes(i, [task EXCEPT !.pc = IF changed > 0 THEN "emit" ELSE "marked",
                                !.at = IF task.upto = mail[task.id] THEN clock' ELSE 0])
     /\ TaskOnly /\ UNCHANGED <<mail, view, open, known, faults>>

MarkFails(i) ==
  /\ Fault
  /\ tasks[i].pc = "mark" /\ Becomes(i, Idle)
  /\ TaskOnly /\ UNCHANGED <<database, view, open, known>>

EmitMarked(i) ==
  /\ tasks[i].pc = "emit"
  /\ EmitEvent
  /\ Becomes(i, [tasks[i] EXCEPT !.pc = "marked"])
  /\ UNCHANGED <<database, unsent, connected, open, focused, lastLink, known, bounds>>

\* markThreadRead, on the list that is shown by now.
MarkThreadRead(i) ==
  LET task == tasks[i] IN
  /\ tasks[i].pc = "marked" /\ Becomes(i, Idle)
  /\ view' = IF task.id \in DOMAIN view.list
             THEN Shows([view.list EXCEPT ![task.id] = 0], Min({view.at, task.at})) ELSE view
  /\ TaskOnly /\ UNCHANGED <<database, open, known, faults>>

-----------------------------------------------------------------------------
(* The user.                                                               *)

\* Mutant: the list stays until the answer comes.
RefilterKeepsList(s) ==
  /\ view' = [view EXCEPT !.scope = s]
  /\ Starts(Listing("page", s))

\* What ThreadList's effect does when the filter has changed.
Refilter(s) ==
  /\ view' = [scope |-> s, list |-> <<>>, at |-> 0, owed |-> 0]
  /\ Free # {}
  /\ tasks' = [i \in Slots |->
                 IF i = Min(Free) THEN Listing("page", s)
                 ELSE [tasks[i] EXCEPT !.stale = tasks[i].kind = "page"]]

SetFilter ==
  /\ Move
  /\ Refilter([view.scope EXCEPT !.unreadOnly = ~@])
  /\ UNCHANGED <<database, stream, open, focused, lastLink, known, faults>>

SetActiveProfile(p) ==
  /\ Move
  /\ p # view.scope.profile /\ Refilter([view.scope EXCEPT !.profile = p])
  /\ open' = Closed
  /\ UNCHANGED <<database, stream, focused, lastLink, known, faults>>

\* ThreadList.onOpen.
Click(t) ==
  /\ Move
  /\ t \in DOMAIN view.list /\ Starts(Getting("click", t))
  /\ UNCHANGED <<database, stream, view, open, focused, lastLink, known, faults>>

\* The click on a notification: a thread is opened at once, and loaded then.
DeepLink(t) ==
  /\ Move
  /\ IF lastLink = t THEN UNCHANGED <<open, lastLink, tasks>>
     ELSE /\ lastLink' = t
          /\ open' = [Closed EXCEPT !.id = t]
          /\ Starts(Getting("link", t))
  /\ UNCHANGED <<database, stream, view, focused, known, faults>>

\* onFocus.
Focus ==
  /\ Move
  /\ ~focused /\ focused' = TRUE
  /\ IF open.id = None THEN UNCHANGED known ELSE Sees(open.id, open.upto)
  /\ IF open.unread THEN Starts(Marking("focus", open)) ELSE UNCHANGED tasks
  /\ UNCHANGED <<database, stream, view, open, lastLink, faults>>

Blur ==
  /\ Move
  /\ focused /\ focused' = FALSE
  /\ UNCHANGED <<database, stream, view, open, lastLink, tasks, known, faults>>

-----------------------------------------------------------------------------
Backend == (\E t \in Threads : Arrive(t) \/ ReadElsewhere(t)) \/ EmitUnsent
Works(i) ==
  \/ AnswerList(i) \/ ListFails(i) \/ ListArrives(i)
  \/ AnswerThread(i) \/ GetFails(i) \/ ThreadArrives(i)
  \/ MarkRead(i) \/ MarkFails(i) \/ EmitMarked(i) \/ MarkThreadRead(i)
User ==
  \/ SetFilter \/ (\E p \in Profiles : SetActiveProfile(p))
  \/ (\E t \in Threads : Click(t) \/ DeepLink(t))
  \/ Focus \/ Blur
ViewNext == \/ Backend \/ Disconnect \/ Reconnect \/ EventArrives
        \/ (\E i \in Slots : Works(i)) \/ User

ViewSpec == ViewInit /\ [][ViewNext]_viewVars

\* Requests are answered or fail, and what awaits them goes on.
ViewFairSpec ==
  /\ ViewSpec
  /\ WF_viewVars(EmitUnsent) /\ WF_viewVars(EventArrives)
  /\ \A i \in Slots : WF_viewVars(Works(i))

-----------------------------------------------------------------------------
(* Properties.                                                             *)

Quiet == ~unsent /\ channel = <<>> /\ Free = Slots

\* When nothing is under way, the list is what the database has for the filter, however
\* the user and the answers went: unless an event was lost or a request failed after it
\* was read, or an older answer for the same filter overtook a newer one.
QuietViewIsCurrent == Quiet => view.list = List(view.scope) \/ view.at < view.owed

\* "Closing the thread ... should also win, and opening a different thread": an event
\* handler never changes which thread is open.
OnlyTheUserOpens ==
  [][open'.id # open.id =>
       \/ open' = Closed \/ lastLink' # lastLink
       \/ \E i \in Slots : tasks[i].kind = "click" /\ tasks[i].id = open'.id]_viewVars

\* Mail that arrives while the window has no focus stays unread until the user has seen
\* it: whatever is read was before the user, here or on another device.
ReadWasSeen == \A t \in Threads : seen[t] <= known[t]

\* The events that marking mail read causes do not cause it again without end.
Settles == <>[]Quiet
=============================================================================
