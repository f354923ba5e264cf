--------------------------------- MODULE Notices -------------------------------
(***************************************************************************)
(* The notifications of new mail: an event starts a goroutine that asks    *)
(* the daemon to show one, and then records its id, so that a click opens  *)
(* the thread. The daemon answers late, fails and restarts, and the user   *)
(* may click, or the notification go, before the id is recorded.           *)
(***************************************************************************)
EXTENDS EventBus, SequencesExt, FiniteSets, Functions

CONSTANTS
  Arrivals,    \* all in inboxes of one profile
  PendingCap,  \* entries of pendingActions: 256
  MaxMutes     \* bound: changes of profiles.muted

ASSUME NoticesAssumption ==
  /\ IsFiniteSet(Arrivals)
  /\ PendingCap \in Nat \ {0} /\ MaxMutes \in Nat

VARIABLES
  arrived,   \* messages the writer has announced
  isMuted,   \* profiles.muted
  handler,   \* handleMessageArrived of each message, with the id it was given
  daemon,    \* the notification daemon: what is on the screen, its next id
  signals,   \* of the daemon, not yet dispatched
  order, by, \* pendingActions
  opened,    \* the message whose thread the window was last sent to
  mutes,
  \* History.
  told,      \* messages that were on the screen
  missed,    \* messages whose event was dropped, that were muted, or failed
  clicked,   \* the message of each reported click, in the order of signals
  excused,   \* ids whose entry is not what the screen would have it
  reused     \* ids the daemon may give, or has given, a second time

events == <<arrived, channel, isMuted, mutes>>
table == <<order, by, opened>>
noticesVars == <<events, handler, daemon, signals, table, faults, told, missed, clicked, excused,
                 reused>>

Nobody == "nobody"
Fresh == [pc |-> "none", id |-> 0]
Ids == Nat \ {0}

\* Types; notifications on the screen are known of, and pendingActions keeps to its limit.
NoticesTypeOK ==
  /\ arrived \subseteq Arrivals /\ told \cup missed \subseteq arrived
  /\ channel \in Seq(Arrivals) /\ Len(channel) <= Capacity
  /\ isMuted \in BOOLEAN
  /\ \A m \in Arrivals : /\ handler[m].pc \in {"none", "muted", "notify", "retry", "put", "done"}
                         /\ handler[m].id \in Nat
  /\ DOMAIN daemon.shown \subseteq 1..(daemon.next - 1) /\ Range(daemon.shown) \subseteq told
  /\ signals \in Seq([name : {"action", "closed"}, id : Ids])
  /\ ToSet(order) = DOMAIN by /\ Len(order) = Cardinality(DOMAIN by)
  /\ Len(order) <= PendingCap
  /\ opened \in arrived \cup {Nobody}
  /\ excused \cup reused \subseteq Ids
  /\ mutes \in 0..MaxMutes /\ faults \in 0..MaxFaults

\* NewController.
NoticesInit ==
  /\ arrived = {} /\ channel = <<>> /\ isMuted = FALSE
  /\ handler = [m \in Arrivals |-> Fresh]
  /\ daemon = [shown |-> <<>>, next |-> 1] /\ signals = <<>>
  /\ order = <<>> /\ by = <<>> /\ opened = Nobody
  /\ mutes = 0 /\ faults = 0
  /\ told = {} /\ missed = {} /\ clicked = <<>> /\ excused = {} /\ reused = {}

-----------------------------------------------------------------------------
(* Events.                                                                 *)

\* The writer emits MessageArrived, while other events may fill the channel.
MessageArrived(m) ==
  /\ m \notin arrived /\ arrived' = arrived \cup {m}
  /\ channel' = Send(channel, m)
  /\ missed' = IF IsFull(channel) THEN missed \cup {m} ELSE missed
  /\ UNCHANGED <<isMuted, mutes, handler, daemon, signals, table, faults, told, clicked, excused,
                 reused>>

SetProfileMuted ==
  /\ mutes < MaxMutes /\ mutes' = mutes + 1
  /\ isMuted' = ~isMuted
  /\ UNCHANGED <<arrived, channel, handler, daemon, signals, table, faults, told, missed,
                 clicked, excused, reused>>

\* dispatchEvent: the rest is left to a goroutine of its own.
Dispatch ==
  /\ channel # <<>> /\ channel' = Tail(channel)
  /\ handler' = [handler EXCEPT ![Head(channel)].pc = "muted"]
  /\ UNCHANGED <<arrived, isMuted, mutes, daemon, signals, table, faults, told, missed,
                 clicked, excused, reused>>

-----------------------------------------------------------------------------
(* handleMessageArrived.                                                   *)

\* Mutant: a read that fails counts as muted.
FailsAsMuted(m) ==
  /\ handler[m].pc = "muted"
  /\ \/ /\ isMuted /\ missed' = missed \cup {m} /\ UNCHANGED faults
        /\ handler' = [handler EXCEPT ![m].pc = "done"]
     \/ /\ Fault /\ UNCHANGED missed
        /\ handler' = [handler EXCEPT ![m].pc = "done"]
     \/ /\ ~isMuted /\ UNCHANGED <<missed, faults>>
        /\ handler' = [handler EXCEPT ![m].pc = "notify"]
  /\ UNCHANGED <<events, daemon, signals, table, told, clicked, excused, reused>>

\* A read that fails counts as not muted.
AccountIsMuted(m) ==
  /\ handler[m].pc = "muted"
  /\ \/ /\ isMuted /\ missed' = missed \cup {m} /\ UNCHANGED faults
        /\ handler' = [handler EXCEPT ![m].pc = "done"]
     \/ /\ IF isMuted THEN Fault ELSE UNCHANGED faults
        /\ handler' = [handler EXCEPT ![m].pc = "notify"] /\ UNCHANGED missed
  /\ UNCHANGED <<events, daemon, signals, table, told, clicked, excused, reused>>

\* The daemon shows it. If the answer does not come in time its id is not known; if
\* the connection breaks it is asked for once more.
Notify(m) ==
  LET id == daemon.next IN
  /\ handler[m].pc \in {"notify", "retry"}
  /\ daemon' = [shown |-> [i \in DOMAIN daemon.shown \cup {id} |->
                             IF i = id THEN m ELSE daemon.shown[i]],
                next |-> id + 1]
  /\ told' = told \cup {m}
  /\ \/ /\ handler' = [handler EXCEPT ![m] = [pc |-> "put", id |-> id]]
        /\ UNCHANGED <<faults, excused>>
     \/ /\ Fault /\ excused' = excused \cup {id}
        /\ \/ handler' = [handler EXCEPT ![m].pc = "done"]
           \/ handler[m].pc = "notify" /\ handler' = [handler EXCEPT ![m].pc = "retry"]
  /\ UNCHANGED <<events, signals, table, missed, clicked, reused>>

\* It is not shown.
NotifyFails(m) ==
  /\ Fault
  /\ \/ /\ handler[m].pc \in {"notify", "retry"}
        /\ handler' = [handler EXCEPT ![m].pc = "done"] /\ missed' = missed \cup {m}
     \/ /\ handler[m].pc = "notify"
        /\ handler' = [handler EXCEPT ![m].pc = "retry"] /\ UNCHANGED missed
  /\ UNCHANGED <<events, daemon, signals, table, told, clicked, excused, reused>>

Signalled(id) == \E i \in DOMAIN signals : signals[i].id = id

\* Mutant: a table that is full takes no more.
PutUnlessFull(m) ==
  LET id    == handler[m].id
      takes == id \in DOMAIN by \/ Len(order) < PendingCap
  IN /\ handler[m].pc = "put" /\ handler' = [handler EXCEPT ![m].pc = "done"]
     /\ by' = IF takes THEN [i \in DOMAIN by \cup {id} |-> IF i = id THEN m ELSE by[i]] ELSE by
     /\ order' = IF takes /\ id \notin DOMAIN by THEN Append(order, id) ELSE order
     /\ excused' = IF id \in DOMAIN daemon.shown \/ Signalled(id) THEN excused
                   ELSE excused \cup {id}
     /\ UNCHANGED <<events, daemon, signals, opened, faults, told, missed, clicked, reused>>

\* pendingActions.Put: the oldest entry makes room. If the notification is gone by now
\* the entry stays for nobody.
Put(m) ==
  LET id   == handler[m].id
      full == id \notin DOMAIN by /\ Len(order) = PendingCap
      kept == IF full THEN Tail(order) ELSE order
  IN /\ handler[m].pc = "put" /\ handler' = [handler EXCEPT ![m].pc = "done"]
     /\ order' = IF id \in DOMAIN by THEN order ELSE Append(kept, id)
     /\ by' = [i \in ToSet(kept) \cup {id} |-> IF i = id THEN m ELSE by[i]]
     /\ excused' = (IF id \in DOMAIN daemon.shown \/ Signalled(id) THEN excused
                    ELSE excused \cup {id})
                     \cup (IF full THEN {Head(order)} ELSE {})
     /\ UNCHANGED <<events, daemon, signals, opened, faults, told, missed, clicked, reused>>

-----------------------------------------------------------------------------
(* The screen.                                                             *)

Gone(id) == daemon' = [daemon EXCEPT !.shown = Restrict(@, DOMAIN @ \ {id})]

\* The user clicks: the daemon reports that, and closes the notification.
ClickNotification(id) ==
  /\ id \in DOMAIN daemon.shown /\ Gone(id)
  /\ signals' = signals \o <<[name |-> "action", id |-> id], [name |-> "closed", id |-> id]>>
  /\ clicked' = Append(clicked, daemon.shown[id])
  /\ UNCHANGED <<events, handler, table, faults, told, missed, excused, reused>>

\* It is dismissed, or its time is up, which some daemons do not report.
Close(id) ==
  /\ id \in DOMAIN daemon.shown /\ Gone(id)
  /\ \/ signals' = Append(signals, [name |-> "closed", id |-> id]) /\ UNCHANGED excused
     \/ excused' = excused \cup {id} /\ UNCHANGED signals
  /\ UNCHANGED <<events, handler, table, faults, told, missed, clicked, reused>>

\* The daemon forgets what it showed, and counts its ids from the start.
DaemonRestarts ==
  /\ Fault
  /\ reused' = reused \cup 1..(daemon.next - 1)
  /\ daemon' = [shown |-> <<>>, next |-> 1]
  /\ UNCHANGED <<events, handler, signals, table, told, missed, clicked, excused>>

\* Mutant: the entry stays in the order of eviction.
TakeKeepsOrder(id) == by' = Restrict(by, DOMAIN by \ {id}) /\ UNCHANGED order

\* pendingActions.Take and Delete.
Take(id) == by' = Restrict(by, DOMAIN by \ {id}) /\ order' = RemoveFirst(order, id)

\* Mutant: an entry is taken by the next click, whatever it is on.
OpensOldest(id) == IF order = <<>> THEN opened ELSE by[Head(order)]

\* The thread onNotificationAction routes the window to.
Opens(id) == IF id \in DOMAIN by THEN by[id] ELSE opened

\* dispatchSignal.
DispatchSignal ==
  LET signal == Head(signals)
      click  == signal.name = "action"
  IN /\ signals # <<>> /\ signals' = Tail(signals)
     /\ Take(signal.id)
     /\ opened' = IF click THEN Opens(signal.id) ELSE opened
     /\ clicked' = IF click THEN Tail(clicked) ELSE clicked
     /\ UNCHANGED <<events, handler, daemon, faults, told, missed, excused, reused>>

-----------------------------------------------------------------------------
NoticesNext ==
  \/ \E m \in Arrivals : MessageArrived(m)
  \/ SetProfileMuted \/ Dispatch
  \/ \E m \in Arrivals : AccountIsMuted(m) \/ Notify(m) \/ NotifyFails(m) \/ Put(m)
  \/ \E id \in DOMAIN daemon.shown : ClickNotification(id) \/ Close(id)
  \/ DaemonRestarts \/ DispatchSignal

NoticesSpec == NoticesInit /\ [][NoticesNext]_noticesVars

\* The goroutines go on: the calls of the database and of the daemon have deadlines.
NoticesFairSpec ==
  /\ NoticesSpec
  /\ WF_noticesVars(Dispatch)
  /\ \A m \in Arrivals : WF_noticesVars(AccountIsMuted(m) \/ Notify(m) \/ NotifyFails(m) \/ Put(m))

-----------------------------------------------------------------------------
(* Properties.                                                             *)

\* The table of pending actions follows the screen: a notification there has its entry,
\* and an entry whose notification is gone is about to go. Excused are ids the tray was
\* never told, those that went without a signal or before they were recorded, the
\* evicted, and those from before a restart of the daemon.
PendingFollowsScreen ==
  /\ \A id \in DOMAIN daemon.shown \ (excused \cup reused) :
       LET m == daemon.shown[id]
       IN \/ id \in DOMAIN by /\ by[id] = m
          \/ handler[m] = [pc |-> "put", id |-> id]
  /\ \A id \in DOMAIN by \ (excused \cup reused) : id \in DOMAIN daemon.shown \/ Signalled(id)

\* A click opens the thread of the notification that was clicked or none, unless the
\* daemon has given an id twice.
ClicksOpenTheirOwn ==
  [][opened' # opened =>
       opened' = Head(clicked) \/ Head(signals).id \in reused]_noticesVars

\* Every new message is brought to the screen, unless its event was dropped, its profile
\* was muted or the daemon failed.
ArrivalsAreNotified == \A m \in Arrivals : m \in arrived ~> m \in told \cup missed
=============================================================================
