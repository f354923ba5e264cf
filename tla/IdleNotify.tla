------------------------------ MODULE IdleNotify ------------------------------
(***************************************************************************)
(* Push notifications: how an EXISTS of the server becomes a pass of       *)
(* syncFolder. Four parties take part: the server, the read loop of the    *)
(* connection, which runs pushIdleNotif, the goroutine that Client.Idle    *)
(* starts, and runIDLESession, which alternates between IDLE and passes on *)
(* one connection and dials a new one when its time is up.                 *)
(*                                                                         *)
(* Messages are counted, not named: arrived of them are in the mailbox,    *)
(* the server has told the connection of told, and the database has caught *)
(* up to seen of them. A pass is three commands, SELECT, SEARCH and FETCH; *)
(* FolderSync has its details. The connection delivers in order.           *)
(***************************************************************************)
EXTENDS Integers, Sequences, FiniteSetsExt

CONSTANTS
  BufferCap,    \* capacity of Client.idleNotifs
  NotifsCap,    \* capacity of runIDLESession's notifs
  MaxArrivals,  \* bound: messages
  MaxFaults     \* bound: failed calls, broken connections, passes cut short

ASSUME ConstantsAssumption ==
  /\ BufferCap \in Nat \ {0} /\ NotifsCap \in Nat \ {0}
  /\ MaxArrivals \in Nat /\ MaxFaults \in Nat

VARIABLES
  \* The server and the connection.
  arrived,     \* messages in the mailbox
  told,        \* messages the server has told the connection of
  mode,        \* the server's side of it: "auth", "selected" or "idle"
  conn,        \* "none", "up" or "dead"
  requests,    \* commands on their way to the server
  wire,        \* answers and notifications on their way to the client
  \* The client, guarded by idleMu.
  registered,  \* idleNotifs # nil
  missed,      \* idleMissed
  \* The read loop, and the channel made by the latest Idle.
  push,        \* where pushIdleNotif is: "none", "send" or "full"
  buffer,      \* notifications in that channel
  \* The goroutine of Idle.
  idler,       \* where it is, "off" once it has exited
  stop,        \* stopCh is closed
  notifs,      \* notifications in runIDLESession's channel
  \* The session.
  pc,          \* where runIDLESession is
  asked,       \* its command is on its way
  catchup,     \* the pass is the one before the first IDLE
  expired,     \* sessionCtx is done
  seen,        \* messages the database has caught up to
  faults,      \* faults so far
  \* History.
  ignored      \* the folder's id was not found, so a pass was left out

serverVars == <<arrived, told, mode, conn>>
linkVars   == <<requests, wire>>
clientVars == <<registered, missed, push, buffer>>
idlerVars  == <<idler, stop, notifs>>
vars == <<serverVars, linkVars, clientVars, idlerVars, pc, asked, catchup,
          expired, seen, faults, ignored>>

Commands == {"select", "search", "fetch"}
Counts   == 0..MaxArrivals

TypeOK ==
  /\ arrived \in Counts /\ told \in 0..arrived /\ seen \in 0..arrived
  /\ mode \in {"auth", "selected", "idle"} /\ conn \in {"none", "up", "dead"}
  /\ requests \in Seq(Commands \cup {"idle", "done"})
  /\ wire \in Seq([kind : Commands \cup {"idle", "exists"}, n : Counts])
  /\ {registered, missed, stop, asked, catchup, expired, ignored} \subseteq BOOLEAN
  /\ push \in {"none", "send", "full"}
  /\ buffer \in 0..BufferCap /\ notifs \in 0..NotifsCap
  /\ idler \in {"off", "start", "asked", "backoff", "idling", "forward"}
  /\ pc \in Commands \cup
            {"dial", "register", "replay", "ready", "wait", "stopping", "leaving"}
  /\ faults \in 0..MaxFaults

Init ==
  /\ arrived = 0 /\ told = 0 /\ mode = "auth" /\ conn = "none"
  /\ requests = <<>> /\ wire = <<>>
  /\ registered = FALSE /\ missed = FALSE /\ push = "none" /\ buffer = 0
  /\ idler = "off" /\ stop = FALSE /\ notifs = 0
  /\ pc = "dial" /\ asked = FALSE /\ catchup = FALSE /\ expired = FALSE
  /\ seen = 0 /\ faults = 0 /\ ignored = FALSE

Fault == faults < MaxFaults /\ faults' = faults + 1

\* What is sent over a dead connection is gone.
Request(c) == requests' = IF conn = "up" THEN Append(requests, c) ELSE requests

-----------------------------------------------------------------------------
(* The server.                                                             *)

Arrive ==
  /\ arrived < MaxArrivals
  /\ arrived' = arrived + 1
  /\ UNCHANGED <<told, mode, conn, linkVars, clientVars, idlerVars, pc, asked,
                 catchup, expired, seen, faults, ignored>>

\* EXISTS, which is not repeated: at once during IDLE, or beside any answer.
Announce ==
  /\ conn = "up" /\ mode # "auth" /\ told < arrived
  /\ told' = arrived
  /\ wire' = Append(wire, [kind |-> "exists", n |-> arrived])
  /\ UNCHANGED <<arrived, mode, conn, requests, clientVars, idlerVars, pc, asked,
                 catchup, expired, seen, faults, ignored>>

\* A SEARCH may or may not find messages the connection was not told of.
Serve ==
  /\ conn = "up" /\ requests # <<>>
  /\ LET c == Head(requests) IN
     /\ requests' = Tail(requests)
     /\ told' = IF c = "select" THEN arrived ELSE told
     /\ mode' = IF c = "idle" THEN "idle"
                ELSE IF c \in {"select", "done"} THEN "selected" ELSE mode
     /\ \E n \in {told, arrived} :
          wire' = IF c = "done" THEN wire ELSE Append(wire, [kind |-> c, n |-> n])
  /\ UNCHANGED <<arrived, conn, clientVars, idlerVars, pc, asked, catchup, expired,
                 seen, faults, ignored>>

\* The connection breaks, with what is under way on it.
Break ==
  /\ conn = "up"
  /\ Fault
  /\ conn' = "dead" /\ requests' = <<>> /\ wire' = <<>>
  /\ UNCHANGED <<arrived, told, mode, clientVars, idlerVars, pc, asked, catchup,
                 expired, seen, ignored>>

-----------------------------------------------------------------------------
(* The read loop of the connection.                                        *)

\* Mutant: a notification that finds no channel is dropped.
ReadExistsForgets ==
  /\ push = "none" /\ wire # <<>> /\ Head(wire).kind = "exists"
  /\ wire' = Tail(wire)
  /\ push' = IF registered THEN "send" ELSE "none"
  /\ UNCHANGED <<serverVars, requests, registered, missed, buffer, idlerVars, pc,
                 asked, catchup, expired, seen, faults, ignored>>

\* pushIdleNotif under the lock: it finds a channel, or sets idleMissed.
ReadExists ==
  /\ push = "none" /\ wire # <<>> /\ Head(wire).kind = "exists"
  /\ wire' = Tail(wire)
  /\ IF registered THEN push' = "send" /\ UNCHANGED missed
                   ELSE missed' = TRUE /\ UNCHANGED push
  /\ UNCHANGED <<serverVars, requests, registered, buffer, idlerVars, pc, asked,
                 catchup, expired, seen, faults, ignored>>

\* ... after it: the IDLE may have ended meanwhile, the channel is still there.
Push ==
  /\ push = "send"
  /\ IF buffer < BufferCap THEN buffer' = buffer + 1 /\ push' = "none"
                           ELSE push' = "full" /\ UNCHANGED buffer
  /\ UNCHANGED <<serverVars, linkVars, registered, missed, idlerVars, pc, asked,
                 catchup, expired, seen, faults, ignored>>

PushMissed ==
  /\ push = "full"
  /\ missed' = TRUE
  /\ push' = "none"
  /\ UNCHANGED <<serverVars, linkVars, registered, buffer, idlerVars, pc, asked,
                 catchup, expired, seen, faults, ignored>>

\* Idle returns to the session once its first attempt is decided.
Ready == pc' = IF pc = "ready" THEN "wait" ELSE pc

\* The answer to the session's command, or to Idle's. A pass stores what its
\* SEARCH has found.
ReadAnswer ==
  /\ push = "none" /\ wire # <<>> /\ Head(wire).kind # "exists"
  /\ wire' = Tail(wire)
  /\ LET k == Head(wire).kind IN
     \/ /\ k = "idle"
        /\ idler' = IF idler = "asked" THEN "idling" ELSE idler
        /\ Ready
        /\ UNCHANGED <<asked, seen, ignored>>
     \/ /\ k \in Commands
        /\ asked' = FALSE
        /\ pc' = [select |-> "search", search |-> "fetch", fetch |-> "register"][k]
        /\ IF k = "search" THEN seen' = Max({seen, Head(wire).n}) /\ ignored' = FALSE
                           ELSE UNCHANGED <<seen, ignored>>
        /\ UNCHANGED idler
  /\ UNCHANGED <<serverVars, requests, clientVars, stop, notifs, catchup, expired,
                 faults>>

-----------------------------------------------------------------------------
(* Client.Idle and the goroutine it starts.                                *)

\* Idle makes the channels, and goes on to start the goroutine.
StartIdler == pc' = "ready" /\ idler' = "start"

\* Mutant: the flag is taken without being replayed.
IdleForgets ==
  /\ pc = "register"
  /\ registered' = TRUE /\ buffer' = 0 /\ missed' = FALSE
  /\ stop' = FALSE /\ notifs' = 0
  /\ StartIdler
  /\ UNCHANGED <<serverVars, linkVars, push, asked, catchup, expired, seen, faults,
                 ignored>>

\* The channel is registered and the flag taken under one lock.
Idle ==
  /\ pc = "register"
  /\ registered' = TRUE /\ buffer' = 0 /\ missed' = FALSE
  /\ stop' = FALSE /\ notifs' = 0
  /\ IF missed THEN pc' = "replay" /\ UNCHANGED idler ELSE StartIdler
  /\ UNCHANGED <<serverVars, linkVars, push, asked, catchup, expired, seen, faults,
                 ignored>>

\* The replay blocks while the channel is full, and nobody reads it yet.
Replay ==
  /\ pc = "replay" /\ buffer < BufferCap
  /\ buffer' = buffer + 1
  /\ StartIdler
  /\ UNCHANGED <<serverVars, linkVars, registered, missed, push, stop, notifs, asked,
                 catchup, expired, seen, faults, ignored>>

\* The goroutine looks at stopCh and at sessionCtx, then asks for IDLE.
AskIdle ==
  /\ idler = "start" /\ ~stop /\ ~expired
  /\ Request("idle")
  /\ idler' = "asked"
  /\ UNCHANGED <<serverVars, wire, clientVars, stop, notifs, pc, asked, catchup,
                 expired, seen, faults, ignored>>

\* IDLE fails: the next attempt is in two seconds.
IdleFails ==
  /\ \/ idler = "start" /\ ~stop /\ ~expired /\ Fault
     \/ idler = "asked" /\ conn = "dead" /\ UNCHANGED faults
  /\ idler' = "backoff"
  /\ Ready
  /\ UNCHANGED <<serverVars, linkVars, clientVars, stop, notifs, asked, catchup,
                 expired, seen, ignored>>

RetryIdle ==
  /\ idler = "backoff" /\ ~stop /\ ~expired
  /\ idler' = "start"
  /\ UNCHANGED <<serverVars, linkVars, clientVars, stop, notifs, pc, asked, catchup,
                 expired, seen, faults, ignored>>

Take ==
  /\ idler = "idling" /\ buffer > 0
  /\ buffer' = buffer - 1
  /\ idler' = "forward"
  /\ UNCHANGED <<serverVars, linkVars, registered, missed, push, stop, notifs, pc,
                 asked, catchup, expired, seen, faults, ignored>>

\* Mutant: the session's channel has no bound.
ForwardUnbounded ==
  /\ idler = "forward"
  /\ notifs' = notifs + 1
  /\ idler' = "idling"
  /\ UNCHANGED <<serverVars, linkVars, clientVars, stop, pc, asked, catchup, expired,
                 seen, faults, ignored>>

Forward ==
  /\ idler = "forward" /\ notifs < NotifsCap
  /\ notifs' = notifs + 1
  /\ idler' = "idling"
  /\ UNCHANGED <<serverVars, linkVars, clientVars, stop, pc, asked, catchup, expired,
                 seen, faults, ignored>>

\* The goroutine sends DONE if it is in IDLE, unregisters the channel and closes
\* the session's. (Its 28-minute refresh never fires in a session of 25.)
EndIdle ==
  /\ idler \in {"start", "backoff", "idling", "forward"}
  /\ stop \/ expired
  /\ IF idler \in {"idling", "forward"} THEN Request("done") ELSE UNCHANGED requests
  /\ idler' = "off"
  /\ registered' = FALSE
  /\ Ready
  /\ UNCHANGED <<serverVars, wire, missed, push, buffer, stop, notifs, asked, catchup,
                 expired, seen, faults, ignored>>

Idler == AskIdle \/ IdleFails \/ RetryIdle \/ Take \/ Forward \/ EndIdle

-----------------------------------------------------------------------------
(* runIDLESession.                                                         *)

\* A new connection. If the folder's id is not found the session goes into IDLE
\* without a pass, hence without SELECT.
Dial ==
  /\ pc = "dial"
  /\ conn' = "up" /\ mode' = "auth" /\ told' = 0
  /\ requests' = <<>> /\ wire' = <<>>
  /\ registered' = FALSE /\ missed' = FALSE /\ push' = "none" /\ buffer' = 0
  /\ asked' = FALSE /\ expired' = FALSE /\ catchup' = TRUE
  /\ \/ pc' = "select" /\ UNCHANGED <<faults, ignored>>
     \/ pc' = "register" /\ Fault /\ ignored' = TRUE
  /\ UNCHANGED <<arrived, idlerVars, seen>>

\* The session's 25 minutes are over, be it, by way of a fault, in its first pass.
Expire ==
  /\ pc # "dial" /\ ~expired
  /\ IF catchup /\ pc \in Commands THEN Fault ELSE UNCHANGED faults
  /\ expired' = TRUE
  /\ UNCHANGED <<serverVars, linkVars, clientVars, idlerVars, pc, asked, catchup, seen,
                 ignored>>

\* The next command of a pass.
Ask ==
  /\ pc \in Commands /\ ~asked
  /\ Request(pc)
  /\ asked' = TRUE
  /\ UNCHANGED <<serverVars, wire, clientVars, idlerVars, pc, catchup, expired, seen,
                 faults, ignored>>

\* The deferred Close.
Close ==
  /\ conn' = "none" /\ requests' = <<>> /\ wire' = <<>>
  /\ pc' = "dial" /\ asked' = FALSE

\* The pass fails and ends the session. Only the first pass is bound by
\* sessionCtx.
SyncFails ==
  /\ pc \in Commands
  /\ \/ Fault
     \/ (conn = "dead" \/ (catchup /\ expired)) /\ UNCHANGED faults
  /\ Close
  /\ UNCHANGED <<arrived, told, mode, clientVars, idlerVars, catchup, expired, seen,
                 ignored>>

\* An EXISTS ends the IDLE; if the folder's id is not found it is dropped.
Receive ==
  /\ pc = "wait" /\ notifs > 0
  /\ notifs' = notifs - 1
  /\ \/ /\ stop' = TRUE
        /\ pc' = "stopping"
        /\ UNCHANGED <<faults, ignored>>
     \/ /\ Fault
        /\ ignored' = TRUE
        /\ UNCHANGED <<pc, stop>>
  /\ UNCHANGED <<serverVars, linkVars, clientVars, idler, asked, catchup, expired, seen>>

\* Mutant: stopIdle does not wait for the goroutine.
StoppedAtOnce ==
  /\ pc = "stopping"
  /\ pc' = "select"
  /\ catchup' = FALSE
  /\ UNCHANGED <<serverVars, linkVars, clientVars, idlerVars, asked, expired, seen,
                 faults, ignored>>

\* stopIdle has waited for the goroutine: the pass begins on this connection.
Stopped ==
  /\ pc = "stopping" /\ idler = "off"
  /\ pc' = "select"
  /\ catchup' = FALSE
  /\ UNCHANGED <<serverVars, linkVars, clientVars, idlerVars, asked, expired, seen,
                 faults, ignored>>

\* The session's time is up, or its channel is closed and empty.
Leave ==
  /\ pc = "wait"
  /\ expired \/ (idler = "off" /\ notifs = 0)
  /\ stop' = TRUE
  /\ pc' = "leaving"
  /\ UNCHANGED <<serverVars, linkVars, clientVars, idler, notifs, asked, catchup,
                 expired, seen, faults, ignored>>

Left ==
  /\ pc = "leaving" /\ idler = "off"
  /\ Close
  /\ UNCHANGED <<arrived, told, mode, clientVars, idlerVars, catchup, expired, seen,
                 faults, ignored>>

Session == Dial \/ Ask \/ SyncFails \/ Receive \/ Stopped \/ Leave \/ Left

Next ==
  \/ Arrive \/ Announce \/ Serve \/ Break
  \/ ReadExists \/ Push \/ PushMissed \/ ReadAnswer
  \/ Idle \/ Replay \/ Idler
  \/ Session \/ Expire

Spec == Init /\ [][Next]_vars

\* Every goroutine runs and the server answers and, during IDLE, announces. The
\* end of the session's 25 minutes is not counted on.
FairSpec ==
  /\ Spec
  /\ WF_vars(Serve) /\ WF_vars(Announce /\ mode = "idle")
  /\ WF_vars(ReadExists \/ Push \/ PushMissed \/ ReadAnswer)
  /\ WF_vars(Idle \/ Replay) /\ WF_vars(Idler) /\ WF_vars(Session)

-----------------------------------------------------------------------------
(* Properties.                                                             *)

\* Everybody is waiting for the server.
Quiet ==
  /\ pc = "wait" /\ idler = "idling" /\ notifs = 0 /\ buffer = 0 /\ push = "none"
  /\ conn = "up" /\ mode = "idle" /\ wire = <<>> /\ requests = <<>>

\* Idle is blocked for good: the read loop has filled the channel before Idle
\* could replay the missed notification.
Blocked == pc = "replay" /\ buffer = BufferCap

\* The session sits in IDLE on a dead connection.
Parked == pc = "wait" /\ conn = "dead"

\* No announcement is lost in the hand-over from one IDLE to the next: a session
\* that sleeps has caught up with all the server has told it, but for a pass
\* left out because the folder's id was not found.
QuietIsCaughtUp == Quiet => told <= seen \/ ignored

\* RFC 2177: the server gets DONE before any other command.
DoneBeforeCommands ==
  mode = "idle" /\ requests # <<>> => Head(requests) = "done"

\* Every message is caught up with, without waiting for the session to expire,
\* unless the session is blocked, or parked on a dead connection.
ArrivalsAreSeen == <>[](seen = arrived \/ ignored \/ Blocked \/ Parked)
=============================================================================
