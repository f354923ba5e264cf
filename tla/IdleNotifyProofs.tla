--------------------------- MODULE IdleNotifyProofs ---------------------------
(***************************************************************************)
(* Proofs about IdleNotify, for any capacities of the channels and any     *)
(* number of messages and faults: DONE comes before any other command, and *)
(* a session that sleeps has caught up with what it was told.              *)
(*                                                                         *)
(* The first rests on what the connection owes: at most one command is     *)
(* awaited, it is on its way to the server or its answer on its way back,  *)
(* and DONE is ahead of it. The second follows a notification from hand to *)
(* hand, and states for each point of the session who holds it.            *)
(***************************************************************************)
EXTENDS IdleNotify, FiniteLemmas

Requests == Commands \cup {"idle", "done"}
Answers  == [kind : Commands \cup {"idle", "exists"}, n : Counts]

\* The command whose answer somebody waits for.
Awaited == IF idler = "asked" THEN {"idle"} ELSE IF asked THEN {pc} ELSE {}

\* It is still on its way to the server; DONE is at the head of the requests.
Sent == requests # <<>> /\ requests[Len(requests)] \in Awaited
Done == requests # <<>> /\ requests[1] = "done"

Unanswered  == \A i \in 1..Len(wire) : wire[i].kind = "exists"
Answered(c) == \E i \in 1..Len(wire) :
                 wire[i].kind = c /\ \A j \in 1..Len(wire) : j # i => wire[j].kind = "exists"
InWire      == \E i \in 1..Len(wire) : wire[i].kind = "exists"

\* Where the parties are in relation to one another.
Phases ==
  /\ pc \in Commands \cup {"dial", "register", "replay"} => idler = "off"
  /\ pc = "ready" => idler \in {"start", "asked"}
  /\ asked => pc \in Commands
  /\ registered <=> pc = "replay" \/ idler # "off"
  /\ pc \in {"fetch", "register"} => push = "none"
  /\ \A i \in 1..Len(wire) : wire[i].n <= arrived
  /\ conn # "up" => requests = <<>> /\ wire = <<>>

Protocol ==
  conn = "up" =>
    /\ Len(requests) = (IF Done THEN 1 ELSE 0) + (IF Sent THEN 1 ELSE 0)
    /\ Sent \/ Awaited = {} => Unanswered
    /\ ~Sent => \A c \in Awaited : Answered(c) /\ requests = <<>>
    /\ Done => idler = "off" /\ pc \notin {"search", "fetch", "register", "replay"}
    /\ mode = "idle" <=> Done \/ idler \in {"idling", "forward"} \/ (idler = "asked" /\ ~Sent)

\* There is nothing new, or the folder's id was not found.
Fresh == told <= seen \/ ignored

\* Who holds the news.
HandOver ==
  conn = "up" =>
    /\ pc = "search" => \A i \in 1..Len(wire) : wire[i].kind = "search" =>
         wire[i].n >= told \/ \E j \in 1..Len(wire) : j > i /\ wire[j].kind = "exists"
    /\ pc \in {"fetch", "register"} => Fresh \/ missed \/ InWire
    /\ pc \in {"ready", "wait"} /\ idler # "off" =>
         Fresh \/ InWire \/ push # "none" \/ buffer > 0 \/ idler = "forward" \/ notifs > 0

\* A notification that finds the channel full has others ahead of it.
Full ==
  push = "full" /\ pc \in {"ready", "wait"} /\ idler # "off" =>
    buffer > 0 \/ idler = "forward" \/ notifs > 0 \/ ignored

Inv == TypeOK /\ Phases /\ Protocol /\ HandOver /\ Full

-----------------------------------------------------------------------------
(* Types and phases.                                                       *)

\* The two directions of the connection.
LEMMA Link ==
  ASSUME TypeOK
  PROVE  /\ Len(requests) \in Nat /\ Len(wire) \in Nat
         /\ requests = <<>> <=> Len(requests) = 0
         /\ wire = <<>> <=> Len(wire) = 0
         /\ \A i \in 1..Len(requests) : requests[i] \in Requests
         /\ \A i \in 1..Len(wire) : wire[i].kind \in Commands \cup {"idle", "exists"}
                                    /\ wire[i].n \in Counts
<1>1. requests \in Seq(Requests) /\ wire \in Seq(Answers)
  BY DEF TypeOK, Requests, Answers
<1>2. \A i \in 1..Len(wire) : wire[i] \in Answers
  BY <1>1, Places
<1>3. \A i \in 1..Len(wire) : wire[i].kind \in Commands \cup {"idle", "exists"}
                              /\ wire[i].n \in Counts
  BY <1>2 DEF Answers
<1> QED  BY <1>1, <1>3, Places

\* A request on its way.
LEMMA Requested ==
  ASSUME TypeOK, NEW c \in Requests, Request(c)
  PROVE  /\ requests' \in Seq(Requests)
         /\ conn # "up" => requests' = requests
         /\ conn = "up" =>
              /\ Len(requests') = Len(requests) + 1 /\ requests'[Len(requests) + 1] = c
              /\ \A i \in 1..Len(requests) : requests'[i] = requests[i]
<1>1. requests \in Seq(Requests)
  BY DEF TypeOK, Requests
<1> QED  BY <1>1, Appended DEF Request

\* The server takes a request.
LEMMA Served ==
  ASSUME TypeOK, requests # <<>>, requests' = Tail(requests)
  PROVE  /\ requests' \in Seq(Requests) /\ Len(requests) \in Nat \ {0}
         /\ Len(requests') = Len(requests) - 1
         /\ Head(requests) = requests[1] /\ Head(requests) \in Requests
         /\ \A i \in 1..(Len(requests) - 1) : requests'[i] = requests[i + 1]
<1>1. requests \in Seq(Requests)
  BY DEF TypeOK, Requests
<1> QED  BY <1>1, Taken

\* The server sends something.
LEMMA Sends ==
  ASSUME TypeOK, NEW k \in Commands \cup {"idle", "exists"}, NEW n \in Counts,
         wire' = Append(wire, [kind |-> k, n |-> n])
  PROVE  /\ wire' \in Seq(Answers) /\ Len(wire') = Len(wire) + 1
         /\ wire'[Len(wire) + 1].kind = k /\ wire'[Len(wire) + 1].n = n
         /\ \A i \in 1..Len(wire) : wire'[i] = wire[i]
<1> DEFINE m == [kind |-> k, n |-> n]
<1>1. wire \in Seq(Answers) /\ m \in Answers /\ m.kind = k /\ m.n = n
  BY DEF TypeOK, Answers
<1>2. wire' = Append(wire, m)
  OBVIOUS
<1> HIDE DEF m
<1> QED  BY <1>1, <1>2, Appended

\* The read loop takes it.
LEMMA Reads ==
  ASSUME TypeOK, wire # <<>>, wire' = Tail(wire)
  PROVE  /\ wire' \in Seq(Answers) /\ Len(wire) \in Nat \ {0} /\ Len(wire') = Len(wire) - 1
         /\ Head(wire) = wire[1]
         /\ \A i \in 1..(Len(wire) - 1) : wire'[i] = wire[i + 1]
<1>1. wire \in Seq(Answers)
  BY DEF TypeOK, Answers
<1> QED  BY <1>1, Taken

\* Nothing under way.
LEMMA Cleared == <<>> \in Seq(Requests) /\ <<>> \in Seq(Answers) /\ Len(<<>>) = 0
BY EmptySeq

\* What the database has caught up to.
LEMMA Newest ==
  ASSUME NEW a \in Nat, NEW b \in Nat
  PROVE  Max({a, b}) \in {a, b} /\ Max({a, b}) >= a /\ Max({a, b}) >= b
<1>1. IsFiniteSet({a} \cup {b})
  BY FS_Singleton, FS_AddElement
<1>2. {a, b} = {a} \cup {b} /\ {a, b} \in SUBSET Nat /\ {a, b} # {}
  OBVIOUS
<1>3. IsFiniteSet({a, b})
  BY <1>1, <1>2
<1> QED  BY <1>2, <1>3, MaxIsGreatest

\* The type invariant, flag by flag.
Types ==
  /\ arrived \in Counts /\ told \in 0..arrived /\ seen \in 0..arrived
  /\ mode \in {"auth", "selected", "idle"} /\ conn \in {"none", "up", "dead"}
  /\ requests \in Seq(Requests) /\ wire \in Seq(Answers)
  /\ registered \in BOOLEAN /\ missed \in BOOLEAN /\ stop \in BOOLEAN /\ asked \in BOOLEAN
  /\ catchup \in BOOLEAN /\ expired \in BOOLEAN /\ ignored \in BOOLEAN
  /\ push \in {"none", "send", "full"}
  /\ buffer \in 0..BufferCap /\ notifs \in 0..NotifsCap
  /\ idler \in {"off", "start", "asked", "backoff", "idling", "forward"}
  /\ pc \in Commands \cup
            {"dial", "register", "replay", "ready", "wait", "stopping", "leaving"}
  /\ faults \in 0..MaxFaults

LEMMA SplitTypes == (TypeOK <=> Types) /\ (TypeOK' <=> Types')
<1>1. {registered, missed, stop, asked, catchup, expired, ignored} \subseteq BOOLEAN
      <=> /\ registered \in BOOLEAN /\ missed \in BOOLEAN /\ stop \in BOOLEAN
          /\ asked \in BOOLEAN /\ catchup \in BOOLEAN /\ expired \in BOOLEAN
          /\ ignored \in BOOLEAN
  BY Zenon
<1>2. {registered', missed', stop', asked', catchup', expired', ignored'} \subseteq BOOLEAN
      <=> /\ registered' \in BOOLEAN /\ missed' \in BOOLEAN /\ stop' \in BOOLEAN
          /\ asked' \in BOOLEAN /\ catchup' \in BOOLEAN /\ expired' \in BOOLEAN
          /\ ignored' \in BOOLEAN
  BY Zenon
<1>3. TypeOK <=> Types
  BY <1>1, Zenon DEF TypeOK, Types, Requests, Answers
<1>4. TypeOK' <=> Types'
  BY <1>2, Zenon DEF TypeOK, Types, Requests, Answers
<1> QED  BY <1>3, <1>4

\* The invariant holds at first.
LEMMA InitInv == Init => Inv
<1> SUFFICES ASSUME Init PROVE Inv
  OBVIOUS
<1>1. TypeOK
  <2>1. Types
    <3>1. requests \in Seq(Requests) /\ wire \in Seq(Answers)
      BY Cleared DEF Init
    <3>2. arrived \in Counts /\ told \in 0..arrived /\ seen \in 0..arrived
          /\ buffer \in 0..BufferCap /\ notifs \in 0..NotifsCap /\ faults \in 0..MaxFaults
      BY ConstantsAssumption DEF Init, Counts
    <3> QED  BY <3>1, <3>2, Zenon DEF Init, Types
  <2> QED  BY <2>1, SplitTypes
<1>2. Len(wire) = 0 /\ Len(requests) = 0
  BY Cleared DEF Init
<1> QED  BY <1>1, <1>2 DEF Init, Inv, Phases, Protocol, HandOver, Full, Commands

LEMMA TypesKept == TypeOK /\ Phases /\ [Next]_vars => TypeOK'
<1> SUFFICES ASSUME TypeOK, Types, Phases, [Next]_vars PROVE Types'
  BY SplitTypes
<1> USE DEF serverVars, linkVars, clientVars, idlerVars
<1>1. /\ requests \in Seq(Requests) /\ wire \in Seq(Answers)
      /\ <<>> \in Seq(Requests) /\ <<>> \in Seq(Answers)
      /\ arrived \in Nat /\ told \in Nat /\ seen \in Nat /\ buffer \in Nat /\ notifs \in Nat
      /\ told <= arrived /\ seen <= arrived
  BY Cleared DEF Types, Requests, Answers, Counts
<1>2. CASE Arrive
  BY <1>1, <1>2, ConstantsAssumption DEF Arrive, Types, Counts
<1>3. CASE Announce
  <2>1. wire' \in Seq(Answers)
    BY <1>3, Sends DEF Announce, Types
  <2> QED  BY <1>1, <1>3, <2>1 DEF Announce, Types
<1>4. CASE Serve
  <2> DEFINE c == Head(requests)
  <2>1. requests' \in Seq(Requests) /\ c \in Requests
    BY <1>4, Served DEF Serve
  <2>2. wire' \in Seq(Answers)
    <3>1. PICK n \in {told, arrived} :
            wire' = IF c = "done" THEN wire ELSE Append(wire, [kind |-> c, n |-> n])
      BY <1>4 DEF Serve
    <3>2. n \in Counts
      BY <1>1, ConstantsAssumption DEF Types, Counts
    <3>3. c # "done" => c \in Commands \cup {"idle", "exists"}
      BY <2>1 DEF Requests
    <3> HIDE DEF c
    <3> QED  BY <1>1, <3>1, <3>2, <3>3, Sends
  <2>3. told' \in 0..arrived /\ mode' \in {"auth", "selected", "idle"}
    BY <1>1, <1>4 DEF Serve, Types
  <2> QED  BY <1>1, <1>4, <2>1, <2>2, <2>3 DEF Serve, Types
<1>5. CASE Break
  BY <1>1, <1>5, ConstantsAssumption DEF Break, Fault, Types
<1>6. CASE ReadExists
  <2>1. wire' \in Seq(Answers)
    BY <1>6, Reads DEF ReadExists
  <2>2. missed' \in BOOLEAN /\ push' \in {"none", "send", "full"}
    BY <1>6 DEF ReadExists, Types
  <2> QED  BY <1>1, <1>6, <2>1, <2>2 DEF ReadExists, Types
<1>7. CASE Push \/ PushMissed \/ Replay \/ Take \/ Forward
  <2>1. CASE Push
    BY <1>1, <2>1, ConstantsAssumption DEF Push, Types
  <2>2. CASE PushMissed
    BY <2>2 DEF PushMissed, Types
  <2>3. CASE Replay
    BY <1>1, <2>3, ConstantsAssumption DEF Replay, StartIdler, Types
  <2>4. CASE Take
    BY <1>1, <2>4, ConstantsAssumption DEF Take, Types
  <2>5. CASE Forward
    BY <1>1, <2>5, ConstantsAssumption DEF Forward, Types
  <2> QED  BY <1>7, <2>1, <2>2, <2>3, <2>4, <2>5
<1>8. CASE ReadAnswer
  <2>1. wire' \in Seq(Answers) /\ Head(wire) = wire[1] /\ 1 \in 1..Len(wire)
    BY <1>8, Reads DEF ReadAnswer
  <2>2. Head(wire).n \in Nat /\ Head(wire).n <= arrived
    BY <2>1, Link, ConstantsAssumption DEF Phases, Counts
  <2>3. CASE Head(wire).kind = "idle"
    <3>1. pc' \in {"wait", pc} /\ idler' \in {"idling", idler}
          /\ UNCHANGED <<asked, seen, ignored>>
      BY <1>8, <2>3 DEF ReadAnswer, Ready, Commands
    <3> QED  BY <1>1, <1>8, <2>1, <3>1 DEF ReadAnswer, Types
  <2>4. CASE Head(wire).kind \in Commands
    <3>1. pc' \in {"search", "fetch", "register"} /\ idler' = idler /\ asked' = FALSE
      BY <1>8, <2>4 DEF ReadAnswer, Commands
    <3>2. seen' \in {seen, Max({seen, Head(wire).n})} /\ ignored' \in {ignored, FALSE}
      BY <1>8, <2>4 DEF ReadAnswer, Commands
    <3>3. Max({seen, Head(wire).n}) \in {seen, Head(wire).n}
      BY <1>1, <2>2, Newest
    <3>4. seen' \in 0..arrived
      BY <1>1, <2>2, <3>2, <3>3
    <3>5. pc' \in Commands \cup {"register"} /\ asked' \in BOOLEAN /\ ignored' \in BOOLEAN
      BY <3>1, <3>2 DEF Types, Commands
    <3> QED  BY <1>8, <2>1, <3>1, <3>4, <3>5 DEF ReadAnswer, Types
  <2> QED  BY <1>8, <2>3, <2>4 DEF ReadAnswer
<1>9. CASE Idle
  <2>1. pc' \in {"replay", "ready"} /\ idler' \in {"start", idler}
    BY <1>9 DEF Idle, StartIdler
  <2>2. buffer' \in 0..BufferCap /\ notifs' \in 0..NotifsCap
    BY <1>9, ConstantsAssumption DEF Idle
  <2>3. /\ registered' = TRUE /\ missed' = FALSE /\ stop' = FALSE
        /\ UNCHANGED <<arrived, told, seen, mode, conn, requests, wire, push, asked, catchup,
                      expired, ignored, faults>>
    BY <1>9 DEF Idle
  <2>4. pc' \in Commands \cup
                  {"dial", "register", "replay", "ready", "wait", "stopping", "leaving"}
    BY <2>1
  <2>5. idler' \in {"off", "start", "asked", "backoff", "idling", "forward"}
    BY <2>1 DEF Types
  <2>6. arrived' \in Counts /\ told' \in 0..arrived' /\ seen' \in 0..arrived'
    BY <2>3 DEF Types
  <2> QED  BY <2>2, <2>3, <2>4, <2>5, <2>6 DEF Types
<1>10. CASE AskIdle
  <2>1. requests' \in Seq(Requests)
    BY <1>10, Requested DEF AskIdle, Requests
  <2> QED  BY <1>1, <1>10, <2>1 DEF AskIdle, Types
<1>11. CASE IdleFails \/ RetryIdle
  BY <1>11, ConstantsAssumption DEF IdleFails, RetryIdle, Ready, Fault, Types
<1>12. CASE EndIdle
  <2>1. requests' \in Seq(Requests)
    BY <1>1, <1>12, Requested DEF EndIdle, Requests
  <2>2. pc' \in {"wait", pc}
    BY <1>12 DEF EndIdle, Ready
  <2> QED  BY <1>1, <1>12, <2>1, <2>2 DEF EndIdle, Types
<1>13. CASE Dial
  <2>1. /\ pc' \in {"select", "register"} /\ ignored' \in {ignored, TRUE}
        /\ faults' \in 0..MaxFaults
    <3>1. CASE pc' = "select" /\ UNCHANGED <<faults, ignored>>
      BY <3>1 DEF Types
    <3>2. CASE pc' = "register" /\ Fault /\ ignored' = TRUE
      BY <3>2, ConstantsAssumption DEF Fault, Types
    <3> QED  BY <1>13, <3>1, <3>2 DEF Dial
  <2>2. pc' \in Commands \cup {"register"} /\ ignored' \in BOOLEAN
    BY <2>1 DEF Types, Commands
  <2>3. told' \in 0..arrived' /\ buffer' \in 0..BufferCap
    BY <1>1, <1>13, ConstantsAssumption DEF Dial
  <2> QED  BY <1>1, <1>13, <2>1, <2>2, <2>3 DEF Dial, Types
<1>14. CASE Expire
  BY <1>14, ConstantsAssumption DEF Expire, Fault, Types
<1>15. CASE Ask
  <2>1. requests' \in Seq(Requests)
    BY <1>15, Requested DEF Ask, Requests
  <2> QED  BY <1>1, <1>15, <2>1 DEF Ask, Types
<1>16. CASE SyncFails \/ Left
  <2>1. faults' \in 0..MaxFaults
    BY <1>16, ConstantsAssumption DEF SyncFails, Left, Fault, Types
  <2> QED  BY <1>1, <1>16, <2>1 DEF SyncFails, Left, Close, Types
<1>17. CASE Receive
  <2>1. /\ pc' \in {"stopping", pc} /\ ignored' \in {ignored, TRUE} /\ stop' \in {stop, TRUE}
        /\ faults' \in 0..MaxFaults
    <3>1. CASE stop' = TRUE /\ pc' = "stopping" /\ UNCHANGED <<faults, ignored>>
      BY <3>1 DEF Types
    <3>2. CASE Fault /\ ignored' = TRUE /\ UNCHANGED <<pc, stop>>
      BY <3>2, ConstantsAssumption DEF Fault, Types
    <3> QED  BY <1>17, <3>1, <3>2 DEF Receive
  <2>2. notifs' \in 0..NotifsCap
    BY <1>1, <1>17, ConstantsAssumption DEF Receive, Types
  <2>3. pc' \in {pc, "stopping"} /\ ignored' \in BOOLEAN /\ stop' \in BOOLEAN
    BY <2>1 DEF Types
  <2> QED  BY <1>17, <2>1, <2>2, <2>3 DEF Receive, Types
<1>18. CASE Stopped \/ Leave
  BY <1>18 DEF Stopped, Leave, Types, Commands
<1>19. CASE UNCHANGED vars
  BY <1>19 DEF vars, Types
<1> QED  BY <1>2, <1>3, <1>4, <1>5, <1>6, <1>7, <1>8, <1>9, <1>10, <1>11, <1>12, <1>13, <1>14,
            <1>15, <1>16, <1>17, <1>18, <1>19, Zenon DEF Next, Idler, Session

LEMMA PhasesKept == TypeOK /\ Phases /\ Protocol /\ [Next]_vars => Phases'
<1> SUFFICES ASSUME TypeOK, Phases, Protocol, [Next]_vars PROVE Phases'
  OBVIOUS
<1> USE DEF serverVars, linkVars, clientVars, idlerVars, Phases, Commands
<1>1. /\ arrived \in Nat /\ told \in Nat /\ told <= arrived /\ Len(wire) \in Nat
      /\ \A i \in 1..Len(wire) : wire[i].n \in Nat
  BY Link, ConstantsAssumption DEF TypeOK, Counts
<1>2. CASE Arrive
  BY <1>1, <1>2 DEF Arrive
<1>3. CASE Announce
  <2>1. /\ Len(wire') = Len(wire) + 1 /\ wire'[Len(wire) + 1].n = arrived
        /\ \A i \in 1..Len(wire) : wire'[i] = wire[i]
    BY <1>3, Sends DEF Announce, TypeOK
  <2>2. \A i \in 1..Len(wire') : i \in 1..Len(wire) \/ i = Len(wire) + 1
    BY <1>1, <2>1
  <2> QED  BY <1>1, <1>3, <2>1, <2>2 DEF Announce
<1>4. CASE Serve
  <2>1. conn = "up" /\ UNCHANGED <<arrived, pc, idler, asked, registered, push, conn>>
    BY <1>4 DEF Serve
  <2>2. \A i \in 1..Len(wire') : wire'[i].n <= arrived
    <3> DEFINE c == Head(requests)
    <3>1. PICK n \in {told, arrived} :
            wire' = IF c = "done" THEN wire ELSE Append(wire, [kind |-> c, n |-> n])
      BY <1>4 DEF Serve
    <3>2. n \in Counts /\ n <= arrived
      BY <1>1, ConstantsAssumption DEF TypeOK, Counts
    <3>3. c # "done" => c \in Commands \cup {"idle", "exists"}
      BY <1>4, Served DEF Serve, Requests
    <3>4. CASE c = "done"
      BY <3>1, <3>4
    <3>5. CASE c # "done"
      <4> HIDE DEF c
      <4>1. /\ Len(wire') = Len(wire) + 1 /\ wire'[Len(wire) + 1].n = n
            /\ \A i \in 1..Len(wire) : wire'[i] = wire[i]
        BY <3>1, <3>2, <3>3, <3>5, Sends
      <4>2. \A i \in 1..Len(wire') : i \in 1..Len(wire) \/ i = Len(wire) + 1
        BY <1>1, <4>1
      <4> QED  BY <1>1, <3>2, <4>1, <4>2
    <3> QED  BY <3>4, <3>5
  <2> QED  BY <2>1, <2>2
<1>5. CASE Break \/ SyncFails \/ Left \/ Dial
  <2>1. wire' = <<>> /\ requests' = <<>> /\ arrived' = arrived /\ Len(wire') = 0
    BY <1>5, Cleared DEF Break, SyncFails, Left, Dial, Close
  <2> QED  BY <1>5, <2>1 DEF Break, SyncFails, Left, Dial, Close
<1>6. CASE ReadExists
  <2>1. /\ Len(wire') = Len(wire) - 1 /\ wire # <<>>
        /\ \A i \in 1..(Len(wire) - 1) : wire'[i] = wire[i + 1]
    BY <1>6, Reads DEF ReadExists
  <2>2. \A i \in 1..Len(wire') : i + 1 \in 1..Len(wire)
    BY <1>1, <2>1
  <2> QED  BY <1>1, <1>6, <2>1, <2>2 DEF ReadExists
<1>7. CASE Push \/ PushMissed \/ Replay \/ Take \/ Forward \/ Idle \/ RetryIdle \/ Expire
           \/ Receive \/ Stopped \/ Leave
  BY <1>7 DEF Push, PushMissed, Replay, Take, Forward, Idle, StartIdler, RetryIdle, Expire, Receive,
              Stopped, Leave
<1>8. CASE ReadAnswer
  <2>1. /\ Len(wire') = Len(wire) - 1 /\ wire # <<>> /\ Head(wire) = wire[1] /\ 1 \in 1..Len(wire)
        /\ \A i \in 1..(Len(wire) - 1) : wire'[i] = wire[i + 1]
    BY <1>8, Reads DEF ReadAnswer
  <2>2. \A i \in 1..Len(wire') : i + 1 \in 1..Len(wire)
    BY <1>1, <2>1
  <2>3. wire[1].kind \in Awaited
    BY <1>8, <2>1, Link DEF Protocol, Unanswered, Answered, Awaited, ReadAnswer
  <2> QED  BY <1>1, <1>8, <2>1, <2>2, <2>3 DEF ReadAnswer, Ready, Awaited
<1>9. CASE AskIdle \/ EndIdle \/ Ask
  <2>1. conn # "up" => requests' = requests
    BY <1>9 DEF AskIdle, EndIdle, Ask, Request
  <2> QED  BY <1>9, <2>1 DEF AskIdle, EndIdle, Ask, Ready
<1>10. CASE IdleFails
  BY <1>10 DEF IdleFails, Ready
<1>11. CASE UNCHANGED vars
  BY <1>11 DEF vars
<1> QED  BY <1>2, <1>3, <1>4, <1>5, <1>6, <1>7, <1>8, <1>9, <1>10, <1>11, Zenon
         DEF Next, Idler, Session

-----------------------------------------------------------------------------
(* What the connection owes.                                               *)

\* Nobody waits in IDLE and in a pass at once.
LEMMA Alone ==
  ASSUME TypeOK, Phases
  PROVE  /\ idler # "off" => ~asked
         /\ pc \notin Commands => ~asked
         /\ idler \in {"start", "backoff", "idling", "forward"} => Awaited = {}
         /\ idler = "asked" => Awaited = {"idle"}
         /\ idler = "off" => Awaited = IF asked THEN {pc} ELSE {}
         /\ asked \in BOOLEAN
<1>1. asked \in BOOLEAN
  BY SplitTypes DEF Types
<1> QED  BY <1>1 DEF Phases, Awaited

\* The states of the connection: idle, DONE under way, a command under way, DONE
\* and a command, or an answer.
LEMMA Line ==
  ASSUME TypeOK, Phases, Protocol, conn = "up"
  PROVE  \/ Awaited = {} /\ Len(requests) = 0 /\ ~Done /\ ~Sent /\ Unanswered
         \/ Awaited = {} /\ Len(requests) = 1 /\ Done /\ ~Sent /\ Unanswered
         \/ \E c \in Commands \cup {"idle"} :
              /\ Awaited = {c}
              /\ \/ Len(requests) = 1 /\ requests[1] = c /\ ~Done /\ Sent /\ Unanswered
                 \/ /\ Len(requests) = 2 /\ requests[1] = "done" /\ requests[2] = c
                    /\ Done /\ Sent /\ Unanswered
                 \/ Len(requests) = 0 /\ ~Done /\ ~Sent /\ Answered(c)
<1>1. Len(requests) \in Nat /\ (requests = <<>> <=> Len(requests) = 0)
  BY Link
<1>2. CASE Awaited = {}
  BY <1>1, <1>2 DEF Protocol, Sent, Done
<1>3. CASE Awaited # {}
  <2>1. PICK c \in Commands \cup {"idle"} : Awaited = {c}
    BY <1>3 DEF Awaited, Phases
  <2>2. "done" # c
    BY DEF Commands
  <2>3. CASE Sent
    BY <1>1, <2>1, <2>2, <2>3 DEF Protocol, Sent, Done
  <2>4. CASE ~Sent
    BY <1>1, <2>1, <2>2, <2>4 DEF Protocol, Sent, Done
  <2> QED  BY <2>3, <2>4
<1> QED  BY <1>2, <1>3

LEMMA ProtocolKept == TypeOK /\ Phases /\ Protocol /\ [Next]_vars => Protocol'
<1> SUFFICES ASSUME TypeOK, Phases, Protocol, [Next]_vars, conn' = "up" PROVE Protocol'
  BY DEF Protocol
<1> USE DEF serverVars, linkVars, clientVars, idlerVars
<1>1. Len(requests) \in Nat /\ Len(wire) \in Nat /\ (requests = <<>> <=> Len(requests) = 0)
  BY Link
<1>2. TypeOK' /\ Phases'
  BY TypesKept, PhasesKept
<1>3. Len(requests)' \in Nat /\ Len(wire)' \in Nat /\ (requests' = <<>> <=> Len(requests)' = 0)
  <2>1. requests' \in Seq(Requests) /\ wire' \in Seq(Answers)
    BY <1>2, SplitTypes DEF Types
  <2> QED  BY <2>1, Places
<1>4. CASE UNCHANGED <<conn, requests, wire, mode, asked>> /\ idler' = idler /\ pc' = pc
  BY <1>4 DEF Protocol, Awaited, Sent, Done, Unanswered, Answered
<1>5. CASE UNCHANGED <<conn, requests, wire, mode, asked>>
           /\ Awaited = {} /\ Awaited' = {}
           /\ (Done => idler' = "off" /\ pc' \notin {"search", "fetch", "register", "replay"})
           /\ (idler \in {"idling", "forward"} <=> idler' \in {"idling", "forward"})
           /\ idler # "asked" /\ idler' # "asked"
  BY <1>5 DEF Protocol, Sent, Done, Unanswered, Answered
<1>6. CASE Announce
  <2>1. /\ Len(wire') = Len(wire) + 1 /\ wire'[Len(wire) + 1].kind = "exists"
        /\ \A i \in 1..Len(wire) : wire'[i] = wire[i]
    BY <1>6, Sends DEF Announce, TypeOK
  <2>2. (Unanswered => Unanswered') /\ \A c : Answered(c) => Answered(c)'
    BY <1>1, <2>1 DEF Unanswered, Answered
  <2>3. UNCHANGED <<conn, requests, mode, asked, idler, pc>>
    BY <1>6 DEF Announce
  <2> QED  BY <2>2, <2>3 DEF Protocol, Awaited, Sent, Done
<1>7. CASE Serve
  <2> DEFINE r == Head(requests)
  <2>1. /\ conn = "up" /\ r = requests[1] /\ r \in Requests
        /\ UNCHANGED <<conn, asked, idler, pc>> /\ Awaited' = Awaited
        /\ mode' = IF r = "idle" THEN "idle" ELSE IF r \in {"select", "done"} THEN "selected" ELSE mode
    BY <1>7, Served DEF Serve, Awaited
  <2>2. /\ Len(requests)' = Len(requests) - 1
        /\ Len(requests) = 2 => requests'[1] = requests[2]
    BY <1>7, Served DEF Serve
  <2>3. Len(requests) > 0
    BY <1>1, <1>7 DEF Serve
  <2>4. CASE r = "done"
    <3>1. wire' = wire /\ mode' = "selected" /\ "done" \notin Commands \cup {"idle"}
      BY <1>7, <2>4 DEF Serve, Commands
    <3>2. Done /\ Unanswered /\ Unanswered'
      <4>1. Done
        BY <1>1, <2>1, <2>3, <2>4 DEF Done
      <4>2. Unanswered
        BY <2>1, <2>3, <4>1, Line
      <4> QED  BY <3>1, <4>1, <4>2 DEF Unanswered
    <3>3. CASE Awaited = {}
      <4>1. Len(requests)' = 0
        BY <1>1, <2>1, <2>2, <3>2, <3>3, Line
      <4> QED  BY <1>3, <2>1, <3>1, <3>2, <3>3, <4>1 DEF Protocol, Sent, Done, Awaited
    <3>4. CASE Awaited # {}
      <4>1. /\ Len(requests)' = 1 /\ requests'[1] \in Awaited /\ requests'[1] # "done"
        BY <1>1, <2>1, <2>2, <2>3, <3>1, <3>2, <3>4, Line
      <4>2. Sent' /\ ~Done'
        BY <1>3, <2>1, <4>1 DEF Sent, Done
      <4> QED  BY <1>3, <2>1, <3>1, <3>2, <4>1, <4>2 DEF Protocol, Awaited
    <3> QED  BY <3>3, <3>4
  <2>5. CASE r # "done"
    <3>1. /\ Awaited = {r} /\ Len(requests)' = 0 /\ ~Done /\ Sent /\ Unanswered
      BY <1>1, <2>1, <2>2, <2>3, <2>5, Line DEF Done
    <3>2. ASSUME NEW c, c = r PROVE Answered(c)'
      <4>1. PICK n \in {told, arrived} : wire' = Append(wire, [kind |-> r, n |-> n])
        BY <1>7, <2>5 DEF Serve
      <4>2. n \in Counts /\ r \in Commands \cup {"idle", "exists"}
        BY <2>1, <2>5, SplitTypes, ConstantsAssumption DEF Types, Counts, Requests
      <4> HIDE DEF r
      <4>3. /\ Len(wire') = Len(wire) + 1 /\ wire'[Len(wire) + 1].kind = r
            /\ \A i \in 1..Len(wire) : wire'[i] = wire[i]
        BY <4>1, <4>2, Sends
      <4> QED  BY <1>1, <3>1, <3>2, <4>3 DEF Unanswered, Answered
    <3>3. requests' = <<>> /\ Awaited' = {r} /\ ~Sent' /\ ~Done'
      BY <1>3, <2>1, <3>1 DEF Sent, Done
    <3>4. mode' = "idle" <=> idler' = "asked"
      <4>1. CASE r = "idle"
        BY <2>1, <3>1, <4>1 DEF Awaited, Phases, Commands
      <4>2. CASE r # "idle"
        BY <2>1, <3>1, <4>2 DEF Awaited, Protocol, Phases
      <4> QED  BY <4>1, <4>2
    <3>5. idler' \notin {"idling", "forward"}
      BY <2>1, <3>1, Alone
    <3> QED  BY <2>1, <3>1, <3>2, <3>3, <3>4, <3>5 DEF Protocol
  <2> QED  BY <2>4, <2>5
<1>8. CASE Dial
  <2>1. requests' = <<>> /\ Len(wire') = 0 /\ idler' = "off" /\ asked' = FALSE /\ mode' = "auth"
    BY <1>8, Cleared DEF Dial, Phases
  <2> QED  BY <1>3, <2>1 DEF Protocol, Awaited, Sent, Done, Unanswered
<1>9. CASE ReadExists
  <2>1. /\ Len(wire') = Len(wire) - 1 /\ Len(wire) > 0 /\ wire[1].kind = "exists"
        /\ \A i \in 1..(Len(wire) - 1) : wire'[i] = wire[i + 1]
    BY <1>1, <1>9, Reads DEF ReadExists
  <2>2. Unanswered => Unanswered'
    BY <1>1, <2>1 DEF Unanswered
  <2>3. ASSUME NEW c \in Awaited, Answered(c) PROVE Answered(c)'
    <3>1. c # "exists"
      BY DEF Awaited, Phases, Commands
    <3>2. PICK i \in 1..Len(wire) :
            wire[i].kind = c /\ \A j \in 1..Len(wire) : j # i => wire[j].kind = "exists"
      BY <2>3 DEF Answered
    <3>3. i - 1 \in 1..Len(wire') /\ wire'[i - 1].kind = c
      BY <1>1, <2>1, <3>1, <3>2
    <3>4. \A j \in 1..Len(wire') : j # i - 1 => wire'[j].kind = "exists"
      BY <1>1, <2>1, <3>2
    <3> QED  BY <3>3, <3>4 DEF Answered
  <2>4. UNCHANGED <<conn, requests, mode, asked, idler, pc>>
    BY <1>9 DEF ReadExists
  <2> QED  BY <2>2, <2>3, <2>4 DEF Protocol, Awaited, Sent, Done
<1>10. CASE ReadAnswer
  <2>1. /\ Len(wire') = Len(wire) - 1 /\ Len(wire) > 0 /\ wire[1].kind # "exists"
        /\ Head(wire) = wire[1]
        /\ \A i \in 1..(Len(wire) - 1) : wire'[i] = wire[i + 1]
        /\ UNCHANGED <<conn, requests, mode>>
    BY <1>1, <1>10, Reads DEF ReadAnswer
  <2>2. /\ Awaited = {wire[1].kind} /\ Len(requests) = 0 /\ ~Done /\ ~Sent
        /\ \A j \in 1..Len(wire) : j # 1 => wire[j].kind = "exists"
    BY <1>1, <1>10, <2>1, Line DEF Unanswered, Answered
  <2>3. Unanswered'
    BY <1>1, <2>1, <2>2 DEF Unanswered
  <2>4. Awaited' = {} /\ (mode = "idle" <=> idler' = "idling") /\ idler' # "forward"
    <3>1. CASE idler = "asked"
      <4>1. wire[1].kind = "idle" /\ ~asked
        BY <2>2, <3>1, Alone
      <4> QED  BY <1>10, <2>1, <2>2, <3>1, <4>1 DEF ReadAnswer, Awaited, Protocol, Commands
    <3>2. CASE idler # "asked"
      <4>1. idler = "off" /\ asked /\ wire[1].kind = pc /\ pc \in Commands
        BY <2>2, <3>2 DEF Awaited, Phases
      <4> QED  BY <1>10, <2>1, <2>2, <3>2, <4>1 DEF ReadAnswer, Awaited, Protocol, Commands
    <3> QED  BY <3>1, <3>2
  <2> QED  BY <1>3, <2>1, <2>2, <2>3, <2>4 DEF Protocol, Sent, Done, Awaited
<1>11. CASE AskIdle
  <2>1. Awaited = {} /\ Len(requests) = 0 /\ Unanswered /\ mode # "idle" /\ conn = "up"
    BY <1>11, Alone, Line DEF AskIdle, Protocol
  <2>2. Len(requests)' = 1 /\ requests'[1] = "idle"
    BY <1>11, <2>1, Requested DEF AskIdle, Requests
  <2>3. UNCHANGED <<wire, mode, conn>> /\ Awaited' = {"idle"}
    BY <1>11 DEF AskIdle, Awaited
  <2>4. Sent' /\ ~Done'
    BY <1>3, <2>2, <2>3 DEF Sent, Done
  <2>5. Unanswered' /\ idler' = "asked"
    BY <1>11, <2>1, <2>3 DEF AskIdle, Unanswered
  <2> QED  BY <2>1, <2>2, <2>3, <2>4, <2>5 DEF Protocol
<1>12. CASE EndIdle
  <2>1. /\ Awaited = {} /\ Len(requests) = 0 /\ Unanswered /\ conn = "up" /\ ~Done
        /\ (mode = "idle" <=> idler \in {"idling", "forward"})
    BY <1>12, Alone, Line DEF EndIdle, Protocol
  <2>2. /\ UNCHANGED <<wire, mode, conn, asked>> /\ ~asked /\ idler' = "off" /\ Awaited' = {}
        /\ pc' \in {"ready", "wait", "stopping", "leaving"}
    BY <1>12, Alone, SplitTypes DEF EndIdle, Ready, Awaited, Phases, Types
  <2>3. Unanswered' /\ ~Sent'
    BY <2>1, <2>2 DEF Unanswered, Sent
  <2>4. CASE idler \in {"idling", "forward"}
    <3>1. Len(requests)' = 1 /\ requests'[1] = "done"
      BY <1>12, <2>1, <2>4, Requested DEF EndIdle, Requests
    <3>2. Done'
      BY <1>3, <3>1 DEF Done
    <3> QED  BY <2>1, <2>2, <2>3, <2>4, <3>1, <3>2 DEF Protocol
  <2>5. CASE idler \notin {"idling", "forward"}
    <3>1. requests' = requests /\ ~Done'
      BY <1>12, <2>1, <2>5 DEF EndIdle, Done
    <3> QED  BY <2>1, <2>2, <2>3, <2>5, <3>1 DEF Protocol
  <2> QED  BY <2>4, <2>5
<1>13. CASE Ask
  <2>1. Awaited = {} /\ Len(requests) = (IF Done THEN 1 ELSE 0) /\ Unanswered /\ conn = "up"
        /\ (mode = "idle" <=> Done) /\ idler = "off"
    BY <1>13, Alone, Line DEF Ask, Phases, Protocol
  <2>2. /\ Len(requests)' = Len(requests) + 1 /\ requests'[Len(requests)'] = pc
        /\ Len(requests) # 0 => requests'[1] = requests[1]
    BY <1>1, <1>13, <2>1, Requested DEF Ask, Requests
  <2>3. UNCHANGED <<wire, mode, conn, pc, idler>> /\ Awaited' = {pc} /\ pc \in Commands /\ pc # "done"
    BY <1>13, <2>1 DEF Ask, Awaited, Commands
  <2>4. Sent' /\ (Done' <=> Done)
    BY <1>1, <1>3, <2>1, <2>2, <2>3 DEF Sent, Done
  <2>5. Unanswered'
    BY <2>1, <2>3 DEF Unanswered
  <2> QED  BY <2>1, <2>2, <2>3, <2>4, <2>5 DEF Protocol
<1>14. CASE Break \/ SyncFails \/ Left
  BY <1>14 DEF Break, SyncFails, Left, Close
<1>15. CASE Arrive \/ Push \/ PushMissed \/ Expire \/ UNCHANGED vars
  BY <1>4, <1>15 DEF Arrive, Push, PushMissed, Expire, vars
<1>16. CASE Idle \/ Replay \/ Receive \/ Stopped \/ Leave
  <2>1. UNCHANGED <<conn, requests, wire, mode, asked>> /\ conn = "up"
    BY <1>16 DEF Idle, Replay, Receive, Stopped, Leave
  <2>2. ~asked /\ idler \in {idler', "off"} /\ (idler' = idler \/ idler' = "start")
    BY <1>16, Alone DEF Idle, Replay, StartIdler, Receive, Stopped, Leave, Phases, Commands
  <2>3. CASE idler' = idler
    <3>1. Awaited' = Awaited
      BY <2>1, <2>2, <2>3 DEF Awaited
    <3>2. Done => idler' = "off" /\ pc' \notin {"search", "fetch", "register", "replay"}
      BY <1>16, <2>1, <2>3 DEF Idle, Replay, StartIdler, Receive, Stopped, Leave, Protocol
    <3> QED  BY <2>1, <2>3, <3>1, <3>2 DEF Protocol, Sent, Done, Unanswered, Answered
  <2>4. CASE idler' # idler
    <3>1. Awaited = {} /\ Awaited' = {} /\ idler = "off" /\ idler' = "start"
      BY <2>1, <2>2, <2>4, Alone DEF Awaited
    <3>2. ~Done
      BY <1>16, <2>1, <2>4 DEF Idle, Replay, StartIdler, Receive, Stopped, Leave, Protocol
    <3> QED  BY <1>5, <2>1, <3>1, <3>2
  <2> QED  BY <2>3, <2>4
<1>17. CASE IdleFails \/ RetryIdle \/ Take \/ Forward
  <2>1. UNCHANGED <<conn, requests, wire, mode, asked>> /\ conn = "up"
    BY <1>17 DEF IdleFails, RetryIdle, Take, Forward
  <2>2. idler \in {"start", "backoff", "idling", "forward"} /\ idler' \in {"start", "backoff", "idling", "forward"}
        /\ (idler \in {"idling", "forward"} <=> idler' \in {"idling", "forward"})
    BY <1>17, <2>1 DEF IdleFails, RetryIdle, Take, Forward
  <2>3. Awaited = {} /\ Awaited' = {} /\ ~Done
    BY <2>1, <2>2, Alone DEF Awaited, Protocol
  <2> QED  BY <1>5, <2>1, <2>2, <2>3
<1> QED  BY <1>6, <1>7, <1>8, <1>9, <1>10, <1>11, <1>12, <1>13, <1>14, <1>15, <1>16, <1>17, Zenon
         DEF Next, Idler, Session

-----------------------------------------------------------------------------
(* Who holds the news.                                                     *)

\* HandOver at each point of the session.
Searched ==
  \A i \in 1..Len(wire) : wire[i].kind = "search" =>
    wire[i].n >= told \/ \E j \in 1..Len(wire) : j > i /\ wire[j].kind = "exists"
Fetched == Fresh \/ missed \/ InWire
Asleep  == Fresh \/ InWire \/ push # "none" \/ buffer > 0 \/ idler = "forward" \/ notifs > 0

LEMMA HandOverIs ==
  /\ HandOver <=> (conn = "up" =>
       /\ pc = "search" => Searched
       /\ pc \in {"fetch", "register"} => Fetched
       /\ pc \in {"ready", "wait"} /\ idler # "off" => Asleep)
  /\ HandOver' <=> (conn' = "up" =>
       /\ pc' = "search" => Searched'
       /\ pc' \in {"fetch", "register"} => Fetched'
       /\ pc' \in {"ready", "wait"} /\ idler' # "off" => Asleep')
BY DEF HandOver, Searched, Fetched, Asleep

LEMMA HandOverKept == TypeOK /\ Phases /\ Protocol /\ HandOver /\ Full /\ [Next]_vars => HandOver'
<1> SUFFICES ASSUME TypeOK, Phases, Protocol, HandOver, Full, [Next]_vars, conn' = "up"
             PROVE  /\ pc' = "search" => Searched'
                    /\ pc' \in {"fetch", "register"} => Fetched'
                    /\ pc' \in {"ready", "wait"} /\ idler' # "off" => Asleep'
  BY HandOverIs
<1> USE DEF serverVars, linkVars, clientVars, idlerVars
<1>1. /\ Len(wire) \in Nat /\ (requests = <<>> <=> Len(requests) = 0)
      /\ arrived \in Nat /\ told \in Nat /\ seen \in Nat /\ told <= arrived
      /\ buffer \in Nat /\ notifs \in Nat
      /\ ignored \in BOOLEAN /\ missed \in BOOLEAN
      /\ \A i \in 1..Len(wire) : wire[i].n \in Nat
  BY Link, SplitTypes, ConstantsAssumption DEF Types, Counts
<1>2. conn = "up" => /\ pc = "search" => Searched
                     /\ pc \in {"fetch", "register"} => Fetched
                     /\ pc \in {"ready", "wait"} /\ idler # "off" => Asleep
  BY HandOverIs
<1>3. idler # "off" => pc \notin Commands \cup {"dial", "register", "replay"}
  BY DEF Phases
<1>4. CASE Arrive \/ Ask \/ Expire \/ UNCHANGED vars
  BY <1>2, <1>4 DEF Arrive, Ask, Expire, vars, Searched, Fetched, Asleep, Fresh, InWire
<1>5. CASE Announce
  <2>1. /\ Len(wire') = Len(wire) + 1 /\ wire'[Len(wire) + 1].kind = "exists"
        /\ \A i \in 1..Len(wire) : wire'[i] = wire[i]
    BY <1>5, Sends DEF Announce, TypeOK
  <2>2. InWire'
    BY <1>1, <2>1 DEF InWire
  <2>3. Searched'
    BY <1>1, <2>1 DEF Searched
  <2> QED  BY <2>2, <2>3 DEF Fetched, Asleep
<1>6. CASE Serve
  <2> DEFINE r == Head(requests)
  <2>1. /\ conn = "up" /\ r = requests[1] /\ r \in Requests /\ Len(requests) # 0
        /\ UNCHANGED <<conn, asked, idler, pc, seen, ignored, missed, push, buffer, notifs>>
        /\ told' = IF r = "select" THEN arrived ELSE told
    BY <1>1, <1>6, Served DEF Serve
  <2>2. CASE r = "done"
    BY <1>2, <1>6, <2>1, <2>2 DEF Serve, Searched, Fetched, Asleep, Fresh, InWire
  <2>3. CASE r # "done"
    <3>1. Awaited = {r} /\ Unanswered
      <4>1. ~Done
        BY <2>1, <2>3 DEF Done
      <4> QED  BY <2>1, <4>1, Line
    <3>2. PICK n \in {told, arrived} : wire' = Append(wire, [kind |-> r, n |-> n])
      BY <1>6, <2>3 DEF Serve
    <3>3. n \in Counts /\ r \in Commands \cup {"idle", "exists"} /\ n \in Nat /\ n >= told
      BY <1>1, <2>1, <2>3, SplitTypes, ConstantsAssumption DEF Types, Counts, Requests
    <3> HIDE DEF r
    <3>4. /\ Len(wire') = Len(wire) + 1
          /\ wire'[Len(wire) + 1].kind = r /\ wire'[Len(wire) + 1].n = n
          /\ \A i \in 1..Len(wire) : wire'[i] = wire[i]
      BY <3>2, <3>3, Sends
    <3>5. InWire => InWire'
      BY <1>1, <3>4 DEF InWire
    <3>6. r = "idle" \/ (asked /\ r = pc)
      BY <3>1 DEF Awaited
    <3>7. CASE r = "select"
      <4>1. pc = "select"
        BY <3>6, <3>7
      <4> QED  BY <2>1, <4>1
    <3>8. CASE r # "select"
      <4>1. told' = told
        BY <2>1, <3>8
      <4>2. \A i \in 1..Len(wire') :
              /\ i \in 1..Len(wire) => wire'[i].kind = "exists"
              /\ i \notin 1..Len(wire) => wire'[i].n >= told'
        BY <1>1, <3>1, <3>3, <3>4, <4>1 DEF Unanswered
      <4>3. Searched'
        BY <4>2 DEF Searched
      <4> QED  BY <1>2, <2>1, <3>5, <4>1, <4>3 DEF Fetched, Asleep, Fresh
    <3> QED  BY <3>7, <3>8
  <2> QED  BY <2>2, <2>3
<1>7. CASE Break \/ SyncFails \/ Left
  BY <1>7 DEF Break, SyncFails, Left, Close
<1>8. CASE ReadExists
  <2>1. /\ Len(wire') = Len(wire) - 1 /\ Len(wire) > 0 /\ wire[1].kind = "exists"
        /\ \A i \in 1..(Len(wire) - 1) : wire'[i] = wire[i + 1]
    BY <1>1, <1>8, Reads, Link DEF ReadExists
  <2>2. UNCHANGED <<conn, told, seen, ignored, pc, idler, buffer, notifs>>
    BY <1>8 DEF ReadExists
  <2>3. registered => push' # "none"
    BY <1>8 DEF ReadExists
  <2>4. ~registered => missed' = TRUE
    BY <1>8 DEF ReadExists
  <2>5. Searched => Searched'
    <3>1. ASSUME Searched, NEW i \in 1..Len(wire'), wire'[i].kind = "search", ~(wire'[i].n >= told')
          PROVE  \E j \in 1..Len(wire') : j > i /\ wire'[j].kind = "exists"
      <4>1. i + 1 \in 1..Len(wire) /\ wire[i + 1] = wire'[i]
        BY <1>1, <2>1
      <4>2. PICK j \in 1..Len(wire) : j > i + 1 /\ wire[j].kind = "exists"
        BY <2>2, <3>1, <4>1 DEF Searched
      <4>3. j - 1 \in 1..Len(wire') /\ j - 1 > i /\ wire'[j - 1] = wire[j]
        BY <1>1, <2>1, <4>2
      <4> QED  BY <4>2, <4>3
    <3> QED  BY <3>1 DEF Searched
  <2>6. pc \in {"fetch", "register"} => ~registered
    BY <1>3 DEF Phases, Commands
  <2>7. idler # "off" => registered
    BY DEF Phases
  <2> QED  BY <1>2, <2>2, <2>3, <2>4, <2>5, <2>6, <2>7 DEF Fetched, Asleep
<1>9. CASE Push
  <2>1. /\ UNCHANGED <<conn, told, seen, ignored, pc, idler, notifs, wire, missed>>
        /\ buffer' > 0 \/ push' # "none"
    BY <1>1, <1>9 DEF Push
  <2>2. pc \notin {"fetch", "register"}
    BY <1>9 DEF Push, Phases
  <2> QED  BY <1>2, <2>1, <2>2 DEF Searched, Asleep
<1>10. CASE PushMissed
  <2>1. /\ UNCHANGED <<conn, told, seen, ignored, pc, idler, notifs, wire, buffer>>
        /\ push = "full"
    BY <1>10 DEF PushMissed
  <2>2. pc \notin {"fetch", "register"}
    BY <2>1 DEF Phases
  <2> QED  BY <1>2, <2>1, <2>2 DEF Searched, Asleep, Full, Fresh
<1>11. CASE ReadAnswer
  <2>1. /\ Len(wire') = Len(wire) - 1 /\ Len(wire) > 0 /\ wire[1].kind # "exists"
        /\ Head(wire) = wire[1] /\ 1 \in 1..Len(wire)
        /\ \A i \in 1..(Len(wire) - 1) : wire'[i] = wire[i + 1]
        /\ UNCHANGED <<conn, told, missed, push, buffer, notifs>>
    BY <1>1, <1>11, Reads, Link DEF ReadAnswer
  <2>2. /\ Awaited = {wire[1].kind}
        /\ \A j \in 1..Len(wire) : j # 1 => wire[j].kind = "exists"
    BY <1>1, <1>11, <2>1, Line DEF Unanswered, Answered
  <2>3. \A i \in 1..Len(wire) : i # 1 => i - 1 \in 1..Len(wire') /\ wire'[i - 1] = wire[i]
    BY <1>1, <2>1
  <2>4. InWire => InWire'
    BY <2>1, <2>3 DEF InWire
  <2>5. Searched'
    BY <1>1, <2>1, <2>2 DEF Searched
  <2>6. CASE idler = "asked"
    <3>1. wire[1].kind = "idle"
      BY <2>2, <2>6, Alone
    <3>2. /\ pc' = (IF pc = "ready" THEN "wait" ELSE pc) /\ idler' = "idling"
          /\ UNCHANGED <<seen, ignored>>
      BY <1>11, <2>1, <2>6, <3>1 DEF ReadAnswer, Ready, Commands
    <3> QED  BY <1>2, <1>3, <2>1, <2>4, <2>6, <3>2 DEF Asleep, Fresh, Commands
  <2>7. CASE idler # "asked"
    <3>1. asked /\ wire[1].kind = pc /\ pc \in Commands
      BY <2>2, <2>7 DEF Awaited, Phases
    <3>2. /\ pc = "select" => pc' = "search"
          /\ pc = "search" => pc' = "fetch" /\ seen' = Max({seen, wire[1].n})
          /\ pc = "fetch" => pc' = "register" /\ UNCHANGED <<seen, ignored>>
      <4>1. wire[1].kind # "idle"
        BY <3>1 DEF Commands
      <4>2. /\ pc' = [select |-> "search", search |-> "fetch", fetch |-> "register"][pc]
            /\ IF pc = "search" THEN seen' = Max({seen, wire[1].n})
                               ELSE UNCHANGED <<seen, ignored>>
        BY <1>11, <2>1, <3>1, <4>1 DEF ReadAnswer
      <4>3. CASE pc = "select"
        BY <4>2, <4>3
      <4>4. CASE pc = "search"
        BY <4>2, <4>4
      <4>5. CASE pc = "fetch"
        BY <4>2, <4>5
      <4> QED  BY <3>1, <4>3, <4>4, <4>5 DEF Commands
    <3>3. CASE pc = "search"
      <4>1. Max({seen, wire[1].n}) >= wire[1].n /\ wire[1].n \in Nat /\ seen' \in Nat
        BY <1>1, <2>1, <3>2, <3>3, Newest
      <4>2. wire[1].n >= told \/ InWire
        BY <1>2, <2>1, <3>1, <3>3 DEF Searched, InWire
      <4>3. Fetched'
        BY <1>1, <2>1, <2>4, <3>2, <3>3, <4>1, <4>2 DEF Fetched, Fresh
      <4> QED  BY <3>2, <3>3, <4>3
    <3>4. CASE pc = "fetch"
      BY <1>2, <2>1, <2>4, <3>2, <3>4 DEF Fetched, Fresh
    <3> QED  BY <2>5, <3>1, <3>2, <3>3, <3>4 DEF Commands
  <2> QED  BY <2>6, <2>7
<1>12. CASE Idle
  <2>1. /\ pc = "register" /\ UNCHANGED <<conn, told, wire, seen, ignored>>
        /\ pc' = "replay" \/ (missed = FALSE /\ pc' = "ready")
    BY <1>1, <1>12 DEF Idle, StartIdler
  <2> QED  BY <1>2, <2>1 DEF Fetched, Asleep, Fresh, InWire
<1>13. CASE Replay \/ Forward
  <2>1. /\ UNCHANGED <<conn, told, wire, seen, ignored, missed>> /\ (buffer' > 0 \/ notifs' > 0)
        /\ pc' \in {pc, "ready"}
    BY <1>1, <1>13 DEF Replay, StartIdler, Forward
  <2> QED  BY <1>2, <2>1 DEF Fetched, Asleep, Fresh, InWire, Searched
<1>14. CASE AskIdle \/ RetryIdle \/ IdleFails
  BY <1>2, <1>3, <1>14 DEF AskIdle, RetryIdle, IdleFails, Ready, Asleep, Fresh, InWire, Commands
<1>15. CASE Take
  BY <1>3, <1>15 DEF Take, Asleep, Commands
<1>16. CASE EndIdle
  BY <1>3, <1>16 DEF EndIdle, Ready, Commands
<1>17. CASE Dial
  BY <1>1, <1>17 DEF Dial, Fetched, Fresh
<1>18. CASE Receive \/ Stopped \/ Leave
  BY <1>18 DEF Receive, Stopped, Leave, Asleep, Fresh
<1> QED  BY <1>4, <1>5, <1>6, <1>7, <1>8, <1>9, <1>10, <1>11, <1>12, <1>13, <1>14, <1>15, <1>16,
            <1>17, <1>18, Zenon DEF Next, Idler, Session

\* A channel is filled by others before a notification finds it full.
LEMMA FullKept == TypeOK /\ Phases /\ Protocol /\ Full /\ [Next]_vars => Full'
<1> SUFFICES ASSUME TypeOK, Phases, Protocol, Full, [Next]_vars PROVE Full'
  OBVIOUS
<1> USE DEF serverVars, linkVars, clientVars, idlerVars, Full
<1>1. buffer \in Nat /\ notifs \in Nat /\ BufferCap > 0
  BY SplitTypes, ConstantsAssumption DEF Types
<1>2. idler # "off" => pc \notin Commands \cup {"dial", "register", "replay"}
  BY DEF Phases
<1>3. CASE Arrive \/ Announce \/ Serve \/ Break \/ PushMissed \/ Ask \/ Expire \/ UNCHANGED vars
  BY <1>3 DEF Arrive, Announce, Serve, Break, PushMissed, Ask, Expire, vars
<1>4. CASE ReadExists \/ ReadAnswer
  <2>1. push' # "full"
    BY <1>4 DEF ReadExists, ReadAnswer
  <2> QED  BY <2>1
<1>5. CASE Push
  BY <1>1, <1>5 DEF Push
<1>6. CASE Idle
  BY <1>6 DEF Idle, Phases
<1>7. CASE Replay \/ Take \/ Forward
  BY <1>1, <1>7 DEF Replay, StartIdler, Take, Forward
<1>8. CASE AskIdle \/ IdleFails \/ RetryIdle
  BY <1>8 DEF AskIdle, IdleFails, RetryIdle, Ready
<1>9. CASE EndIdle \/ Dial \/ SyncFails \/ Left
  BY <1>9 DEF EndIdle, Dial, SyncFails, Left, Close
<1>10. CASE Receive \/ Stopped \/ Leave
  BY <1>10 DEF Receive, Stopped, Leave
<1> QED  BY <1>3, <1>4, <1>5, <1>6, <1>7, <1>8, <1>9, <1>10, Zenon DEF Next, Idler, Session

LEMMA Invariance == Spec => []Inv
<1>1. Inv /\ [Next]_vars => Inv'
  BY TypesKept, PhasesKept, ProtocolKept, HandOverKept, FullKept DEF Inv
<1> QED  BY InitInv, <1>1, PTL DEF Spec

-----------------------------------------------------------------------------
(* What holds of the specification.                                        *)

\* Every variable has its type: the channels keep within their capacities, the
\* server tells of no message it has not, and the database catches up with none.
THEOREM TypeCorrectness == Spec => []TypeOK
<1>1. Inv => TypeOK
  BY DEF Inv
<1> QED  BY Invariance, <1>1, PTL

\* A command never meets a server in IDLE: DONE is ahead of it.
THEOREM DoneComesFirst == Spec => []DoneBeforeCommands
<1>1. Inv => DoneBeforeCommands
  <2> SUFFICES ASSUME Inv, mode = "idle", requests # <<>> PROVE Head(requests) = "done"
    BY DEF DoneBeforeCommands
  <2>1. TypeOK /\ Phases /\ Protocol /\ conn = "up"
    BY DEF Inv, Phases
  <2>2. Len(requests) # 0 /\ requests \in Seq(Requests)
    BY <2>1, Link, SplitTypes DEF Types
  <2>3. Done
    <3>1. SUFFICES ASSUME ~Done PROVE FALSE
      OBVIOUS
    <3>2. Sent /\ Awaited # {}
      BY <2>1, <2>2, <3>1, Line
    <3>3. idler \in {"idling", "forward"}
      BY <2>1, <3>1, <3>2 DEF Protocol
    <3> QED  BY <2>1, <3>2, <3>3, Alone
  <2> QED  BY <2>2, <2>3, HeadTailProperties DEF Done
<1> QED  BY Invariance, <1>1, PTL

\* A session that sleeps in IDLE with nothing under way has caught up with all
\* the server has told it, but for a pass left out because the folder's id was
\* not found: no notification is lost between one IDLE and the next.
THEOREM SleepersAreCaughtUp == Spec => []QuietIsCaughtUp
<1>1. Inv => QuietIsCaughtUp
  <2> SUFFICES ASSUME Inv, Quiet PROVE Fresh
    BY DEF QuietIsCaughtUp, Fresh
  <2>1. Len(wire) = 0
    BY Cleared DEF Quiet
  <2> QED  BY <2>1 DEF Inv, HandOver, Quiet, InWire
<1> QED  BY Invariance, <1>1, PTL
=============================================================================
