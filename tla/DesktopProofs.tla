----------------------------- MODULE DesktopProofs -----------------------------
(***************************************************************************)
(* Proofs about the subscribers of the event bus: Badge and Notices, the   *)
(* two halves of the tray, and View, the frontend. For any number of       *)
(* messages, threads, profiles and handlers, any capacity of the channel   *)
(* and of pendingActions, and any bounds on faults and on the user.        *)
(***************************************************************************)
EXTENDS Badge, Notices, View, FiniteLemmas, TLAPS

(***************************************************************************)
(* Badge. That the badge is right at rest is not inductive: an event in    *)
(* the channel, or a goroutine that has not read yet, stands for all       *)
(* events that were dropped before it (Coming), and one that has read must *)
(* have read what is still the total, unless another will show after it.   *)
(***************************************************************************)
Producers == {"writer", "api"}
BadgeEvents == {"changed", "arrived"}
Points == {"idle", "read", "show", "off"}
Refresh == [pc : Points, total : Nat, dated : BOOLEAN]

\* TypeOK, and that no goroutine has read a total of more than is stored.
BadgeTypes ==
  /\ unread \subseteq stored /\ stored \subseteq Messages /\ muted \in BOOLEAN
  /\ outbox \in [Producers -> Seq(BadgeEvents)] /\ \A p \in Producers : Len(outbox[p]) <= 2
  /\ channel \in Seq(BadgeEvents) /\ Len(channel) <= Capacity
  /\ refresh \in [Refreshers -> Refresh]
  /\ \A r \in Refreshers : refresh[r].total <= Cardinality(stored)
  /\ badge \in Nat /\ badge <= Cardinality(stored)
  /\ behind \in BOOLEAN
  /\ silents \in 0..MaxSilent /\ faults \in 0..MaxFaults

\* The database is going to be read, whatever becomes of the events to come.
Coming ==
  \/ \E p \in Producers : outbox[p] # <<>>
  \/ channel # <<>>
  \/ refresh[Consumer].pc = "read" \/ refresh[Prime].pc = "read"

\* One of the goroutines that an event or the start has sent shows what it has read.
Showing == {r \in {Consumer, Prime} : refresh[r].pc = "show"}

\* A total that is about to be shown is right, dated, or not the last.
TotalsAreRight ==
  \A r \in Refreshers : refresh[r].pc = "show" =>
    refresh[r].dated \/ refresh[r].total = Total \/ Coming \/ Showing \ {r} # {}

\* The badge is right, excused, or going to be drawn again.
BadgeIsRight == badge = Total \/ behind \/ Coming \/ Showing # {}

BadgeInv == BadgeTypes /\ TotalsAreRight /\ BadgeIsRight

\* No more messages are unread than are stored, nor stored than there are.
LEMMA TotalIsSmall ==
  ASSUME BadgeTypes
  PROVE  /\ Total \in Nat /\ Total <= Cardinality(stored)
         /\ Cardinality(stored) \in Nat /\ Cardinality(stored) <= Cardinality(Messages)
         /\ Cardinality(Messages) \in Nat
<1>1. IsFiniteSet(stored) /\ IsFiniteSet(unread)
  BY FS_Subset, BadgeAssumption DEF BadgeTypes
<1>2. /\ Cardinality(unread) \in Nat /\ Cardinality(stored) \in Nat
      /\ Cardinality(Messages) \in Nat
  BY <1>1, FS_CardinalityType, BadgeAssumption
<1>3. Cardinality(unread) <= Cardinality(stored) /\ Cardinality(stored) <= Cardinality(Messages)
  BY <1>1, FS_Subset, BadgeAssumption DEF BadgeTypes
<1> QED  BY <1>2, <1>3 DEF Total

\* The type as the runs check it follows from that as the proofs use it.
LEMMA BadgeTypesGiveTypeOK ==
  ASSUME BadgeTypes
  PROVE  BadgeTypeOK
BY TotalIsSmall DEF BadgeTypes, BadgeTypeOK, Producers, BadgeEvents, Refresh, Points

\* An event that is dropped finds others in the channel.
LEMMA Sent ==
  ASSUME NEW S, NEW q \in Seq(S), Len(q) <= Capacity, NEW e \in S
  PROVE  Send(q, e) \in Seq(S) /\ Len(Send(q, e)) <= Capacity /\ Send(q, e) # <<>>
<1>1. Append(q, e) \in Seq(S) /\ Len(Append(q, e)) = Len(q) + 1
  BY Appended
<1>5. Len(q) \in Nat /\ (q = <<>> <=> Len(q) = 0) /\ (Append(q, e) = <<>> <=> Len(Append(q, e)) = 0)
  BY <1>1, Places
<1>2. Capacity \in Nat \ {0}
  BY CapacityAssumption
<1>3. IsFull(q) <=> Len(q) = Capacity
  BY DEF IsFull
<1>4. Send(q, e) = IF IsFull(q) THEN q ELSE Append(q, e)
  BY DEF Send
<1> QED  BY <1>1, <1>2, <1>3, <1>4, <1>5

\* NewController starts with an empty badge and one refresh to come.
LEMMA BadgeInitially ==
  ASSUME BadgeInit
  PROVE  BadgeInv
<1>1. Cardinality(stored) = 0 /\ Total = 0
  BY FS_EmptySet DEF BadgeInit, Total
<1>2. <<>> \in Seq(BadgeEvents) /\ Len(<<>>) = 0
  BY EmptySeq
<1>3. /\ refresh \in [Refreshers -> Refresh]
      /\ \A r \in Refreshers : refresh[r].total = 0 /\ refresh[r].pc # "show"
  BY DEF BadgeInit, At, Refresh, Points
<1>6. outbox \in [Producers -> Seq(BadgeEvents)] /\ \A p \in Producers : outbox[p] = <<>>
  BY <1>2 DEF BadgeInit, Producers
<1>7. 0 \in 0..MaxSilent /\ 0 \in 0..MaxFaults /\ 0 <= Capacity
  BY BadgeAssumption, CapacityAssumption
<1>4. BadgeTypes
  <2>1. channel \in Seq(BadgeEvents) /\ Len(channel) <= Capacity
    BY <1>2, <1>7 DEF BadgeInit
  <2>2. \A p \in Producers : Len(outbox[p]) <= 2
    BY <1>2, <1>6
  <2>3. badge = 0 /\ silents = 0 /\ faults = 0 /\ behind \in BOOLEAN /\ muted \in BOOLEAN
        /\ unread \subseteq stored /\ stored \subseteq Messages
    BY DEF BadgeInit
  <2>4. badge <= Cardinality(stored)
    BY <1>1, <2>3
  <2>5. \A r \in Refreshers : refresh[r].total <= Cardinality(stored)
    BY <1>1, <1>3
  <2> QED  BY <1>3, <1>6, <1>7, <2>1, <2>2, <2>3, <2>4, <2>5 DEF BadgeTypes
<1>5. TotalsAreRight /\ BadgeIsRight
  BY <1>1, <1>3 DEF BadgeInit, TotalsAreRight, BadgeIsRight
<1> QED  BY <1>4, <1>5 DEF BadgeInv

\* A goroutine that stops or starts over leaves the others what they have, outdated or not.
LEMMA Leaving ==
  ASSUME BadgeTypes, NEW r \in Refreshers, NEW n \in Refresh, n.pc # "show", n.total = 0,
         Leaves(r, n)
  PROVE  /\ refresh' \in [Refreshers -> Refresh]
         /\ refresh'[r] = n
         /\ \A q \in Refreshers : /\ refresh'[q].total \in {0, refresh[q].total}
                                  /\ q # r => /\ refresh'[q].pc = refresh[q].pc
                                              /\ refresh'[q].total = refresh[q].total
                                  /\ refresh'[q].pc = "show" => refresh'[q].dated
<1>1. ASSUME NEW q \in Refreshers
      PROVE  /\ Dated(q) \in Refresh /\ Dated(q).pc = refresh[q].pc
             /\ Dated(q).total = refresh[q].total /\ Dated(q).dated = (refresh[q].pc = "show")
  BY DEF Dated, BadgeTypes, Refresh
<1>2. refresh' = [q \in Refreshers |-> IF q = r THEN n ELSE Dated(q)]
  BY DEF Leaves
<1> QED  BY <1>1, <1>2

\* Every step keeps the types.
LEMMA BadgeTypesKept ==
  ASSUME BadgeTypes, [BadgeNext]_badgeVars
  PROVE  BadgeTypes'
<1> USE DEF mailbox
<1>1. IsFiniteSet(Messages) /\ MaxSilent \in Nat /\ MaxFaults \in Nat
  BY BadgeAssumption, CapacityAssumption
<1>2. CASE UNCHANGED badgeVars
  BY <1>2 DEF badgeVars, BadgeTypes
<1>3. ASSUME NEW m \in Messages, Store(m) PROVE BadgeTypes'
  <2>1. Cardinality(stored) <= Cardinality(stored') /\ Cardinality(stored') \in Nat
        /\ Cardinality(stored) \in Nat
    <3>1. stored' \subseteq Messages /\ stored \subseteq stored'
      BY <1>3 DEF Store, BadgeTypes
    <3> QED  BY <1>1, <3>1, FS_Subset, FS_CardinalityType
  <2>2. outbox' \in [Producers -> Seq(BadgeEvents)] /\ \A p \in Producers : Len(outbox'[p]) <= 2
    <3>1. PICK more \in {<<>>, <<"arrived">>} :
            outbox' = [outbox EXCEPT !["writer"] = <<"changed">> \o more]
      BY <1>3 DEF Store
    <3>2. <<"changed">> \o more \in Seq(BadgeEvents) /\ Len(<<"changed">> \o more) <= 2
      <4>1. <<"changed">> \in Seq(BadgeEvents) /\ Len(<<"changed">>) = 1
        BY DEF BadgeEvents
      <4>2. more \in Seq(BadgeEvents) /\ Len(more) \in 0..1
        <5>1. CASE more = <<>>
          BY <5>1, EmptySeq
        <5>2. CASE more = <<"arrived">>
          BY <5>2 DEF BadgeEvents
        <5> QED  BY <3>1, <5>1, <5>2
      <4> QED  BY <4>1, <4>2, ConcatProperties
    <3> QED  BY <3>1, <3>2 DEF BadgeTypes, Producers
  <2>3. stored' \subseteq Messages /\ unread' \subseteq stored'
    BY <1>3 DEF Store, BadgeTypes
  <2>4. /\ \A r \in Refreshers : refresh'[r].total <= Cardinality(stored')
        /\ badge' <= Cardinality(stored')
    BY <1>3, <2>1 DEF Store, BadgeTypes, Refresh
  <2> QED  BY <1>3, <2>2, <2>3, <2>4 DEF Store, BadgeTypes
<1>4. ASSUME NEW m \in Messages, ReadMessage(m) PROVE BadgeTypes'
  <2>1. <<"changed">> \in Seq(BadgeEvents) /\ Len(<<"changed">>) = 1
    BY DEF BadgeEvents
  <2>2. outbox' \in [Producers -> Seq(BadgeEvents)] /\ \A p \in Producers : Len(outbox'[p]) <= 2
    BY <1>4, <2>1 DEF ReadMessage, BadgeTypes, Producers
  <2> QED  BY <1>4, <2>2 DEF ReadMessage, BadgeTypes
<1>5. CASE ChangeSilently
  <2>1. ASSUME NEW q \in Refreshers PROVE Dated(q) \in Refresh /\ Dated(q).total = refresh[q].total
    BY DEF Dated, BadgeTypes, Refresh
  <2>2. /\ refresh' \in [Refreshers -> Refresh]
        /\ \A r \in Refreshers : refresh'[r].total = refresh[r].total
    BY <1>5, <2>1 DEF ChangeSilently
  <2>3. silents' \in 0..MaxSilent
    BY <1>1, <1>5 DEF ChangeSilently, BadgeTypes
  <2>4. muted' \in BOOLEAN /\ unread' \subseteq stored /\ behind' \in BOOLEAN
    BY <1>5 DEF ChangeSilently, BadgeTypes
  <2> QED  BY <1>5, <2>2, <2>3, <2>4 DEF ChangeSilently, BadgeTypes
<1>6. ASSUME NEW p \in Producers, Emit(p) PROVE BadgeTypes'
  <2>1. /\ Head(outbox[p]) \in BadgeEvents /\ Tail(outbox[p]) \in Seq(BadgeEvents)
        /\ Len(outbox[p]) \in Nat /\ Len(Tail(outbox[p])) = Len(outbox[p]) - 1
    BY <1>6, Taken DEF Emit, BadgeTypes
  <2>2. outbox' \in [Producers -> Seq(BadgeEvents)] /\ \A q \in Producers : Len(outbox'[q]) <= 2
    BY <1>6, <2>1 DEF Emit, BadgeTypes
  <2>3. channel' \in Seq(BadgeEvents) /\ Len(channel') <= Capacity
    BY <1>6, <2>1, Sent DEF Emit, BadgeTypes
  <2> QED  BY <1>6, <2>2, <2>3 DEF Emit, BadgeTypes
<1>7. CASE DispatchEvent
  <2>1. /\ Tail(channel) \in Seq(BadgeEvents) /\ Len(channel) \in Nat
        /\ Len(Tail(channel)) = Len(channel) - 1 /\ Capacity \in Nat
    BY <1>7, Taken, CapacityAssumption DEF DispatchEvent, BadgeTypes
  <2>2. /\ refresh' \in [Refreshers -> Refresh]
        /\ \A r \in Refreshers : refresh'[r].total \in {0, refresh[r].total}
    BY <1>7 DEF DispatchEvent, BadgeTypes, At, Refresh, Points, Refreshers
  <2> QED  BY <1>7, <2>1, <2>2, TotalIsSmall DEF DispatchEvent, BadgeTypes
<1>8. CASE Tick
  <2>2. /\ refresh' \in [Refreshers -> Refresh]
        /\ \A r \in Refreshers : refresh'[r].total \in {0, refresh[r].total}
    BY <1>8 DEF Tick, BadgeTypes, At, Refresh, Points, Refreshers
  <2> QED  BY <1>8, <2>2, TotalIsSmall DEF Tick, BadgeTypes
<1>9. ASSUME NEW r \in Refreshers, ReadTotal(r) PROVE BadgeTypes'
  <2>2. /\ refresh' \in [Refreshers -> Refresh]
        /\ \A q \in Refreshers : refresh'[q].total \in {Total, refresh[q].total}
    BY <1>9, TotalIsSmall DEF ReadTotal, BadgeTypes, Refresh, Points
  <2> QED  BY <1>9, <2>2, TotalIsSmall DEF ReadTotal, BadgeTypes
<1>10. ASSUME NEW r \in Refreshers, SetIcon(r) \/ RefreshFails(r) \/ Panic(r) PROVE BadgeTypes'
  <2>1. PICK n \in Refresh : n.pc # "show" /\ n.total = 0 /\ Leaves(r, n)
    BY <1>10 DEF SetIcon, RefreshFails, Panic, Rest, AfterPanic, At, Refresh, Points
  <2>2. /\ refresh' \in [Refreshers -> Refresh]
        /\ \A q \in Refreshers : refresh'[q].total \in {0, refresh[q].total}
    BY <2>1, Leaving
  <2>3. badge' \in {badge, refresh[r].total} /\ behind' \in BOOLEAN /\ faults' \in 0..MaxFaults
    <3>1. refresh[r].dated \in BOOLEAN
      BY DEF BadgeTypes, Refresh
    <3>2. CASE SetIcon(r)
      BY <3>1, <3>2 DEF SetIcon, BadgeTypes
    <3>3. CASE RefreshFails(r) \/ Panic(r)
      <4>1. behind' = TRUE /\ badge' = badge
        BY <3>3 DEF RefreshFails, Panic
      <4>2. faults' \in 0..MaxFaults
        BY <1>1, <3>3 DEF RefreshFails, Panic, Fault, BadgeTypes
      <4> QED  BY <4>1, <4>2
    <3> QED  BY <1>10, <3>2, <3>3
  <2>4. UNCHANGED <<mailbox, channel>>
    BY <1>10 DEF SetIcon, RefreshFails, Panic
  <2>5. /\ badge' \in Nat /\ badge' <= Cardinality(stored)
        /\ \A q \in Refreshers : refresh'[q].total <= Cardinality(stored)
    <3>1. refresh[r].total \in Nat /\ Cardinality(stored) \in Nat
      BY TotalIsSmall DEF BadgeTypes, Refresh
    <3>2. 0 <= Cardinality(stored)
      BY <3>1
    <3> QED  BY <2>2, <2>3, <3>1, <3>2 DEF BadgeTypes
  <2> QED  BY <2>2, <2>3, <2>4, <2>5 DEF BadgeTypes
<1> QED  BY <1>2, <1>3, <1>4, <1>5, <1>6, <1>7, <1>8, <1>9, <1>10 DEF BadgeNext, Producers

\* An event, and the read it causes, are to come until the read is made.
LEMMA BadgeRightKept ==
  ASSUME BadgeInv, BadgeTypes', [BadgeNext]_badgeVars
  PROVE  TotalsAreRight' /\ BadgeIsRight'
<1> USE DEF mailbox
<1>1. CASE UNCHANGED badgeVars
  <2>1. TotalsAreRight' /\ BadgeIsRight'
    BY <1>1 DEF badgeVars, BadgeInv, TotalsAreRight, BadgeIsRight, Total, Coming, Showing
  <2> QED  BY <2>1
<1>2. ASSUME NEW m \in Messages, Store(m) \/ ReadMessage(m) PROVE Coming'
  <2>1. \A more : <<"changed">> \o more # <<>>
    OBVIOUS
  <2> QED  BY <1>2 DEF Store, ReadMessage, Coming, Producers, BadgeInv, BadgeTypes
<1>3. CASE ChangeSilently
  <2>1. behind'
    BY <1>3 DEF ChangeSilently
  <2>2. ASSUME NEW r \in Refreshers, refresh'[r].pc = "show" PROVE refresh'[r].dated
    BY <1>3, <2>2 DEF ChangeSilently, Dated, BadgeInv, BadgeTypes, Refresh
  <2> QED  BY <2>1, <2>2 DEF TotalsAreRight, BadgeIsRight
<1>4. ASSUME NEW p \in Producers, Emit(p) PROVE Coming'
  <2>1. Head(outbox[p]) \in BadgeEvents
    BY <1>4, Taken DEF Emit, BadgeInv, BadgeTypes
  <2> QED  BY <1>4, <2>1, Sent DEF Emit, Coming, BadgeInv, BadgeTypes
<1>5. CASE DispatchEvent
  <2>1. refresh'[Consumer].pc = "read"
    BY <1>5 DEF DispatchEvent, Refreshes, At, Refreshers, BadgeInv, BadgeTypes
  <2> QED  BY <2>1 DEF Coming, TotalsAreRight, BadgeIsRight
<1>6. CASE Tick
  <2>1. /\ refresh[Ticker].pc # "show" /\ refresh'[Ticker].pc = "read"
        /\ \A r \in Refreshers \ {Ticker} : refresh'[r] = refresh[r]
        /\ UNCHANGED <<mailbox, channel, badge, behind>>
    BY <1>6 DEF Tick, At, Refreshers, BadgeInv, BadgeTypes
  <2>2. Total' = Total /\ (Coming' <=> Coming) /\ Showing' = Showing
    BY <2>1 DEF Total, Coming, Showing, Refreshers, Consumer, Prime, Ticker
  <2> QED  BY <2>1, <2>2 DEF BadgeInv, TotalsAreRight, BadgeIsRight
<1>7. ASSUME NEW r \in Refreshers, ReadTotal(r) PROVE TotalsAreRight' /\ BadgeIsRight'
  <2>1. /\ refresh[r].pc = "read" /\ refresh'[r].pc = "show" /\ refresh'[r].total = Total
        /\ \A q \in Refreshers \ {r} : refresh'[q] = refresh[q]
        /\ UNCHANGED <<mailbox, channel, badge, behind>>
    BY <1>7 DEF ReadTotal, BadgeInv, BadgeTypes
  <2>2. Total' = Total
    BY <2>1 DEF Total
  <2>3. CASE r = Ticker
    <3>1. (Coming' <=> Coming) /\ Showing' = Showing /\ r \notin Showing
      BY <2>1, <2>3 DEF Coming, Showing, Refreshers, Consumer, Prime, Ticker
    <3> QED  BY <2>1, <2>2, <3>1 DEF BadgeInv, TotalsAreRight, BadgeIsRight
  <2>4. CASE r # Ticker
    <3>1. r \in Showing'
      BY <2>1, <2>4 DEF Showing, Refreshers
    <3> QED  BY <2>1, <2>2, <3>1 DEF TotalsAreRight, BadgeIsRight
  <2> QED  BY <2>3, <2>4
<1>8. ASSUME NEW r \in Refreshers, SetIcon(r) \/ RefreshFails(r) \/ Panic(r)
      PROVE TotalsAreRight' /\ BadgeIsRight'
  <2>1. PICK n \in Refresh : n.pc # "show" /\ n.total = 0 /\ Leaves(r, n)
    BY <1>8 DEF SetIcon, RefreshFails, Panic, Rest, AfterPanic, At, Refresh, Points
  <2>2. \A q \in Refreshers : /\ q # r => refresh'[q].pc = refresh[q].pc
                              /\ refresh'[q].pc = "show" => refresh'[q].dated
    BY <2>1, Leaving DEF BadgeInv
  <2>3. TotalsAreRight'
    BY <2>2 DEF TotalsAreRight
  <2>4. CASE RefreshFails(r) \/ Panic(r)
    BY <2>3, <2>4 DEF RefreshFails, Panic, BadgeIsRight
  <2>5. CASE SetIcon(r)
    <3>1. /\ refresh[r].pc = "show" /\ badge' = refresh[r].total /\ behind' = refresh[r].dated
          /\ UNCHANGED <<mailbox, channel>>
      BY <2>5 DEF SetIcon
    <3>2. Total' = Total
      BY <3>1 DEF Total
    <3>3. Coming => Coming'
      BY <2>2, <3>1 DEF Coming, Refreshers
    <3>4. \A q \in Showing \ {r} : q \in Showing'
      BY <2>2 DEF Showing, Refreshers
    <3> QED  BY <2>3, <3>1, <3>2, <3>3, <3>4 DEF BadgeInv, TotalsAreRight, BadgeIsRight
  <2> QED  BY <1>8, <2>4, <2>5
<1>9. Coming' => TotalsAreRight' /\ BadgeIsRight'
  BY DEF TotalsAreRight, BadgeIsRight
<1> QED  BY <1>1, <1>2, <1>3, <1>4, <1>5, <1>6, <1>7, <1>8, <1>9 DEF BadgeNext, Producers

\* The inductive invariant holds of every behaviour.
LEMMA BadgeInvariance == BadgeSpec => []BadgeInv
<1>1. BadgeInv /\ [BadgeNext]_badgeVars => BadgeInv'
  BY BadgeTypesKept, BadgeRightKept DEF BadgeInv
<1> QED  BY BadgeInitially, <1>1, PTL DEF BadgeSpec

\* The state of Badge keeps its type, and the badge shows no more messages than there are.
THEOREM BadgeTypeCorrectness == BadgeSpec => []BadgeTypeOK
<1>1. BadgeInv => BadgeTypeOK
  BY BadgeTypesGiveTypeOK DEF BadgeInv
<1> QED  BY BadgeInvariance, <1>1, PTL

\* Controller.refreshUnread: when nothing is under way the badge shows the number of unread
\* messages, however events are dropped and refreshes overtake one another, unless a change
\* had no event or a refresh failed.
THEOREM BadgeIsRightAtRest == BadgeSpec => []QuietBadgeIsRight
<1>1. BadgeInv => QuietBadgeIsRight
  BY DEF BadgeInv, BadgeIsRight, QuietBadgeIsRight, Coming, Showing, Producers
<1> QED  BY BadgeInvariance, <1>1, PTL

-----------------------------------------------------------------------------
(***************************************************************************)
(* Notices. The id of a notification is known in three places, the screen, *)
(* the goroutine that asked for it, and pendingActions, and a signal may   *)
(* still speak of it. ScreenAgrees and Aligned say that all mean one       *)
(* message by it, as long as the daemon has not given it twice.            *)
(***************************************************************************)
Partial(A, B) == UNION {[S -> B] : S \in SUBSET A}
\* No element has two places.
Distinct(q) == \A i, j \in 1..Len(q) : q[i] = q[j] => i = j

HandlerSteps == {"none", "muted", "notify", "retry", "put", "done"}
Handler == [pc : HandlerSteps, id : Nat]
Daemon == [shown : Partial(Ids, Arrivals), next : Ids]
Signal == [name : {"action", "closed"}, id : Ids]

\* The goroutine of m is about to store the id.
Putting(m, id) == handler[m].pc = "put" /\ handler[m].id = id

\* The types of what the event bus and the goroutines have,
EventTypes ==
  /\ arrived \subseteq Arrivals /\ told \subseteq arrived /\ missed \subseteq arrived
  /\ channel \in Seq(Arrivals) /\ Len(channel) <= Capacity
  /\ isMuted \in BOOLEAN /\ mutes \in 0..MaxMutes
  /\ handler \in [Arrivals -> Handler]
  /\ \A m \in Arrivals : /\ handler[m].pc # "none" => m \in arrived
                         /\ handler[m].pc = "put" => handler[m].id # 0

\* of the daemon, its signals, and what is recorded of them,
ScreenTypes ==
  /\ daemon \in Daemon
  /\ \A id \in DOMAIN daemon.shown : id < daemon.next /\ daemon.shown[id] \in told
  /\ signals \in Seq(Signal) /\ clicked \in Seq(Arrivals)
  /\ excused \subseteq Ids /\ reused \subseteq Ids
  /\ faults \in 0..MaxFaults

\* and of pendingActions, whose two halves have the same ids.
TableTypes ==
  /\ by \in Partial(Ids, Arrivals) /\ \A id \in DOMAIN by : by[id] \in arrived
  /\ order \in Seq(Ids) /\ Distinct(order) /\ Len(order) <= PendingCap
  /\ \A id : id \in DOMAIN by <=> \E i \in 1..Len(order) : order[i] = id
  /\ opened \in arrived \cup {Nobody}

\* What is in the channel is handled for the first time.
ChannelIsNew ==
  /\ Distinct(channel)
  /\ \A i \in 1..Len(channel) : channel[i] \in arrived /\ handler[channel[i]].pc = "none"

\* An id the tray or a signal knows has been given, and a signal tells that it is gone.
IdsAreGiven ==
  /\ \A id \in DOMAIN by \ reused : id < daemon.next
  /\ \A m \in Arrivals : handler[m].pc = "put" =>
       handler[m].id \in reused \/ handler[m].id < daemon.next
  /\ \A i \in 1..Len(signals) :
       \/ signals[i].id \in reused
       \/ signals[i].id < daemon.next /\ signals[i].id \notin DOMAIN daemon.shown

\* The tray knows the id, if at all, as that of the message.
Agree(id, m) ==
  /\ id \in DOMAIN by => by[id] = m
  /\ \A h \in Arrivals : Putting(h, id) => h = m

\* All that know the id of a notification on the screen mean its message.
ScreenAgrees == \A id \in DOMAIN daemon.shown \ reused : Agree(id, daemon.shown[id])

\* The i-th click is the f[i]-th signal.
Aligned(f) ==
  /\ f \in [1..Len(clicked) -> 1..Len(signals)]
  /\ \A i, j \in 1..Len(clicked) : i < j => f[i] < f[j]
  /\ \A k \in 1..Len(signals) :
       signals[k].name = "action" <=> \E i \in 1..Len(clicked) : f[i] = k
  /\ \A i \in 1..Len(clicked) :
       signals[f[i]].id \in reused \/ Agree(signals[f[i]].id, clicked[i])

\* Each click has its signal, in the same order.
ClicksAreAligned == \E f : Aligned(f)

\* PendingFollowsScreen, less what ScreenAgrees says.
Follows ==
  /\ \A id \in DOMAIN daemon.shown :
       id \in excused \cup reused \/ id \in DOMAIN by \/ Putting(daemon.shown[id], id)
  /\ \A id \in DOMAIN by :
       id \in excused \cup reused \/ id \in DOMAIN daemon.shown \/ Signalled(id)

NoticesInv ==
  /\ EventTypes /\ ScreenTypes /\ TableTypes
  /\ ChannelIsNew /\ IdsAreGiven /\ ScreenAgrees /\ ClicksAreAligned /\ Follows

-----------------------------------------------------------------------------
\* A partial function is one whose domain is part of the set.
LEMMA PartialAre ==
  ASSUME NEW A, NEW B
  PROVE  /\ <<>> \in Partial(A, B) /\ DOMAIN <<>> = {}
         /\ \A f : f \in Partial(A, B) <=> DOMAIN f \subseteq A /\ f \in [DOMAIN f -> B]
<1>1. <<>> \in [{} -> B]
  OBVIOUS
<1>2. ASSUME NEW f, f \in Partial(A, B) PROVE DOMAIN f \subseteq A /\ f \in [DOMAIN f -> B]
  BY <1>2 DEF Partial
<1>3. ASSUME NEW f, DOMAIN f \subseteq A, f \in [DOMAIN f -> B] PROVE f \in Partial(A, B)
  BY <1>3, Zenon DEF Partial
<1>4. <<>> \in Partial(A, B)
  BY <1>1, Zenon DEF Partial
<1> QED  BY <1>2, <1>3, <1>4

\* A sequence without repetition has as many places as elements.
LEMMA DistinctCounts ==
  ASSUME NEW S, NEW q \in Seq(S), Distinct(q), NEW D,
         \A x : x \in D <=> \E i \in 1..Len(q) : q[i] = x
  PROVE  Cardinality(D) = Len(q)
<1>1. Len(q) \in Nat /\ q \in [1..Len(q) -> D]
  BY Places
<1>2. q \in Bijection(1..Len(q), D)
  BY <1>1 DEF Bijection, Injection, Surjection, Distinct, IsInjective
<1> QED  BY <1>1, <1>2, FS_CountingElements DEF ExistsBijection

\* r has what s has but e.
IsWithout(r, s, e) ==
  /\ Distinct(r) /\ Len(r) <= Len(s)
  /\ \A x : (\E j \in 1..Len(r) : r[j] = x) <=> x # e /\ \E j \in 1..Len(s) : s[j] = x

\* RemoveFirst takes the one place of the element, if it has one, and keeps the order.
LEMMA RemovedFirst ==
  ASSUME NEW S, NEW s \in Seq(S), Distinct(s), NEW e
  PROVE  RemoveFirst(s, e) \in Seq(S) /\ IsWithout(RemoveFirst(s, e), s, e)
<1>1. CASE ~\E i \in 1..Len(s) : s[i] = e
  <2>1. RemoveFirst(s, e) = s
    BY <1>1, Zenon DEF RemoveFirst
  <2>2. Len(s) \in Nat
    BY Places
  <2> QED  BY <1>1, <2>1, <2>2 DEF IsWithout
<1>2. CASE \E i \in 1..Len(s) : s[i] = e
  <2>1. PICK i \in 1..Len(s) : s[i] = e
    BY <1>2
  <2> DEFINE I == {j \in 1..Len(s) : s[j] = e}
             r == SubSeq(s, 1, i - 1) \o SubSeq(s, i + 1, Len(s))
  <2>2. Len(s) \in Nat /\ I = {i}
    BY <2>1, Places DEF Distinct
  <2>3. Min({i}) = i
    <3>1. \E x \in {i} : \A y \in {i} : x <= y
      BY <2>2
    <3> QED  BY <3>1 DEF Min
  <2>4. SelectInSeq(s, LAMBDA v : v = e) = i
    BY <2>2, <2>3 DEF SelectInSeq
  <2>5. RemoveFirst(s, e) = RemoveAt(s, SelectInSeq(s, LAMBDA v : v = e))
    BY <1>2, Zenon DEF RemoveFirst
  <2>6. RemoveFirst(s, e) = r
    BY <2>4, <2>5 DEF RemoveAt
  <2>7. /\ SubSeq(s, 1, i - 1) \in Seq(S) /\ Len(SubSeq(s, 1, i - 1)) = i - 1
        /\ \A j \in 1..i - 1 : SubSeq(s, 1, i - 1)[j] = s[j]
    BY <2>2, SubSeqProperties
  <2>8. /\ SubSeq(s, i + 1, Len(s)) \in Seq(S) /\ Len(SubSeq(s, i + 1, Len(s))) = Len(s) - i
        /\ \A j \in 1..Len(s) - i : SubSeq(s, i + 1, Len(s))[j] = s[j + i]
    BY <2>2, SubSeqProperties
  <2> DEFINE a == SubSeq(s, 1, i - 1)
             b == SubSeq(s, i + 1, Len(s))
  <2> HIDE DEF a, b
  <2>13. /\ r \in Seq(S) /\ Len(r) = Len(a) + Len(b)
         /\ \A j \in 1..Len(a) + Len(b) : r[j] = IF j <= Len(a) THEN a[j] ELSE b[j - Len(a)]
    <3>1. a \in Seq(S) /\ b \in Seq(S) /\ r = a \o b
      BY <2>7, <2>8 DEF a, b
    <3> HIDE DEF r
    <3> QED  BY <3>1, ConcatProperties
  <2> HIDE DEF r
  <2>9. /\ r \in Seq(S) /\ Len(r) = Len(s) - 1
        /\ \A j \in 1..Len(s) - 1 : r[j] = IF j < i THEN s[j] ELSE s[j + 1]
    <3>1. Len(a) = i - 1 /\ Len(b) = Len(s) - i
      BY <2>7, <2>8 DEF a, b
    <3>2. ASSUME NEW j \in 1..Len(s) - 1 PROVE r[j] = IF j < i THEN s[j] ELSE s[j + 1]
      <4>1. CASE j < i
        BY <2>2, <2>7, <2>13, <3>1, <4>1 DEF a
      <4>2. CASE ~(j < i)
        <5>1. r[j] = b[j - (i - 1)] /\ j - (i - 1) \in 1..Len(s) - i
          BY <2>2, <2>13, <3>1, <4>2
        <5>2. j - (i - 1) + i = j + 1
          BY <2>2
        <5> QED  BY <2>8, <4>2, <5>1, <5>2 DEF b
      <4> QED  BY <4>1, <4>2
    <3> QED  BY <2>2, <2>13, <3>1, <3>2
  <2>10. Distinct(r)
    BY <2>2, <2>9 DEF Distinct
  <2>11. ASSUME NEW x, NEW j \in 1..Len(r), r[j] = x
         PROVE  x # e /\ \E k \in 1..Len(s) : s[k] = x
    BY <2>1, <2>2, <2>9, <2>11 DEF Distinct
  <2>12. ASSUME NEW x, x # e, NEW k \in 1..Len(s), s[k] = x
         PROVE  \E j \in 1..Len(r) : r[j] = x
    <3>1. CASE k < i
      BY <2>1, <2>2, <2>9, <2>12, <3>1
    <3>2. CASE k > i
      <4>1. k - 1 \in 1..Len(r) /\ r[k - 1] = s[k]
        BY <2>2, <2>9, <3>2
      <4> QED  BY <2>12, <4>1
    <3> QED  BY <2>1, <2>12, <3>1, <3>2
  <2>14. Len(r) <= Len(s)
    BY <2>2, <2>9
  <2>15. \A x : (\E j \in 1..Len(r) : r[j] = x) <=> x # e /\ \E j \in 1..Len(s) : s[j] = x
    BY <2>11, <2>12
  <2> QED  BY <2>6, <2>9, <2>10, <2>14, <2>15 DEF IsWithout
<1> QED  BY <1>1, <1>2

\* The types, as the proofs of the steps use them.
LEMMA NoticesShapes ==
  ASSUME NoticesInv
  PROVE  /\ handler \in [Arrivals -> Handler]
         /\ \A m \in Arrivals : handler[m].id \in Nat /\ handler[m] \in Handler
         /\ daemon.next \in Nat \ {0} /\ daemon.shown \in Partial(Ids, Arrivals)
         /\ DOMAIN daemon.shown \subseteq Ids
         /\ \A id \in DOMAIN daemon.shown :
              id \in Nat /\ id < daemon.next /\ daemon.shown[id] \in Arrivals
         /\ by \in Partial(Ids, Arrivals) /\ DOMAIN by \subseteq Ids
         /\ \A id \in DOMAIN by : id \in Nat /\ by[id] \in Arrivals
         /\ Len(signals) \in Nat /\ \A i \in 1..Len(signals) : signals[i].id \in Ids
         /\ \A i \in 1..Len(channel) : channel[i] \in Arrivals
<1>1. EventTypes /\ ScreenTypes /\ TableTypes
  BY DEF NoticesInv
<1>2. /\ handler \in [Arrivals -> Handler]
      /\ \A m \in Arrivals : handler[m].id \in Nat /\ handler[m] \in Handler
  BY <1>1 DEF EventTypes, Handler
<1>3. daemon.next \in Nat \ {0} /\ daemon.shown \in Partial(Ids, Arrivals)
  BY <1>1 DEF ScreenTypes, Daemon, Ids
<1>4. /\ DOMAIN daemon.shown \subseteq Ids
      /\ \A id \in DOMAIN daemon.shown :
           id \in Nat /\ id < daemon.next /\ daemon.shown[id] \in Arrivals
  <2>1. DOMAIN daemon.shown \subseteq Ids /\ daemon.shown \in [DOMAIN daemon.shown -> Arrivals]
    BY <1>3, PartialAre
  <2> QED  BY <1>1, <2>1 DEF ScreenTypes, Ids
<1>5. /\ by \in Partial(Ids, Arrivals) /\ DOMAIN by \subseteq Ids
      /\ \A id \in DOMAIN by : id \in Nat /\ by[id] \in Arrivals
  <2>1. by \in Partial(Ids, Arrivals)
    BY <1>1 DEF TableTypes
  <2>2. DOMAIN by \subseteq Ids /\ by \in [DOMAIN by -> Arrivals]
    BY <2>1, PartialAre
  <2> QED  BY <2>1, <2>2 DEF Ids
<1>6. Len(signals) \in Nat /\ \A i \in 1..Len(signals) : signals[i].id \in Ids
  <2>1. signals \in Seq(Signal)
    BY <1>1 DEF ScreenTypes
  <2>2. Len(signals) \in Nat /\ \A i \in 1..Len(signals) : signals[i] \in Signal
    BY <2>1, Places
  <2> QED  BY <2>2 DEF Signal
<1>7. \A i \in 1..Len(channel) : channel[i] \in Arrivals
  <2>1. channel \in Seq(Arrivals)
    BY <1>1 DEF EventTypes
  <2> QED  BY <2>1, Places
<1> QED  BY <1>2, <1>3, <1>4, <1>5, <1>6, <1>7

-----------------------------------------------------------------------------
(* Initially, and when the tray learns and forgets nothing.                *)

\* The controller starts with no notification and an empty table.
LEMMA NoticesInitially ==
  ASSUME NoticesInit
  PROVE  NoticesInv
<1>1. /\ handler \in [Arrivals -> Handler]
      /\ \A m \in Arrivals : handler[m].pc = "none"
  BY DEF NoticesInit, Fresh, Handler, HandlerSteps
<1>2. /\ channel = <<>> /\ signals = <<>> /\ clicked = <<>> /\ order = <<>> /\ by = <<>>
      /\ arrived = {} /\ told = {} /\ missed = {} /\ excused = {} /\ reused = {}
      /\ isMuted = FALSE /\ opened = Nobody /\ mutes = 0 /\ faults = 0
      /\ daemon = [shown |-> <<>>, next |-> 1]
  BY DEF NoticesInit
<1>3. \A S : <<>> \in Seq(S) /\ Len(<<>>) = 0
  BY EmptySeq
<1>4. /\ Capacity \in Nat /\ PendingCap \in Nat /\ 0 \in 0..MaxMutes /\ 0 \in 0..MaxFaults
  BY NoticesAssumption, CapacityAssumption
<1>5. EventTypes
  <2>1. channel \in Seq(Arrivals) /\ Len(channel) <= Capacity
    BY <1>2, <1>3, <1>4
  <2>2. arrived \subseteq Arrivals /\ told \subseteq arrived /\ missed \subseteq arrived
    BY <1>2
  <2>3. isMuted \in BOOLEAN /\ mutes \in 0..MaxMutes
    BY <1>2, <1>4
  <2> QED  BY <1>1, <2>1, <2>2, <2>3 DEF EventTypes
<1>6. <<>> \in Partial(Ids, Arrivals) /\ DOMAIN <<>> = {}
  BY PartialAre
<1>7. ScreenTypes
  <2>1. daemon \in Daemon /\ daemon.shown = <<>>
    BY <1>2, <1>6 DEF Daemon, Ids
  <2> QED  BY <1>2, <1>3, <1>4, <1>6, <2>1 DEF ScreenTypes
<1>8. Len(order) = 0 /\ Len(channel) = 0 /\ Len(signals) = 0 /\ Len(clicked) = 0
  BY <1>2, <1>3
<1>9. TableTypes
  BY <1>2, <1>3, <1>4, <1>6, <1>8 DEF TableTypes, Distinct
<1>10. DOMAIN daemon.shown = {} /\ DOMAIN by = {}
  BY <1>2, <1>6
<1>11. ChannelIsNew /\ IdsAreGiven /\ ScreenAgrees /\ Follows
  BY <1>1, <1>8, <1>10 DEF ChannelIsNew, IdsAreGiven, ScreenAgrees, Follows, Distinct
<1>12. ClicksAreAligned
  <2>1. Aligned([i \in 1..Len(clicked) |-> 1])
    BY <1>8 DEF Aligned
  <2> QED  BY <2>1 DEF ClicksAreAligned
<1> QED  BY <1>5, <1>7, <1>9, <1>11, <1>12 DEF NoticesInv

\* The tray knows an id after a step only if it did before.
NoNewId ==
  /\ UNCHANGED <<by, order>>
  /\ \A h \in Arrivals : /\ handler'[h].pc = "put" <=> handler[h].pc = "put"
                         /\ handler[h].pc = "put" => handler'[h].id = handler[h].id

\* What gives no new id to a goroutine, and leaves the screen and the table, keeps what
\* the three say of each other.
LEMMA TrayStays ==
  ASSUME NoticesInv, NoNewId, UNCHANGED <<daemon, signals, clicked, reused>>,
         excused \subseteq excused'
  PROVE  IdsAreGiven' /\ ScreenAgrees' /\ ClicksAreAligned' /\ Follows'
<1>1. \A id, m : Agree(id, m) => Agree(id, m)'
  BY DEF NoNewId, Agree, Putting
<1>2. IdsAreGiven'
  BY DEF NoticesInv, IdsAreGiven, NoNewId
<1>3. ScreenAgrees'
  BY <1>1 DEF NoticesInv, ScreenAgrees, NoNewId
<1>4. ClicksAreAligned'
  <2>1. PICK f : Aligned(f)
    BY DEF NoticesInv, ClicksAreAligned
  <2>2. Aligned(f)'
    BY <1>1, <2>1 DEF Aligned
  <2> QED  BY <2>2 DEF ClicksAreAligned
<1>5. ASSUME NEW id \in DOMAIN daemon.shown
      PROVE  Putting(daemon.shown[id], id) => Putting(daemon.shown[id], id)'
  <2>1. daemon.shown[id] \in Arrivals
    BY PartialAre DEF NoticesInv, ScreenTypes, Daemon
  <2> QED  BY <2>1 DEF NoNewId, Putting
<1>6. Follows'
  BY <1>5 DEF NoticesInv, Follows, NoNewId, Signalled
<1> QED  BY <1>2, <1>3, <1>4, <1>6

\* A handler goes on, not from or to the table.
LEMMA HandlerMoves ==
  ASSUME EventTypes, NEW m \in Arrivals, NEW pc \in HandlerSteps \ {"none", "put"},
         handler[m].pc # "put", handler' = [handler EXCEPT ![m].pc = pc], UNCHANGED <<by, order>>
  PROVE  /\ handler' \in [Arrivals -> Handler] /\ NoNewId
         /\ handler'[m].pc = pc /\ \A h \in Arrivals \ {m} : handler'[h] = handler[h]
<1>1. handler \in [Arrivals -> Handler]
  BY DEF EventTypes
<1>2. [handler[m] EXCEPT !.pc = pc] \in Handler /\ [handler[m] EXCEPT !.pc = pc].pc = pc
  BY <1>1 DEF Handler
<1>3. handler'[m] = [handler[m] EXCEPT !.pc = pc]
  BY <1>1
<1>4. \A h \in Arrivals \ {m} : handler'[h] = handler[h]
  BY <1>1
<1>5. handler' \in [Arrivals -> Handler]
  BY <1>1, <1>2
<1> QED  BY <1>2, <1>3, <1>4, <1>5 DEF NoNewId

-----------------------------------------------------------------------------
(* Events.                                                                 *)

\* A message arrives, and its event finds a place in the channel or none.
LEMMA ArriveKeeps ==
  ASSUME NoticesInv, NEW m \in Arrivals, MessageArrived(m)
  PROVE  NoticesInv'
<1> USE DEF events, table
<1>1. /\ EventTypes /\ m \notin arrived /\ arrived' = arrived \cup {m}
      /\ channel \in Seq(Arrivals) /\ Len(channel) <= Capacity /\ Len(channel) \in Nat
      /\ Capacity \in Nat
  BY Places, CapacityAssumption DEF NoticesInv, EventTypes, MessageArrived
<1>2. /\ channel' = IF IsFull(channel) THEN channel ELSE Append(channel, m)
      /\ missed' = IF IsFull(channel) THEN missed \cup {m} ELSE missed
      /\ UNCHANGED <<isMuted, mutes, handler, daemon, signals, by, order, opened, faults, told, clicked,
                     excused, reused>>
  BY DEF MessageArrived, Send
<1>3. handler[m].pc = "none"
  BY <1>1 DEF EventTypes
<1>4. /\ channel' \in Seq(Arrivals) /\ Len(channel') <= Capacity
      /\ ChannelIsNew'
  <2>1. CASE IsFull(channel)
    BY <1>1, <1>2, <2>1 DEF NoticesInv, ChannelIsNew, Distinct
  <2>2. CASE ~IsFull(channel)
    <3>1. /\ channel' \in Seq(Arrivals) /\ Len(channel') = Len(channel) + 1
          /\ \A i \in 1..Len(channel) : channel'[i] = channel[i]
          /\ channel'[Len(channel) + 1] = m
      BY <1>1, <1>2, <2>2, Appended
    <3>2. Len(channel') <= Capacity
      BY <1>1, <2>2, <3>1 DEF IsFull
    <3>3. \A i \in 1..Len(channel) : channel[i] # m
      BY <1>1 DEF NoticesInv, ChannelIsNew
    <3>4. Distinct(channel)'
      BY <1>1, <3>1, <3>3 DEF NoticesInv, ChannelIsNew, Distinct
    <3>5. ASSUME NEW i \in 1..Len(channel') PROVE channel'[i] \in arrived' /\ handler[channel'[i]].pc = "none"
      BY <1>1, <1>3, <3>1 DEF NoticesInv, ChannelIsNew
    <3> QED  BY <1>2, <3>1, <3>2, <3>4, <3>5 DEF ChannelIsNew
  <2> QED  BY <2>1, <2>2
<1>5. EventTypes'
  BY <1>1, <1>2, <1>4 DEF EventTypes
<1>6. ScreenTypes'
  BY <1>2 DEF NoticesInv, ScreenTypes
<1>7. TableTypes'
  BY <1>1, <1>2 DEF NoticesInv, TableTypes, Distinct
<1>8. NoNewId
  BY <1>2 DEF NoNewId
<1> QED  BY <1>2, <1>4, <1>5, <1>6, <1>7, <1>8, TrayStays DEF NoticesInv

\* The consumer takes an event, and starts the goroutine that notifies.
LEMMA DispatchKeeps ==
  ASSUME NoticesInv, Dispatch
  PROVE  NoticesInv'
<1> USE DEF events, table
<1> DEFINE m == Head(channel)
<1>1. /\ EventTypes /\ channel # <<>> /\ channel' = Tail(channel)
      /\ handler' = [handler EXCEPT ![m].pc = "muted"]
      /\ UNCHANGED <<arrived, isMuted, mutes, daemon, signals, by, order, opened, faults, told, missed,
                     clicked, excused, reused>>
  BY DEF NoticesInv, Dispatch
<1>2. /\ Len(channel) \in Nat \ {0} /\ m = channel[1] /\ m \in Arrivals
      /\ channel' \in Seq(Arrivals) /\ Len(channel') = Len(channel) - 1
      /\ \A i \in 1..Len(channel) - 1 : channel'[i] = channel[i + 1]
  BY <1>1, Taken DEF EventTypes
<1>3. handler[m].pc = "none" /\ m \in arrived /\ \A i \in 2..Len(channel) : channel[i] # m
  BY <1>2 DEF NoticesInv, ChannelIsNew, Distinct
<1> HIDE DEF m
<1>4. /\ handler' \in [Arrivals -> Handler] /\ NoNewId
      /\ handler'[m].pc = "muted" /\ \A h \in Arrivals \ {m} : handler'[h] = handler[h]
  BY <1>1, <1>2, <1>3, HandlerMoves DEF HandlerSteps
<1>5. ChannelIsNew'
  <2>1. Distinct(channel)'
    <3>1. ASSUME NEW i \in 1..Len(channel'), NEW j \in 1..Len(channel'), i # j
          PROVE  channel'[i] # channel'[j]
      <4>1. i + 1 \in 1..Len(channel) /\ j + 1 \in 1..Len(channel) /\ i + 1 # j + 1
        BY <1>2, <3>1
      <4>2. channel[i + 1] # channel[j + 1]
        BY <4>1 DEF NoticesInv, ChannelIsNew, Distinct
      <4> QED  BY <1>2, <3>1, <4>2
    <3> QED  BY <3>1 DEF Distinct
  <2>2. ASSUME NEW i \in 1..Len(channel')
        PROVE  channel'[i] \in arrived /\ handler'[channel'[i]].pc = "none"
    <3>1. i + 1 \in 2..Len(channel) /\ channel'[i] = channel[i + 1]
      BY <1>2
    <3>2. channel[i + 1] \in Arrivals
      BY <1>1, <3>1, Places DEF EventTypes
    <3> QED  BY <1>3, <1>4, <3>1, <3>2 DEF NoticesInv, ChannelIsNew
  <2> QED  BY <1>1, <2>1, <2>2 DEF ChannelIsNew
<1>6. EventTypes'
  <2>1. Len(channel') <= Capacity
    BY <1>1, <1>2, CapacityAssumption DEF EventTypes
  <2>2. \A h \in Arrivals : /\ handler'[h].pc # "none" => h \in arrived
                            /\ handler'[h].pc = "put" => handler'[h].id # 0
    BY <1>1, <1>3, <1>4 DEF EventTypes
  <2> QED  BY <1>1, <1>2, <1>4, <2>1, <2>2 DEF EventTypes
<1>7. ScreenTypes' /\ TableTypes'
  BY <1>1 DEF NoticesInv, ScreenTypes, TableTypes, Distinct
<1> QED  BY <1>1, <1>4, <1>5, <1>6, <1>7, TrayStays DEF NoticesInv

\* A handler that asks whether it may notify, or fails to.
LEMMA HandlerKeeps ==
  ASSUME NoticesInv, NEW m \in Arrivals, AccountIsMuted(m) \/ NotifyFails(m)
  PROVE  NoticesInv'
<1> USE DEF events, table
<1>1. EventTypes
  BY DEF NoticesInv
<1>2. PICK pc \in HandlerSteps \ {"none", "put"} :
        handler[m].pc \in {"muted", "notify", "retry"} /\ handler' = [handler EXCEPT ![m].pc = pc]
  BY DEF AccountIsMuted, NotifyFails, HandlerSteps
<1>3. /\ UNCHANGED <<arrived, channel, isMuted, mutes, daemon, signals, by, order, opened, told,
                     clicked, excused, reused>>
      /\ missed' \in {missed, missed \cup {m}}
  BY DEF AccountIsMuted, NotifyFails
<1>4. faults' \in 0..MaxFaults
  BY CapacityAssumption DEF AccountIsMuted, NotifyFails, Fault, NoticesInv, ScreenTypes
<1>5. /\ handler' \in [Arrivals -> Handler] /\ NoNewId
      /\ handler'[m].pc = pc /\ \A h \in Arrivals \ {m} : handler'[h] = handler[h]
  BY <1>1, <1>2, <1>3, HandlerMoves
<1>6. m \in arrived
  BY <1>1, <1>2 DEF EventTypes
<1>7. EventTypes'
  BY <1>1, <1>2, <1>3, <1>5, <1>6 DEF EventTypes
<1>8. ChannelIsNew'
  <2>1. \A i \in 1..Len(channel) : channel[i] \in Arrivals /\ channel[i] # m
    BY <1>1, <1>2, Places DEF EventTypes, NoticesInv, ChannelIsNew
  <2> QED  BY <1>3, <1>5, <2>1 DEF NoticesInv, ChannelIsNew, Distinct
<1>9. ScreenTypes' /\ TableTypes'
  BY <1>3, <1>4 DEF NoticesInv, ScreenTypes, TableTypes, Distinct
<1> QED  BY <1>3, <1>5, <1>7, <1>8, <1>9, TrayStays DEF NoticesInv

\* The profile is muted or no longer muted.
LEMMA MuteKeeps ==
  ASSUME NoticesInv, SetProfileMuted \/ UNCHANGED noticesVars
  PROVE  NoticesInv'
<1> USE DEF events, table
<1>1. /\ UNCHANGED <<arrived, channel, handler, daemon, signals, by, order, opened, faults, told,
                     missed, clicked, excused, reused>>
      /\ isMuted' \in {isMuted, ~isMuted} /\ mutes' \in 0..MaxMutes
  BY NoticesAssumption DEF SetProfileMuted, noticesVars, NoticesInv, EventTypes
<1>2. EventTypes' /\ ScreenTypes' /\ TableTypes' /\ ChannelIsNew'
  BY <1>1 DEF NoticesInv, EventTypes, ScreenTypes, TableTypes, ChannelIsNew, Distinct
<1>3. NoNewId
  BY <1>1 DEF NoNewId
<1> QED  BY <1>1, <1>2, <1>3, TrayStays DEF NoticesInv

-----------------------------------------------------------------------------
(* The daemon is asked, and its answer is recorded.                        *)

\* The daemon shows the notification, and its answer arrives or is lost.
LEMMA NotifyKeeps ==
  ASSUME NoticesInv, NEW m \in Arrivals, Notify(m)
  PROVE  NoticesInv'
<1>1. PICK id : id = daemon.next
  OBVIOUS
<1> USE DEF events, table
<1>2. /\ handler[m].pc \in {"notify", "retry"}
      /\ daemon' = [shown |-> [i \in DOMAIN daemon.shown \cup {id} |->
                                 IF i = id THEN m ELSE daemon.shown[i]],
                    next |-> id + 1]
      /\ told' = told \cup {m}
      /\ UNCHANGED <<arrived, channel, isMuted, mutes, signals, by, order, opened, missed, clicked,
                     reused>>
  BY <1>1 DEF Notify
<1>3. EventTypes /\ ScreenTypes /\ TableTypes
  BY DEF NoticesInv
<1>4. id \in Nat \ {0} /\ id \in Ids /\ m \in arrived
  BY <1>1, <1>2, <1>3, NoticesShapes DEF EventTypes, Ids
<1>5. /\ handler' \in [Arrivals -> Handler]
      /\ \A h \in Arrivals \ {m} : handler'[h] = handler[h]
      /\ handler'[m].pc \in {"put", "retry", "done"}
      /\ handler'[m].pc = "put" => handler'[m].id = id /\ excused' = excused
      /\ handler'[m].pc # "put" => excused' = excused \cup {id}
      /\ faults' \in 0..MaxFaults
  <2>1. handler \in [Arrivals -> Handler] /\ handler[m] \in Handler
    BY NoticesShapes
  <2>2. faults \in 0..MaxFaults /\ MaxFaults \in Nat
    BY <1>3, CapacityAssumption DEF ScreenTypes
  <2>3. CASE handler' = [handler EXCEPT ![m] = [pc |-> "put", id |-> id]] /\ UNCHANGED <<faults, excused>>
    <3>1. handler'[m] = [pc |-> "put", id |-> id]
      BY <2>1, <2>3
    <3>2. handler'[m] \in Handler
      BY <1>4, <3>1 DEF Handler, HandlerSteps
    <3> QED  BY <2>1, <2>2, <2>3, <3>1, <3>2
  <2>4. ASSUME NEW pc \in {"retry", "done"}, handler' = [handler EXCEPT ![m].pc = pc],
               Fault, excused' = excused \cup {id}
        PROVE  <1>5
    <3>1. handler'[m] = [handler[m] EXCEPT !.pc = pc]
      BY <2>1, <2>4
    <3>2. handler'[m] \in Handler /\ handler'[m].pc = pc
      BY <2>1, <3>1 DEF Handler, HandlerSteps
    <3> QED  BY <2>1, <2>2, <2>4, <3>1, <3>2 DEF Fault
  <2> QED  BY <1>1, <2>3, <2>4 DEF Notify
<1>6. /\ daemon' \in Daemon /\ daemon'.next = id + 1
      /\ DOMAIN daemon'.shown = DOMAIN daemon.shown \cup {id} /\ daemon'.shown[id] = m
      /\ \A i \in DOMAIN daemon.shown \ {id} : daemon'.shown[i] = daemon.shown[i]
  <2>1. [i \in DOMAIN daemon.shown \cup {id} |-> IF i = id THEN m ELSE daemon.shown[i]]
          \in [DOMAIN daemon.shown \cup {id} -> Arrivals]
    BY NoticesShapes
  <2>2. DOMAIN daemon.shown \cup {id} \subseteq Ids
    BY <1>4, NoticesShapes
  <2>3. daemon'.shown \in Partial(Ids, Arrivals)
    BY <1>2, <2>1, <2>2, PartialAre
  <2> QED  BY <1>2, <1>4, <2>3 DEF Daemon, Ids
<1>7. EventTypes' /\ TableTypes'
  BY <1>2, <1>5, <1>4, <1>3 DEF EventTypes, TableTypes, Distinct, Ids
<1>8. ScreenTypes'
  <2>1. \A i \in DOMAIN daemon'.shown : i < daemon'.next /\ daemon'.shown[i] \in told'
    <3>1. ASSUME NEW i \in DOMAIN daemon.shown, i # id PROVE i < id + 1 /\ daemon.shown[i] \in told
      BY <1>1, <1>4, <1>3, NoticesShapes DEF ScreenTypes
    <3> QED  BY <1>2, <1>6, <1>4, <3>1
  <2> QED  BY <1>2, <1>5, <1>6, <1>4, <1>3, <2>1 DEF ScreenTypes
<1>9. ChannelIsNew'
  <2>1. \A i \in 1..Len(channel) : channel[i] \in Arrivals /\ channel[i] # m
    BY <1>2, NoticesShapes DEF NoticesInv, ChannelIsNew
  <2> QED  BY <1>2, <1>5, <2>1 DEF NoticesInv, ChannelIsNew, Distinct
<1>10. IdsAreGiven'
  <2>0. IdsAreGiven
    BY DEF NoticesInv
  <2>1. ASSUME NEW i \in DOMAIN by \ reused PROVE i < daemon'.next
    BY <1>1, <1>6, <1>4, <2>0, NoticesShapes DEF IdsAreGiven
  <2>2. ASSUME NEW h \in Arrivals, handler'[h].pc = "put"
        PROVE  handler'[h].id \in reused \/ handler'[h].id < daemon'.next
    <3>1. CASE h = m
      BY <1>5, <1>6, <1>4, <2>2, <3>1
    <3>2. CASE h # m
      BY <1>1, <1>5, <1>6, <1>4, <2>0, <2>2, <3>2, NoticesShapes DEF IdsAreGiven
    <3> QED  BY <3>1, <3>2
  <2>3. ASSUME NEW i \in 1..Len(signals), signals[i].id \notin reused
        PROVE  signals[i].id < daemon'.next /\ signals[i].id \notin DOMAIN daemon'.shown
    <3>1. signals[i].id \in Nat
      BY NoticesShapes DEF Ids
    <3> QED  BY <1>1, <1>6, <1>4, <2>0, <2>3, <3>1 DEF IdsAreGiven
  <2> QED  BY <1>2, <2>1, <2>2, <2>3 DEF IdsAreGiven
<1>11. ASSUME NEW i, i # id \/ handler'[m].pc # "put", NEW x, Agree(i, x) PROVE Agree(i, x)'
  BY <1>2, <1>5, <1>11 DEF Agree, Putting
<1>12. ScreenAgrees'
  <2>1. ASSUME NEW i \in DOMAIN daemon'.shown, i \notin reused, i # id PROVE Agree(i, daemon.shown[i])'
    <3>1. i \in DOMAIN daemon.shown /\ daemon'.shown[i] = daemon.shown[i]
      BY <1>6, <2>1
    <3>2. Agree(i, daemon.shown[i])
      BY <2>1, <3>1 DEF NoticesInv, ScreenAgrees
    <3> QED  BY <1>2, <1>5, <2>1, <3>1, <3>2 DEF Agree, Putting
  <2>2. ASSUME id \notin reused PROVE Agree(id, m)'
    <3>1. id \notin DOMAIN by
      BY <1>1, <1>4, <2>2 DEF NoticesInv, IdsAreGiven
    <3>2. ASSUME NEW h \in Arrivals, h # m, Putting(h, id)' PROVE FALSE
      <4>1. handler[h].pc = "put" /\ handler[h].id = id
        BY <1>5, <3>2 DEF Putting
      <4> QED  BY <1>1, <1>4, <2>2, <4>1 DEF NoticesInv, IdsAreGiven
    <3> QED  BY <1>2, <3>1, <3>2 DEF Agree
  <2> QED  BY <1>2, <1>6, <2>1, <2>2 DEF ScreenAgrees
<1>13. ClicksAreAligned'
  <2>1. PICK f : Aligned(f)
    BY DEF NoticesInv, ClicksAreAligned
  <2>2. ASSUME NEW i \in 1..Len(clicked), signals[f[i]].id \notin reused
        PROVE  Agree(signals[f[i]].id, clicked[i])'
    <3>1. f[i] \in 1..Len(signals) /\ Agree(signals[f[i]].id, clicked[i])
      BY <2>1, <2>2 DEF Aligned
    <3>2. signals[f[i]].id # id
      BY <1>1, <1>4, <2>2, <3>1 DEF NoticesInv, IdsAreGiven
    <3> QED  BY <1>2, <1>5, <3>1, <3>2 DEF Agree, Putting
  <2>3. Aligned(f)'
    BY <1>2, <2>1, <2>2 DEF Aligned
  <2> QED  BY <2>3 DEF ClicksAreAligned
<1>14. Follows'
  <2>0. Follows /\ excused \subseteq excused'
    BY <1>5 DEF NoticesInv
  <2>1. ASSUME NEW i \in DOMAIN daemon'.shown
        PROVE  i \in excused' \cup reused \/ i \in DOMAIN by \/ Putting(daemon.shown[i], i)'
    <3>1. CASE i = id
      <4>1. handler'[m].pc = "put" => Putting(m, id)'
        BY <1>5 DEF Putting
      <4> QED  BY <1>5, <1>6, <3>1, <4>1 DEF Putting
    <3>2. CASE i # id
      <4>1. /\ i \in DOMAIN daemon.shown /\ daemon.shown[i] \in Arrivals
            /\ daemon'.shown[i] = daemon.shown[i]
        BY <1>6, <3>2, NoticesShapes
      <4>2. Putting(daemon.shown[i], i) => Putting(daemon.shown[i], i)'
        BY <1>2, <1>5, <4>1 DEF Putting
      <4> QED  BY <2>0, <4>1, <4>2 DEF Follows
    <3> QED  BY <3>1, <3>2
  <2>2. ASSUME NEW i \in DOMAIN by
        PROVE  i \in excused' \cup reused \/ i \in DOMAIN daemon'.shown \/ Signalled(i)'
    <3>1. Signalled(i) => Signalled(i)'
      BY <1>2 DEF Signalled
    <3> QED  BY <1>6, <2>0, <3>1 DEF Follows
  <2> QED  BY <1>2, <2>1, <2>2 DEF Follows
<1> QED  BY <1>7, <1>8, <1>9, <1>10, <1>12, <1>13, <1>14 DEF NoticesInv

\* pendingActions.put stores the id, and forgets the oldest when it is full.
LEMMA PutKeeps ==
  ASSUME NoticesInv, NEW m \in Arrivals, Put(m)
  PROVE  NoticesInv'
<1>1. PICK id : id = handler[m].id
  OBVIOUS
<1> DEFINE full == id \notin DOMAIN by /\ Len(order) = PendingCap
           kept == IF full THEN Tail(order) ELSE order
<1> USE DEF events, table
<1>2. EventTypes /\ ScreenTypes /\ TableTypes
  BY DEF NoticesInv
<1>3. /\ handler[m].pc = "put"
      /\ handler' = [handler EXCEPT ![m].pc = "done"]
      /\ order' = IF id \in DOMAIN by THEN order ELSE Append(kept, id)
      /\ by' = [i \in ToSet(kept) \cup {id} |-> IF i = id THEN m ELSE by[i]]
      /\ UNCHANGED <<arrived, channel, isMuted, mutes, daemon, signals, opened, faults, told, missed,
                     clicked, reused>>
  BY <1>1 DEF Put
<1>4. id \in Ids /\ id \in Nat /\ m \in arrived
  BY <1>1, <1>3, <1>2, NoticesShapes DEF EventTypes, Ids
<1>5. /\ excused' = (IF id \in DOMAIN daemon.shown \/ Signalled(id) THEN excused ELSE excused \cup {id})
                      \cup (IF full THEN {Head(order)} ELSE {})
  BY <1>1 DEF Put
<1>6. /\ handler' \in [Arrivals -> Handler] /\ handler'[m].pc = "done"
      /\ \A h \in Arrivals \ {m} : handler'[h] = handler[h]
  <2>1. handler \in [Arrivals -> Handler]
    BY NoticesShapes
  <2>2. handler'[m] = [handler[m] EXCEPT !.pc = "done"] /\ handler[m] \in Handler
    BY <1>3, <2>1, NoticesShapes
  <2>3. handler'[m] \in Handler /\ handler'[m].pc = "done"
    BY <2>2 DEF Handler, HandlerSteps
  <2> QED  BY <1>3, <2>1, <2>3
<1>7. /\ kept \in Seq(Ids) /\ Distinct(kept) /\ Len(kept) <= PendingCap
      /\ id \notin DOMAIN by => Len(kept) < PendingCap
      /\ ToSet(kept) \subseteq DOMAIN by
      /\ \A i \in DOMAIN by : i \in ToSet(kept) \/ (full /\ i = Head(order))
      /\ id \notin DOMAIN by => \A j \in 1..Len(kept) : kept[j] # id
  <2>1. /\ order \in Seq(Ids) /\ Distinct(order) /\ Len(order) <= PendingCap /\ Len(order) \in Nat
        /\ PendingCap \in Nat \ {0}
        /\ \A i : i \in DOMAIN by <=> \E j \in 1..Len(order) : order[j] = i
    BY <1>2, Places, NoticesAssumption DEF TableTypes
  <2>2. CASE full
    <3>1. order # <<>>
      BY <2>1, <2>2, EmptySeq
    <3>2. /\ Head(order) = order[1] /\ Tail(order) \in Seq(Ids) /\ Len(Tail(order)) = Len(order) - 1
          /\ \A j \in 1..Len(order) - 1 : Tail(order)[j] = order[j + 1]
      BY <2>1, <3>1, Taken
    <3>3. kept = Tail(order) /\ DOMAIN kept = 1..Len(order) - 1 /\ ToSet(kept) = {kept[j] : j \in DOMAIN kept}
      BY <2>2, <3>2, Places DEF ToSet
    <3> HIDE DEF kept
    <3>4. Distinct(kept)
      BY <2>1, <3>2, <3>3 DEF Distinct
    <3>5. ASSUME NEW i \in DOMAIN by, i # Head(order) PROVE i \in ToSet(kept)
      <4>1. PICK j \in 1..Len(order) : order[j] = i
        BY <2>1
      <4>2. j - 1 \in 1..Len(order) - 1 /\ kept[j - 1] = i
        BY <2>1, <3>2, <3>3, <3>5, <4>1
      <4> QED  BY <3>3, <4>2
    <3>6. ASSUME NEW j \in DOMAIN kept PROVE kept[j] \in DOMAIN by
      BY <2>1, <3>2, <3>3
    <3>7. kept \in Seq(Ids) /\ Len(kept) = Len(order) - 1
      BY <3>2, <3>3
    <3>8. ToSet(kept) \subseteq DOMAIN by
      BY <3>3, <3>6
    <3>9. \A j \in 1..Len(kept) : kept[j] \in DOMAIN by
      BY <3>3, <3>6, <3>7
    <3>10. Len(kept) < PendingCap
      BY <2>1, <2>2, <3>7
    <3>11. id \notin DOMAIN by /\ full
      BY <2>2
    <3> HIDE DEF full
    <3>12. \A j \in 1..Len(kept) : kept[j] # id
      BY <3>9, <3>11
    <3>13. Len(kept) <= PendingCap
      BY <2>1, <3>7, <3>10
    <3> QED  BY <3>4, <3>5, <3>7, <3>8, <3>10, <3>11, <3>12, <3>13
  <2>3. CASE ~full
    <3>1. kept = order /\ DOMAIN order = 1..Len(order) /\ ToSet(order) = {order[j] : j \in DOMAIN order}
      BY <2>1, <2>3, Places DEF ToSet
    <3> HIDE DEF kept
    <3>2. ToSet(kept) = DOMAIN by
      BY <2>1, <3>1
    <3>3. id \notin DOMAIN by => Len(order) < PendingCap
      BY <2>1, <2>3
    <3>4. id \notin DOMAIN by => \A j \in 1..Len(order) : order[j] # id
      BY <2>1
    <3> HIDE DEF full
    <3> QED  BY <2>1, <3>1, <3>2, <3>3, <3>4
  <2> QED  BY <2>2, <2>3
<1>8. /\ DOMAIN by' = ToSet(kept) \cup {id} /\ by'[id] = m
      /\ \A i \in ToSet(kept) \ {id} : by'[i] = by[i]
      /\ DOMAIN by' \subseteq DOMAIN by \cup {id}
      /\ \A i \in DOMAIN by : i \in DOMAIN by' \/ i \in excused'
  BY <1>3, <1>5, <1>7
<1>9. /\ excused \subseteq excused' /\ excused' \subseteq Ids
      /\ id \in excused' \/ id \in DOMAIN daemon.shown \/ Signalled(id)
  <2>1. ASSUME full PROVE Head(order) \in Ids
    <3>1. order \in Seq(Ids) /\ Len(order) # 0
      BY <1>2, <2>1, NoticesAssumption DEF TableTypes
    <3> QED  BY <3>1, Places, Taken
  <2> QED  BY <1>5, <1>4, <1>2, <2>1 DEF ScreenTypes
<1>10. /\ order' \in Seq(Ids) /\ Distinct(order)' /\ Len(order') <= PendingCap
      /\ \A i : i \in DOMAIN by' <=> \E j \in 1..Len(order') : order'[j] = i
  <2>1. /\ Len(kept) \in Nat /\ DOMAIN kept = 1..Len(kept) /\ ToSet(kept) = {kept[j] : j \in DOMAIN kept}
        /\ PendingCap \in Nat
    BY <1>7, Places, NoticesAssumption DEF ToSet
  <2>2. CASE id \in DOMAIN by
    <3>1. kept = order /\ order' = order
      BY <1>3, <2>2
    <3> HIDE DEF kept
    <3>2. \A i : i \in DOMAIN by' <=> i \in DOMAIN by
      BY <1>7, <1>8, <2>2, <3>1
    <3> QED  BY <1>2, <3>1, <3>2 DEF TableTypes, Distinct
  <2>3. CASE id \notin DOMAIN by
    <3>1. order' = Append(kept, id)
      BY <1>3, <2>3
    <3> HIDE DEF kept, full
    <3>2. /\ order' \in Seq(Ids) /\ Len(order') = Len(kept) + 1
          /\ \A j \in 1..Len(kept) : order'[j] = kept[j]
          /\ order'[Len(kept) + 1] = id
      BY <1>4, <1>7, <3>1, Appended
    <3>3. Distinct(order)'
      BY <1>7, <2>1, <2>3, <3>2 DEF Distinct
    <3>4. Len(order') <= PendingCap
      BY <1>7, <2>1, <2>3, <3>2
    <3>5. ASSUME NEW i, i \in DOMAIN by' PROVE \E j \in 1..Len(order') : order'[j] = i
      BY <1>8, <2>1, <3>2, <3>5
    <3>6. ASSUME NEW j \in 1..Len(order') PROVE order'[j] \in DOMAIN by'
      BY <1>8, <2>1, <3>2
    <3> QED  BY <3>2, <3>3, <3>4, <3>5, <3>6
  <2> QED  BY <2>2, <2>3
<1> HIDE DEF kept, full
<1>11. EventTypes'
  <2>1. \A h \in Arrivals : /\ handler'[h].pc # "none" => h \in arrived
                            /\ handler'[h].pc = "put" => handler'[h].id # 0
    BY <1>6, <1>4, <1>2 DEF EventTypes
  <2> QED  BY <1>3, <1>6, <1>2, <2>1 DEF EventTypes
<1>12. ScreenTypes'
  <2>1. UNCHANGED <<daemon, signals, faults, told, clicked, reused>>
    BY <1>3
  <2> QED  BY <1>9, <1>2, <2>1 DEF ScreenTypes
<1>13. TableTypes'
  <2>1. ASSUME NEW i \in DOMAIN by' PROVE by'[i] \in Arrivals /\ by'[i] \in arrived
    BY <1>7, <1>8, <1>4, <1>2, NoticesShapes DEF TableTypes
  <2>2. by' \in Partial(Ids, Arrivals)
    <3>1. by' \in [DOMAIN by' -> Arrivals]
      BY <1>3, <1>8, <2>1
    <3>2. DOMAIN by' \subseteq Ids
      BY <1>8, <1>4, NoticesShapes
    <3> QED  BY <3>1, <3>2, PartialAre
  <2> QED  BY <1>3, <1>10, <1>2, <2>1, <2>2 DEF TableTypes
<1>14. ChannelIsNew'
  <2>1. \A i \in 1..Len(channel) : channel[i] \in Arrivals /\ channel[i] # m
    BY <1>3, NoticesShapes DEF NoticesInv, ChannelIsNew
  <2> QED  BY <1>3, <1>6, <2>1 DEF NoticesInv, ChannelIsNew, Distinct
<1>15. IdsAreGiven'
  <2>1. id \in reused \/ id < daemon.next
    BY <1>1, <1>3 DEF NoticesInv, IdsAreGiven
  <2> QED  BY <1>3, <1>6, <1>8, <2>1 DEF NoticesInv, IdsAreGiven
<1>16. ASSUME NEW i, NEW x, Agree(i, x) PROVE Agree(i, x)'
  <2>1. i = id => x = m
    BY <1>1, <1>3, <1>16 DEF Agree, Putting
  <2>2. i \in DOMAIN by' => by'[i] = x
    BY <1>7, <1>8, <1>16, <2>1 DEF Agree
  <2> QED  BY <1>6, <1>16, <2>2 DEF Agree, Putting
<1>17. ScreenAgrees'
  BY <1>3, <1>16 DEF NoticesInv, ScreenAgrees
<1>18. ClicksAreAligned'
  <2>1. PICK f : Aligned(f)
    BY DEF NoticesInv, ClicksAreAligned
  <2>2. Aligned(f)'
    BY <1>3, <1>16, <2>1 DEF Aligned
  <2> QED  BY <2>2 DEF ClicksAreAligned
<1>19. Follows'
  <2>0. Follows
    BY DEF NoticesInv
  <2>1. ASSUME NEW i \in DOMAIN daemon.shown
        PROVE  i \in excused' \cup reused \/ i \in DOMAIN by' \/ Putting(daemon.shown[i], i)'
    <3>1. daemon.shown[i] \in Arrivals
      BY NoticesShapes
    <3>2. ASSUME Putting(daemon.shown[i], i) PROVE i \in DOMAIN by' \/ Putting(daemon.shown[i], i)'
      <4>1. CASE daemon.shown[i] = m
        BY <1>1, <1>8, <3>2, <4>1 DEF Putting
      <4>2. CASE daemon.shown[i] # m
        BY <1>3, <1>6, <3>1, <3>2, <4>2 DEF Putting
      <4> QED  BY <4>1, <4>2
    <3> QED  BY <1>8, <1>9, <2>0, <3>2 DEF Follows
  <2>2. ASSUME NEW i \in DOMAIN by'
        PROVE  i \in excused' \cup reused \/ i \in DOMAIN daemon.shown \/ Signalled(i)
    <3>1. i \in DOMAIN by \/ i = id
      BY <1>8
    <3> QED  BY <1>9, <2>0, <3>1 DEF Follows
  <2> QED  BY <1>3, <2>1, <2>2 DEF Follows, Signalled
<1> QED  BY <1>11, <1>12, <1>13, <1>14, <1>15, <1>17, <1>18, <1>19 DEF NoticesInv

-----------------------------------------------------------------------------
(* The screen.                                                             *)

\* One goes from the screen.
LEMMA GoneIs ==
  ASSUME NoticesInv, NEW id, Gone(id)
  PROVE  /\ daemon' \in Daemon /\ daemon'.next = daemon.next
         /\ DOMAIN daemon'.shown = DOMAIN daemon.shown \ {id}
         /\ \A i \in DOMAIN daemon.shown \ {id} : daemon'.shown[i] = daemon.shown[i]
         /\ \A i \in DOMAIN daemon'.shown : i < daemon'.next /\ daemon'.shown[i] \in told
<1>1. daemon \in Daemon /\ \A i \in DOMAIN daemon.shown : i < daemon.next /\ daemon.shown[i] \in told
  BY DEF NoticesInv, ScreenTypes
<1>2. /\ daemon'.shown = [i \in DOMAIN daemon.shown \ {id} |-> daemon.shown[i]]
      /\ daemon'.next = daemon.next /\ daemon' = [shown |-> daemon'.shown, next |-> daemon.next]
  <2>1. daemon' = [daemon EXCEPT !.shown = [i \in DOMAIN daemon.shown \ {id} |-> daemon.shown[i]]]
    BY DEF Gone, Restrict
  <2> QED  BY <1>1, <2>1 DEF Daemon
<1>3. daemon'.shown \in Partial(Ids, Arrivals)
  <2>1. daemon'.shown \in [DOMAIN daemon.shown \ {id} -> Arrivals]
    BY <1>2, NoticesShapes
  <2>2. DOMAIN daemon.shown \ {id} \subseteq Ids
    BY NoticesShapes
  <2> QED  BY <2>1, <2>2, PartialAre
<1>4. daemon' \in Daemon
  BY <1>1, <1>2, <1>3 DEF Daemon
<1> QED  BY <1>1, <1>2, <1>4

\* What a change of the screen and of the signals leaves alone.
LEMMA ScreenSteps ==
  ASSUME NoticesInv,
         UNCHANGED <<arrived, channel, isMuted, mutes, handler, by, order, opened, told, missed>>
  PROVE  /\ EventTypes' /\ TableTypes' /\ ChannelIsNew'
         /\ \A i, x : Agree(i, x)' <=> Agree(i, x)
         /\ \A i, x : Putting(x, i)' <=> Putting(x, i)
<1>1. EventTypes' /\ TableTypes' /\ ChannelIsNew'
  BY DEF NoticesInv, EventTypes, TableTypes, ChannelIsNew, Distinct
<1>2. \A i, x : Agree(i, x)' <=> Agree(i, x)
  BY DEF Agree, Putting
<1>3. \A i, x : Putting(x, i)' <=> Putting(x, i)
  BY DEF Putting
<1> QED  BY <1>1, <1>2, <1>3

\* The user clicks on a notification: the daemon sends two signals and removes it.
LEMMA ClickKeeps ==
  ASSUME NoticesInv, NEW id \in DOMAIN daemon.shown, ClickNotification(id)
  PROVE  NoticesInv'
<1> DEFINE m == daemon.shown[id]
           s == [name |-> "action", id |-> id]
           t == [name |-> "closed", id |-> id]
           n == Len(clicked)
           k == Len(signals)
<1> USE DEF events, table
<1>1. /\ Gone(id) /\ signals' = signals \o <<s, t>> /\ clicked' = Append(clicked, m)
      /\ UNCHANGED <<arrived, channel, isMuted, mutes, handler, by, order, opened, faults, told,
                     missed, excused, reused>>
  BY DEF ClickNotification
<1>2. /\ daemon' \in Daemon /\ daemon'.next = daemon.next
      /\ DOMAIN daemon'.shown = DOMAIN daemon.shown \ {id}
      /\ \A i \in DOMAIN daemon.shown \ {id} : daemon'.shown[i] = daemon.shown[i]
      /\ \A i \in DOMAIN daemon'.shown : i < daemon'.next /\ daemon'.shown[i] \in told
  BY <1>1, GoneIs
<1>3. id \in Ids /\ id \in Nat /\ id < daemon.next /\ m \in Arrivals /\ s \in Signal /\ t \in Signal
  BY NoticesShapes DEF Signal
<1>4. EventTypes /\ ScreenTypes /\ TableTypes /\ IdsAreGiven /\ ScreenAgrees /\ Follows
  BY DEF NoticesInv
<1>5. /\ EventTypes' /\ TableTypes' /\ ChannelIsNew'
      /\ \A i, x : Agree(i, x)' <=> Agree(i, x)
      /\ \A i, x : Putting(x, i)' <=> Putting(x, i)
  BY <1>1, ScreenSteps
<1> HIDE DEF m, s, t
<1>6. /\ k \in Nat /\ signals' \in Seq(Signal) /\ Len(signals') = k + 2
      /\ \A i \in 1..k : signals'[i] = signals[i]
      /\ signals'[k + 1] = s /\ signals'[k + 2] = t
  <2>1. signals \in Seq(Signal) /\ <<s, t>> \in Seq(Signal) /\ Len(<<s, t>>) = 2
        /\ <<s, t>>[1] = s /\ <<s, t>>[2] = t
    BY <1>3, <1>4 DEF ScreenTypes
  <2>2. k \in Nat
    BY <2>1, Places
  <2> DEFINE u == <<s, t>>
  <2> HIDE DEF u
  <2>3. u \in Seq(Signal) /\ Len(u) = 2 /\ u[1] = s /\ u[2] = t /\ signals' = signals \o u
    BY <1>1, <2>1 DEF u
  <2>4. /\ signals' \in Seq(Signal) /\ Len(signals') = k + 2
        /\ \A i \in 1..k + 2 : signals'[i] = IF i <= k THEN signals[i] ELSE u[i - k]
    <3>1. /\ signals' \in Seq(Signal) /\ Len(signals') = k + Len(u)
          /\ \A i \in 1..k + Len(u) : signals'[i] = IF i <= k THEN signals[i] ELSE u[i - k]
      BY <2>1, <2>3, ConcatProperties
    <3> QED  BY <2>3, <3>1
  <2>5. k + 1 - k = 1 /\ k + 2 - k = 2
    BY <2>2
  <2>6. signals'[k + 1] = u[k + 1 - k] /\ signals'[k + 2] = u[k + 2 - k]
    BY <2>2, <2>4
  <2> QED  BY <2>2, <2>3, <2>4, <2>5, <2>6
<1>7. /\ n \in Nat /\ clicked' \in Seq(Arrivals) /\ Len(clicked') = n + 1
      /\ \A i \in 1..n : clicked'[i] = clicked[i]
      /\ clicked'[n + 1] = m
  <2>1. clicked \in Seq(Arrivals)
    BY <1>4 DEF ScreenTypes
  <2> QED  BY <1>1, <1>3, <2>1, Appended, Places
<1>8. ScreenTypes'
  BY <1>1, <1>2, <1>4, <1>6, <1>7 DEF ScreenTypes
<1>9. IdsAreGiven'
  <2>1. ASSUME NEW i \in 1..Len(signals'), signals'[i].id \notin reused
        PROVE  signals'[i].id < daemon.next /\ signals'[i].id \notin DOMAIN daemon'.shown
    <3>1. CASE i \in 1..k
      BY <1>2, <1>4, <1>6, <2>1, <3>1 DEF IdsAreGiven
    <3>2. CASE i \in {k + 1, k + 2}
      <4>1. signals'[i].id = id
        BY <1>6, <3>2 DEF s, t
      <4> QED  BY <1>2, <1>3, <4>1
    <3> QED  BY <1>6, <3>1, <3>2
  <2> QED  BY <1>1, <1>2, <1>4, <2>1 DEF IdsAreGiven
<1>10. ScreenAgrees'
  <2>1. ASSUME NEW i \in DOMAIN daemon'.shown, i \notin reused
        PROVE  i \in DOMAIN daemon.shown \ {id} /\ Agree(i, daemon.shown[i])'
    BY <1>2, <1>4, <1>5, <2>1 DEF ScreenAgrees
  <2>2. ASSUME NEW i \in DOMAIN daemon'.shown, i \notin reused'
        PROVE  Agree(i, daemon.shown[i])' /\ daemon'.shown[i] = daemon.shown[i]
    BY <1>1, <1>2, <2>1, <2>2
  <2> QED  BY <1>5, <2>2 DEF ScreenAgrees, Agree, Putting
<1>11. ClicksAreAligned'
  <2>1. PICK f : Aligned(f)
    BY DEF NoticesInv, ClicksAreAligned
  <2> HIDE DEF n, k
  <2>2. /\ f \in [1..n -> 1..k]
        /\ \A i, j \in 1..n : i < j => f[i] < f[j]
        /\ \A l \in 1..k : signals[l].name = "action" <=> \E i \in 1..n : f[i] = l
        /\ \A i \in 1..n : signals[f[i]].id \in reused \/ Agree(signals[f[i]].id, clicked[i])
    BY <2>1 DEF Aligned, n, k
  <2>9. PICK g : g = [i \in 1..n + 1 |-> IF i = n + 1 THEN k + 1 ELSE f[i]]
    OBVIOUS
  <2>3. /\ g \in [1..n + 1 -> 1..k + 2]
        /\ g[n + 1] = k + 1 /\ \A i \in 1..n : g[i] = f[i] /\ g[i] \in 1..k
        /\ \A i \in 1..n + 1 : i = n + 1 \/ i \in 1..n
    BY <1>6, <1>7, <2>2, <2>9
  <2>4. \A i, j \in 1..n + 1 : i < j => g[i] < g[j]
    BY <1>6, <1>7, <2>2, <2>3
  <2>5. ASSUME NEW l \in 1..k + 2
        PROVE  signals'[l].name = "action" <=> \E i \in 1..n + 1 : g[i] = l
    <3>1. CASE l \in 1..k
      <4>1. signals'[l].name = "action" <=> \E i \in 1..n : f[i] = l
        BY <1>6, <2>2, <3>1
      <4>2. l # k + 1
        BY <1>6, <3>1
      <4> QED  BY <1>7, <2>3, <4>1, <4>2
    <3>2. CASE l = k + 1
      <4>1. signals'[l].name = "action" /\ n + 1 \in 1..n + 1
        BY <1>6, <1>7, <3>2 DEF s
      <4> QED  BY <2>3, <3>2, <4>1
    <3>3. CASE l = k + 2
      <4>1. signals'[l].name = "closed"
        BY <1>6, <3>3 DEF t
      <4>2. \A i \in 1..n + 1 : g[i] # l
        BY <1>6, <2>3, <3>3
      <4> QED  BY <4>1, <4>2
    <3> QED  BY <1>6, <3>1, <3>2, <3>3
  <2>6. ASSUME NEW i \in 1..n + 1, signals'[g[i]].id \notin reused
        PROVE  Agree(signals'[g[i]].id, clicked'[i])
    <3>1. CASE i = n + 1
      <4>1. signals'[g[i]].id = id /\ clicked'[i] = m
        BY <1>6, <1>7, <2>3, <3>1 DEF s
      <4> QED  BY <1>4, <2>6, <4>1 DEF ScreenAgrees, m
    <3>2. CASE i \in 1..n
      <4>1. signals'[g[i]] = signals[f[i]] /\ clicked'[i] = clicked[i]
        BY <1>6, <1>7, <2>3, <3>2
      <4> QED  BY <2>2, <2>6, <3>2, <4>1
    <3> QED  BY <2>3, <3>1, <3>2
  <2>7. /\ g \in [1..Len(clicked') -> 1..Len(signals')]
        /\ \A i, j \in 1..Len(clicked') : i < j => g[i] < g[j]
        /\ \A l \in 1..Len(signals') :
             signals'[l].name = "action" <=> \E i \in 1..Len(clicked') : g[i] = l
        /\ \A i \in 1..Len(clicked') :
             signals'[g[i]].id \in reused' \/ Agree(signals'[g[i]].id, clicked'[i])
    BY <1>1, <1>6, <1>7, <2>3, <2>4, <2>5, <2>6
  <2>8. Aligned(g)'
    BY <1>1, <2>7 DEF Aligned, Agree, Putting
  <2> QED  BY <2>8 DEF ClicksAreAligned
<1>12. Follows'
  <2>1. ASSUME NEW i \in DOMAIN daemon'.shown
        PROVE  i \in excused \cup reused \/ i \in DOMAIN by \/ Putting(daemon'.shown[i], i)
    BY <1>2, <1>4 DEF Follows
  <2>2. ASSUME NEW i \in DOMAIN by
        PROVE  i \in excused \cup reused \/ i \in DOMAIN daemon'.shown \/ Signalled(i)'
    <3>1. DOMAIN signals = 1..k /\ DOMAIN signals' = 1..k + 2
      BY <1>4, <1>6, Places DEF ScreenTypes
    <3>2. Signalled(i) => Signalled(i)'
      BY <1>6, <3>1 DEF Signalled
    <3>3. i = id => Signalled(i)'
      <4>1. k + 1 \in DOMAIN signals' /\ signals'[k + 1].id = id
        BY <1>6, <3>1 DEF s
      <4> QED  BY <4>1 DEF Signalled
    <3> QED  BY <1>2, <1>4, <3>2, <3>3 DEF Follows
  <2> QED  BY <1>1, <2>1, <2>2 DEF Follows, Putting
<1> QED  BY <1>5, <1>8, <1>9, <1>10, <1>11, <1>12 DEF NoticesInv

\* A notification is closed without a click.
LEMMA CloseKeeps ==
  ASSUME NoticesInv, NEW id \in DOMAIN daemon.shown, Close(id)
  PROVE  NoticesInv'
<1> DEFINE t == [name |-> "closed", id |-> id]
           k == Len(signals)
<1> USE DEF events, table
<1>1. /\ Gone(id)
      /\ \/ signals' = Append(signals, t) /\ UNCHANGED excused
         \/ excused' = excused \cup {id} /\ UNCHANGED signals
      /\ UNCHANGED <<arrived, channel, isMuted, mutes, handler, by, order, opened, faults, told,
                     missed, clicked, reused>>
  BY DEF Close
<1>2. /\ daemon' \in Daemon /\ daemon'.next = daemon.next
      /\ DOMAIN daemon'.shown = DOMAIN daemon.shown \ {id}
      /\ \A i \in DOMAIN daemon.shown \ {id} : daemon'.shown[i] = daemon.shown[i]
      /\ \A i \in DOMAIN daemon'.shown : i < daemon'.next /\ daemon'.shown[i] \in told
  BY <1>1, GoneIs
<1>3. id \in Ids /\ id \in Nat /\ id < daemon.next /\ t \in Signal
  BY NoticesShapes DEF Signal
<1>4. EventTypes /\ ScreenTypes /\ TableTypes /\ IdsAreGiven /\ ScreenAgrees /\ Follows
  BY DEF NoticesInv
<1>5. /\ EventTypes' /\ TableTypes' /\ ChannelIsNew'
      /\ \A i, x : Agree(i, x)' <=> Agree(i, x)
      /\ \A i, x : Putting(x, i)' <=> Putting(x, i)
  BY <1>1, ScreenSteps
<1> HIDE DEF t
<1>6. /\ k \in Nat /\ DOMAIN signals = 1..k /\ DOMAIN signals' = 1..Len(signals')
      /\ signals' \in Seq(Signal) /\ Len(signals') \in {k, k + 1}
      /\ \A i \in 1..k : signals'[i] = signals[i]
      /\ \A i \in 1..Len(signals') : i \in 1..k \/ (i = k + 1 /\ signals'[i] = t)
      /\ excused \subseteq excused' /\ excused' \subseteq Ids
      /\ id \in excused' \/ (k + 1 \in DOMAIN signals' /\ signals'[k + 1] = t)
  <2>1. signals \in Seq(Signal) /\ excused \subseteq Ids
    BY <1>4 DEF ScreenTypes
  <2>2. k \in Nat /\ DOMAIN signals = 1..k
    BY <2>1, Places
  <2>3. CASE signals' = Append(signals, t) /\ UNCHANGED excused
    <3>1. /\ signals' \in Seq(Signal) /\ Len(signals') = k + 1
          /\ \A i \in 1..k : signals'[i] = signals[i]
          /\ signals'[k + 1] = t
      BY <1>3, <2>1, <2>3, Appended
    <3>2. DOMAIN signals' = 1..k + 1
      BY <3>1, Places
    <3> QED  BY <2>1, <2>2, <2>3, <3>1, <3>2
  <2>4. CASE excused' = excused \cup {id} /\ UNCHANGED signals
    BY <1>3, <2>1, <2>2, <2>4
  <2> QED  BY <1>1, <2>3, <2>4
<1>13. k \in Nat /\ 1..k \subseteq 1..Len(signals')
  <2>1. k \in Nat /\ (Len(signals') = k \/ Len(signals') = k + 1)
    BY <1>6
  <2> HIDE DEF k
  <2> QED  BY <2>1
<1>7. t.id = id /\ t.name = "closed"
  BY DEF t
<1>8. ScreenTypes'
  BY <1>1, <1>2, <1>4, <1>6 DEF ScreenTypes
<1>9. IdsAreGiven'
  <2>1. ASSUME NEW i \in 1..Len(signals'), signals'[i].id \notin reused
        PROVE  signals'[i].id < daemon.next /\ signals'[i].id \notin DOMAIN daemon'.shown
    <3>1. CASE i \in 1..k
      BY <1>2, <1>4, <1>6, <2>1, <3>1 DEF IdsAreGiven
    <3>2. CASE signals'[i] = t
      BY <1>2, <1>3, <1>7, <3>2
    <3> QED  BY <1>6, <3>1, <3>2
  <2> QED  BY <1>1, <1>2, <1>4, <2>1 DEF IdsAreGiven
<1>10. ScreenAgrees'
  <2>1. ASSUME NEW i \in DOMAIN daemon'.shown, i \notin reused'
        PROVE  Agree(i, daemon.shown[i])' /\ daemon'.shown[i] = daemon.shown[i]
    BY <1>1, <1>2, <1>4, <1>5, <2>1 DEF ScreenAgrees
  <2> QED  BY <1>5, <2>1 DEF ScreenAgrees, Agree, Putting
<1>11. ClicksAreAligned'
  <2>1. PICK f : Aligned(f)
    BY DEF NoticesInv, ClicksAreAligned
  <2> HIDE DEF k
  <2> DEFINE n == Len(clicked)
  <2>2. /\ f \in [1..n -> 1..k]
        /\ \A i, j \in 1..n : i < j => f[i] < f[j]
        /\ \A l \in 1..k : signals[l].name = "action" <=> \E i \in 1..n : f[i] = l
        /\ \A i \in 1..n : signals[f[i]].id \in reused \/ Agree(signals[f[i]].id, clicked[i])
    BY <2>1 DEF Aligned, k
  <2> HIDE DEF n
  <2>3. f \in [1..n -> 1..Len(signals')] /\ \A i \in 1..n : signals'[f[i]] = signals[f[i]]
    BY <1>6, <1>13, <2>2
  <2>4. ASSUME NEW l \in 1..Len(signals')
        PROVE  signals'[l].name = "action" <=> \E i \in 1..n : f[i] = l
    <3>1. CASE l \in 1..k
      BY <1>6, <2>2, <3>1
    <3>2. CASE l = k + 1 /\ signals'[l] = t
      <4>1. \A i \in 1..n : f[i] # l
        BY <1>13, <2>2, <3>2
      <4> QED  BY <1>7, <3>2, <4>1
    <3> QED  BY <1>6, <3>1, <3>2
  <2>5. /\ f \in [1..n -> 1..Len(signals')]
        /\ \A i, j \in 1..n : i < j => f[i] < f[j]
        /\ \A l \in 1..Len(signals') : signals'[l].name = "action" <=> \E i \in 1..n : f[i] = l
        /\ \A i \in 1..n : signals'[f[i]].id \in reused \/ Agree(signals'[f[i]].id, clicked[i])
    BY <2>2, <2>3, <2>4
  <2>6. Aligned(f)'
    BY <1>1, <2>5 DEF Aligned, Agree, Putting, n
  <2> QED  BY <2>6 DEF ClicksAreAligned
<1>12. Follows'
  <2>1. ASSUME NEW i \in DOMAIN daemon'.shown
        PROVE  i \in excused' \cup reused \/ i \in DOMAIN by \/ Putting(daemon'.shown[i], i)
    BY <1>2, <1>4, <1>6 DEF Follows
  <2>2. ASSUME NEW i \in DOMAIN by
        PROVE  i \in excused' \cup reused \/ i \in DOMAIN daemon'.shown \/ Signalled(i)'
    <3>1. Signalled(i) => Signalled(i)'
      BY <1>6, <1>13 DEF Signalled
    <3>2. i = id => i \in excused' \/ Signalled(i)'
      BY <1>6, <1>7 DEF Signalled
    <3> QED  BY <1>2, <1>4, <1>6, <3>1, <3>2 DEF Follows
  <2> QED  BY <1>1, <2>1, <2>2 DEF Follows, Putting
<1> QED  BY <1>5, <1>8, <1>9, <1>10, <1>11, <1>12 DEF NoticesInv

\* The daemon starts over, and gives its ids again.
LEMMA RestartKeeps ==
  ASSUME NoticesInv, DaemonRestarts
  PROVE  NoticesInv'
<1> USE DEF events, table
<1>1. /\ reused' = reused \cup 1..(daemon.next - 1)
      /\ daemon' = [shown |-> <<>>, next |-> 1]
      /\ faults < MaxFaults /\ faults' = faults + 1
      /\ UNCHANGED <<arrived, channel, isMuted, mutes, handler, signals, by, order, opened, told,
                     missed, clicked, excused>>
  BY DEF DaemonRestarts, Fault
<1>2. EventTypes /\ ScreenTypes /\ TableTypes /\ IdsAreGiven
  BY DEF NoticesInv
<1>3. /\ EventTypes' /\ TableTypes' /\ ChannelIsNew'
  BY <1>1, ScreenSteps
<1>4. daemon' \in Daemon /\ DOMAIN daemon'.shown = {} /\ daemon.next \in Nat \ {0}
  BY <1>1, PartialAre, NoticesShapes DEF Daemon, Ids
<1>5. reused' \subseteq Ids /\ \A i \in Ids : i \in reused \/ i < daemon.next => i \in reused'
  <2>1. reused \subseteq Ids
    BY <1>2 DEF ScreenTypes
  <2>2. 1..(daemon.next - 1) \subseteq Ids
    BY <1>4 DEF Ids
  <2>3. \A i \in Ids : i < daemon.next => i \in 1..(daemon.next - 1)
    BY <1>4 DEF Ids
  <2> QED  BY <1>1, <2>1, <2>2, <2>3
<1>6. faults' \in 0..MaxFaults
  BY <1>1, <1>2, CapacityAssumption DEF ScreenTypes
<1>7. ScreenTypes'
  BY <1>1, <1>2, <1>4, <1>5, <1>6 DEF ScreenTypes
<1>8. \A i \in DOMAIN by : i \in reused'
  BY <1>2, <1>5, NoticesShapes DEF IdsAreGiven
<1>9. \A i \in 1..Len(signals) : signals[i].id \in reused'
  BY <1>2, <1>5, NoticesShapes DEF IdsAreGiven
<1>10. IdsAreGiven'
  <2>1. ASSUME NEW h \in Arrivals, handler[h].pc = "put" PROVE handler[h].id \in reused'
    <3>1. handler[h].id \in Ids
      BY <1>2, <2>1, NoticesShapes DEF EventTypes, Ids
    <3> QED  BY <1>2, <1>5, <2>1, <3>1 DEF IdsAreGiven
  <2> QED  BY <1>1, <1>8, <1>9, <2>1 DEF IdsAreGiven
<1>11. ScreenAgrees'
  BY <1>4 DEF ScreenAgrees
<1>12. ClicksAreAligned'
  <2>1. PICK f : Aligned(f)
    BY DEF NoticesInv, ClicksAreAligned
  <2>2. Aligned(f)'
    BY <1>1, <1>9, <2>1 DEF Aligned
  <2> QED  BY <2>2 DEF ClicksAreAligned
<1>13. Follows'
  BY <1>1, <1>4, <1>8 DEF Follows
<1> QED  BY <1>3, <1>7, <1>10, <1>11, <1>12, <1>13 DEF NoticesInv

\* The first signal is a click if it is the first click's, and then no other's.
LEMMA FirstSignal ==
  ASSUME NEW f, Aligned(f), Len(signals) \in Nat \ {0}, Len(clicked) \in Nat
  PROVE  /\ signals[1].name = "action" => 1 \in 1..Len(clicked) /\ f[1] = 1
         /\ signals[1].name # "action" => \A i \in 1..Len(clicked) : f[i] # 1
         /\ \A i \in 1..Len(clicked) : i # 1 => f[i] # 1
<1> DEFINE n == Len(clicked)
           k == Len(signals)
<1>1. /\ f \in [1..n -> 1..k] /\ n \in Nat /\ k \in Nat \ {0}
      /\ \A i, j \in 1..n : i < j => f[i] < f[j]
      /\ \A l \in 1..k : signals[l].name = "action" <=> \E i \in 1..n : f[i] = l
  BY DEF Aligned
<1> HIDE DEF n, k
<1>2. 1 \in 1..k
  BY <1>1
<1>3. ASSUME NEW i \in 1..n, i # 1 PROVE f[i] # 1
  <2>1. 1 \in 1..n /\ 1 < i
    BY <1>1, <1>3
  <2>2. f[1] < f[i] /\ f[1] \in 1..k /\ f[i] \in 1..k
    BY <1>1, <2>1
  <2> QED  BY <1>1, <2>2
<1>4. ASSUME signals[1].name = "action" PROVE 1 \in 1..n /\ f[1] = 1
  BY <1>1, <1>2, <1>3, <1>4
<1>5. ASSUME signals[1].name # "action" PROVE \A i \in 1..n : f[i] # 1
  BY <1>1, <1>2, <1>5
<1> QED  BY <1>3, <1>4, <1>5 DEF n

\* The tray handles a signal: it opens, or forgets the id.
LEMMA SignalKeeps ==
  ASSUME NoticesInv, DispatchSignal
  PROVE  NoticesInv'
<1>0. PICK id : id = Head(signals).id
  OBVIOUS
<1>1. PICK k, n : k = Len(signals) /\ n = Len(clicked)
  OBVIOUS
<1> DEFINE click == Head(signals).name = "action"
<1> USE DEF events, table
<1>2. /\ signals # <<>> /\ signals' = Tail(signals)
      /\ by' = [i \in DOMAIN by \ {id} |-> by[i]] /\ order' = RemoveFirst(order, id)
      /\ opened' = IF click THEN Opens(id) ELSE opened
      /\ clicked' = IF click THEN Tail(clicked) ELSE clicked
      /\ UNCHANGED <<arrived, channel, isMuted, mutes, handler, daemon, faults, told, missed, excused,
                     reused>>
  BY <1>0 DEF DispatchSignal, Take, Restrict
<1>3. EventTypes /\ ScreenTypes /\ TableTypes /\ IdsAreGiven /\ ScreenAgrees /\ Follows
  BY DEF NoticesInv
<1>4. /\ k \in Nat \ {0} /\ Head(signals) = signals[1] /\ DOMAIN signals = 1..k
      /\ signals' \in Seq(Signal) /\ Len(signals') = k - 1 /\ DOMAIN signals' = 1..k - 1
      /\ \A i \in 1..k - 1 : signals'[i] = signals[i + 1]
  <2>1. signals \in Seq(Signal)
    BY <1>3 DEF ScreenTypes
  <2>2. /\ k \in Nat \ {0} /\ Head(signals) = signals[1]
        /\ signals' \in Seq(Signal) /\ Len(signals') = k - 1
        /\ \A i \in 1..k - 1 : signals'[i] = signals[i + 1]
    BY <1>1, <1>2, <2>1, Taken
  <2> QED  BY <1>1, <2>1, <2>2, Places
<1>5. n \in Nat /\ clicked \in Seq(Arrivals)
  BY <1>1, <1>3, Places DEF ScreenTypes
<1>6. PICK f : Aligned(f)
  BY DEF NoticesInv, ClicksAreAligned
<1>7. /\ click => 1 \in 1..n /\ f[1] = 1
      /\ ~click => \A i \in 1..n : f[i] # 1
      /\ \A i \in 1..n : i # 1 => f[i] # 1
  BY <1>1, <1>4, <1>5, <1>6, FirstSignal
<1>8. PICK d : d = IF click THEN 1 ELSE 0
  OBVIOUS
<1> HIDE DEF click
<1>9. /\ d \in {0, 1} /\ n - d \in Nat /\ clicked' \in Seq(Arrivals) /\ Len(clicked') = n - d
      /\ \A i \in 1..n - d : clicked'[i] = clicked[i + d]
      /\ \A i \in 1..n - d : i + d \in 1..n /\ f[i + d] # 1
  <2>1. CASE click
    <3>1. clicked # <<>>
      BY <1>1, <1>5, <1>7, <2>1, Places
    <3>2. /\ n \in Nat \ {0} /\ clicked' \in Seq(Arrivals) /\ Len(clicked') = n - 1
          /\ \A i \in 1..n - 1 : clicked'[i] = clicked[i + 1]
      BY <1>1, <1>2, <1>5, <2>1, <3>1, Taken
    <3>3. d = 1 /\ \A i \in 1..n - 1 : i + 1 \in 1..n /\ i + 1 # 1
      BY <1>5, <1>8, <2>1
    <3> QED  BY <1>7, <3>2, <3>3
  <2>2. CASE ~click
    <3>1. d = 0 /\ clicked' = clicked /\ Len(clicked) = n /\ n - d = n
      BY <1>1, <1>2, <1>5, <1>8, <2>2
    <3>2. \A i \in 1..n - d : i + d = i
      BY <1>5, <3>1
    <3> QED  BY <1>5, <1>7, <2>2, <3>1, <3>2
  <2> QED  BY <2>1, <2>2
<1>10. ScreenTypes'
  BY <1>2, <1>3, <1>4, <1>9 DEF ScreenTypes
<1>11. \A i, x : Agree(i, x) => Agree(i, x)'
  BY <1>2 DEF Agree, Putting
<1>12. EventTypes' /\ ChannelIsNew'
  BY <1>2 DEF NoticesInv, EventTypes, ChannelIsNew, Distinct
<1>13. TableTypes'
  <2>1. by' \in Partial(Ids, Arrivals)
    <3>1. by' \in [DOMAIN by \ {id} -> Arrivals] /\ DOMAIN by \ {id} \subseteq Ids
      BY <1>2, NoticesShapes
    <3> QED  BY <3>1, PartialAre
  <2>2. \A i \in DOMAIN by' : by'[i] \in arrived
    BY <1>2, <1>3 DEF TableTypes
  <2>3. /\ order' \in Seq(Ids) /\ Distinct(order') /\ Len(order') <= Len(order)
        /\ \A x : (\E j \in 1..Len(order') : order'[j] = x)
                    <=> x # id /\ \E j \in 1..Len(order) : order[j] = x
    <3>1. order \in Seq(Ids) /\ Distinct(order) /\ order' = RemoveFirst(order, id)
      BY <1>2, <1>3 DEF TableTypes
    <3>2. order' \in Seq(Ids) /\ IsWithout(order', order, id)
      BY <3>1, RemovedFirst
    <3> QED  BY <3>2 DEF IsWithout
  <2>6. Len(order') <= PendingCap
    <3>1. order \in Seq(Ids) /\ Len(order) <= PendingCap /\ PendingCap \in Nat
      BY <1>3, NoticesAssumption DEF TableTypes
    <3>2. Len(order) \in Nat /\ Len(order') \in Nat
      BY <2>3, <3>1, Places
    <3> QED  BY <2>3, <3>1, <3>2
  <2>4. \A i : i \in DOMAIN by' <=> \E j \in 1..Len(order') : order'[j] = i
    BY <1>2, <1>3, <2>3 DEF TableTypes
  <2>5. opened' \in arrived \cup {Nobody}
    BY <1>2, <1>3 DEF TableTypes, Opens
  <2> QED  BY <2>1, <2>2, <2>3, <2>4, <2>5, <2>6, <1>2 DEF TableTypes, Distinct
<1>14. IdsAreGiven'
  <2>1. ASSUME NEW i \in 1..k - 1, signals'[i].id \notin reused
        PROVE  signals'[i].id < daemon.next /\ signals'[i].id \notin DOMAIN daemon.shown
    <3>1. i + 1 \in 1..Len(signals) /\ signals'[i] = signals[i + 1]
      BY <1>1, <1>4
    <3> QED  BY <1>3, <2>1, <3>1 DEF IdsAreGiven
  <2> QED  BY <1>2, <1>3, <1>4, <2>1 DEF IdsAreGiven
<1>15. ScreenAgrees'
  BY <1>2, <1>3, <1>11 DEF ScreenAgrees
<1>16. ClicksAreAligned'
  <2>1. PICK g : g = [i \in 1..n - d |-> f[i + d] - 1]
    OBVIOUS
  <2>2. /\ f \in [1..n -> 1..k]
        /\ \A i, j \in 1..n : i < j => f[i] < f[j]
        /\ \A l \in 1..k : signals[l].name = "action" <=> \E i \in 1..n : f[i] = l
        /\ \A i \in 1..n : signals[f[i]].id \in reused \/ Agree(signals[f[i]].id, clicked[i])
    BY <1>1, <1>6 DEF Aligned
  <2>3. \A i \in 1..n - d : /\ g[i] = f[i + d] - 1 /\ g[i] \in 1..k - 1 /\ f[i + d] = g[i] + 1
                            /\ i + d \in 1..n /\ f[i + d] \in 1..k
    BY <1>4, <1>9, <2>1, <2>2
  <2>4. g \in [1..n - d -> 1..k - 1]
    BY <2>1, <2>3
  <2>5. ASSUME NEW i \in 1..n - d, NEW j \in 1..n - d, i < j PROVE g[i] < g[j]
    <3>1. f[i + d] < f[j + d]
      BY <1>9, <2>2, <2>3, <2>5
    <3> QED  BY <1>4, <2>3, <3>1
  <2>6. ASSUME NEW l \in 1..k - 1
        PROVE  signals'[l].name = "action" <=> \E i \in 1..n - d : g[i] = l
    <3>1. l + 1 \in 1..k /\ signals'[l] = signals[l + 1]
      BY <1>4
    <3>2. ASSUME NEW i \in 1..n, f[i] = l + 1 PROVE \E j \in 1..n - d : g[j] = l
      <4>1. i - d \in 1..n - d
        <5>1. d = 1 => i # 1
          <6>1. d = 1 => f[1] = 1
            BY <1>7, <1>8
          <6> QED  BY <1>4, <3>2, <6>1
        <5> QED  BY <1>5, <1>9, <5>1
      <4>2. g[i - d] = f[i - d + d] - 1 /\ i - d + d = i
        BY <1>5, <1>9, <2>3, <4>1
      <4>3. g[i - d] = l
        BY <1>4, <3>2, <4>2
      <4> QED  BY <4>1, <4>3
    <3>3. ASSUME NEW j \in 1..n - d, g[j] = l PROVE \E i \in 1..n : f[i] = l + 1
      BY <2>3, <3>3
    <3> QED  BY <2>2, <3>1, <3>2, <3>3
  <2>7. ASSUME NEW i \in 1..n - d, signals'[g[i]].id \notin reused
        PROVE  Agree(signals'[g[i]].id, clicked'[i])
    <3>1. signals'[g[i]] = signals[f[i + d]] /\ clicked'[i] = clicked[i + d]
      BY <1>4, <1>9, <2>3
    <3> QED  BY <2>2, <2>3, <2>7, <3>1
  <2>8. /\ g \in [1..Len(clicked') -> 1..Len(signals')]
        /\ \A i, j \in 1..Len(clicked') : i < j => g[i] < g[j]
        /\ \A l \in 1..Len(signals') :
             signals'[l].name = "action" <=> \E i \in 1..Len(clicked') : g[i] = l
    BY <1>4, <1>9, <2>4, <2>5, <2>6
  <2>9. \A i \in 1..Len(clicked') : \/ signals'[g[i]].id \in reused'
                                    \/ /\ signals'[g[i]].id \in DOMAIN by' => by'[signals'[g[i]].id] = clicked'[i]
                                       /\ \A h \in Arrivals : handler'[h].pc = "put" /\ handler'[h].id = signals'[g[i]].id
                                                                => h = clicked'[i]
    BY <1>2, <1>9, <2>7 DEF Agree, Putting
  <2>10. Aligned(g)'
    BY <2>8, <2>9 DEF Aligned, Agree, Putting
  <2> QED  BY <2>10 DEF ClicksAreAligned
<1>17. Follows'
  <2>1. id \in reused \/ id \notin DOMAIN daemon.shown
    BY <1>0, <1>1, <1>3, <1>4 DEF IdsAreGiven
  <2>2. ASSUME NEW i \in DOMAIN daemon.shown
        PROVE  i \in excused \cup reused \/ i \in DOMAIN by' \/ Putting(daemon.shown[i], i)
    BY <1>2, <1>3, <2>1 DEF Follows
  <2>3. ASSUME NEW i \in DOMAIN by'
        PROVE  i \in excused \cup reused \/ i \in DOMAIN daemon.shown \/ Signalled(i)'
    <3>1. i \in DOMAIN by /\ i # id
      BY <1>2
    <3>2. ASSUME NEW j \in DOMAIN signals, signals[j].id = i PROVE Signalled(i)'
      <4>1. j # 1 /\ j \in 1..k
        BY <1>0, <1>4, <3>1, <3>2
      <4>2. j - 1 \in 1..k - 1 /\ j - 1 + 1 = j
        BY <1>4, <4>1
      <4>3. signals'[j - 1] = signals[j] /\ j - 1 \in DOMAIN signals'
        BY <1>4, <4>2
      <4> QED  BY <3>2, <4>3 DEF Signalled
    <3> QED  BY <1>3, <3>1, <3>2 DEF Follows, Signalled
  <2> QED  BY <1>2, <2>2, <2>3 DEF Follows, Putting
<1> QED  BY <1>10, <1>12, <1>13, <1>14, <1>15, <1>16, <1>17 DEF NoticesInv

-----------------------------------------------------------------------------
\* Every step keeps the inductive invariant.
LEMMA NoticesKept ==
  ASSUME NoticesInv, [NoticesNext]_noticesVars
  PROVE  NoticesInv'
<1>1. CASE UNCHANGED noticesVars
  BY <1>1, MuteKeeps
<1>2. CASE NoticesNext
  BY <1>2, ArriveKeeps, MuteKeeps, DispatchKeeps, HandlerKeeps, NotifyKeeps, PutKeeps, ClickKeeps,
     CloseKeeps, RestartKeeps, SignalKeeps DEF NoticesNext
<1> QED  BY <1>1, <1>2

\* The inductive invariant holds of every behaviour.
LEMMA NoticesInvariance == NoticesSpec => []NoticesInv
<1>1. NoticesInv /\ [NoticesNext]_noticesVars => NoticesInv'
  BY NoticesKept
<1> QED  BY NoticesInitially, <1>1, PTL DEF NoticesSpec

\* The state of Notices keeps its type, and the two halves of pendingActions are of one
\* set of ids and never more than they may be.
THEOREM NoticesTypeCorrectness == NoticesSpec => []NoticesTypeOK
<1>1. NoticesInv => NoticesTypeOK
  <2> SUFFICES ASSUME NoticesInv PROVE NoticesTypeOK
    OBVIOUS
  <2>1. EventTypes /\ ScreenTypes /\ TableTypes
    BY DEF NoticesInv
  <2>2. \A m \in Arrivals : /\ handler[m].pc \in {"none", "muted", "notify", "retry", "put", "done"}
                            /\ handler[m].id \in Nat
    BY NoticesShapes DEF Handler, HandlerSteps
  <2>3. DOMAIN daemon.shown \subseteq 1..(daemon.next - 1) /\ Range(daemon.shown) \subseteq told
    <3>1. DOMAIN daemon.shown \subseteq 1..(daemon.next - 1)
      BY NoticesShapes DEF Ids
    <3> QED  BY <2>1, <3>1 DEF ScreenTypes, Range
  <2>4. ToSet(order) = DOMAIN by /\ Len(order) = Cardinality(DOMAIN by)
    <3>1. /\ order \in Seq(Ids) /\ Distinct(order)
          /\ \A id : id \in DOMAIN by <=> \E i \in 1..Len(order) : order[i] = id
      BY <2>1 DEF TableTypes
    <3>2. ToSet(order) = {order[i] : i \in 1..Len(order)}
      BY <3>1, Places DEF ToSet
    <3>3. Cardinality(DOMAIN by) = Len(order)
      BY <3>1, DistinctCounts
    <3> QED  BY <3>1, <3>2, <3>3
  <2>5. signals \in Seq([name : {"action", "closed"}, id : Ids])
    BY <2>1 DEF ScreenTypes, Signal
  <2> QED  BY <2>1, <2>2, <2>3, <2>4, <2>5 DEF EventTypes, ScreenTypes, TableTypes, NoticesTypeOK
<1> QED  BY <1>1, NoticesInvariance, PTL

\* pendingActions has the message of each notification on the screen whose id the tray
\* was told, and no others but those about to go, whatever the order in which answers
\* and signals come.
THEOREM PendingActionsFollowTheScreen == NoticesSpec => []PendingFollowsScreen
<1>1. NoticesInv => PendingFollowsScreen
  <2> SUFFICES ASSUME NoticesInv PROVE PendingFollowsScreen
    OBVIOUS
  <2>1. ScreenAgrees /\ Follows
    BY DEF NoticesInv
  <2>2. ASSUME NEW id \in DOMAIN daemon.shown \ (excused \cup reused)
        PROVE  LET m == daemon.shown[id]
               IN \/ id \in DOMAIN by /\ by[id] = m
                  \/ handler[m] = [pc |-> "put", id |-> id]
    <3> DEFINE m == daemon.shown[id]
    <3>1. Agree(id, m) /\ (id \in DOMAIN by \/ Putting(m, id))
      BY <2>1, <2>2 DEF ScreenAgrees, Follows
    <3>2. m \in Arrivals /\ handler[m] \in Handler
      BY NoticesShapes
    <3>3. Putting(m, id) => handler[m] = [pc |-> "put", id |-> id]
      BY <3>2 DEF Putting, Handler
    <3> QED  BY <3>1, <3>3 DEF Agree
  <2>3. \A id \in DOMAIN by \ (excused \cup reused) : id \in DOMAIN daemon.shown \/ Signalled(id)
    BY <2>1 DEF Follows
  <2> QED  BY <2>2, <2>3 DEF PendingFollowsScreen
<1> QED  BY <1>1, NoticesInvariance, PTL

\* onNotificationAction opens the thread of the notification the user has clicked, or
\* none, unless the daemon gave its id to another before.
THEOREM AClickOpensItsOwn == NoticesSpec => ClicksOpenTheirOwn
<1> DEFINE A == opened' # opened => opened' = Head(clicked) \/ Head(signals).id \in reused
<1>1. NoticesInv /\ [NoticesNext]_noticesVars => [A]_noticesVars
  <2> SUFFICES ASSUME NoticesInv, NoticesNext, opened' # opened, Head(signals).id \notin reused
               PROVE  opened' = Head(clicked)
    OBVIOUS
  <2> USE DEF events, table
  <2>1. DispatchSignal
    BY DEF NoticesNext, MessageArrived, SetProfileMuted, Dispatch, AccountIsMuted, Notify, NotifyFails, Put, ClickNotification,
           Close, DaemonRestarts
  <2> DEFINE id == Head(signals).id
  <2>2. /\ Head(signals).name = "action" /\ signals # <<>>
        /\ id \in DOMAIN by /\ opened' = by[id]
    BY <2>1 DEF DispatchSignal, Opens
  <2>3. signals \in Seq(Signal) /\ clicked \in Seq(Arrivals)
    BY DEF NoticesInv, ScreenTypes
  <2>4. Len(signals) \in Nat \ {0} /\ Head(signals) = signals[1] /\ Len(clicked) \in Nat
    BY <2>2, <2>3, Taken, Places
  <2>5. PICK f : Aligned(f)
    BY DEF NoticesInv, ClicksAreAligned
  <2>6. 1 \in 1..Len(clicked) /\ f[1] = 1
    BY <2>2, <2>4, <2>5, FirstSignal
  <2>7. Agree(id, clicked[1])
    BY <2>4, <2>5, <2>6 DEF Aligned
  <2>8. Head(clicked) = clicked[1]
    BY <2>3, <2>6, Places, Taken
  <2> QED  BY <2>2, <2>7, <2>8 DEF Agree
<1> QED  BY <1>1, NoticesInvariance, PTL DEF NoticesSpec, ClicksOpenTheirOwn

-----------------------------------------------------------------------------
(***************************************************************************)
(* View. That the list is current at rest is not inductive: what each      *)
(* asynchronous function holds must still be true if nothing has followed  *)
(* (TaskIsSound), and each change must be heard of, owed, or on its way    *)
(* (NothingForgotten).                                                     *)
(***************************************************************************)
Lists == UNION {[S -> Nat] : S \in SUBSET Threads}
Shown == [scope : Scopes, list : Lists, at : Nat, owed : Nat]
Opened == [id : Threads \cup {None}, upto : Nat, unread : BOOLEAN]
Task  == [kind : Kinds, pc : Steps, scope : Scopes \cup {Nowhere}, list : Lists,
          id : Threads \cup {None}, upto : Nat, unread : BOOLEAN, stale : BOOLEAN, at : Nat]

ViewTypes ==
  /\ mail \in [Threads -> Nat] /\ seen \in [Threads -> Nat] /\ known \in [Threads -> Nat]
  /\ \A t \in Threads : seen[t] <= mail[t]
  /\ clock \in Nat \ {0}
  /\ unsent \in BOOLEAN /\ connected \in BOOLEAN /\ focused \in BOOLEAN
  /\ channel \in Seq({"event"}) /\ Len(channel) <= Capacity
  /\ ~connected => channel = <<>>
  /\ view \in Shown /\ view.at <= clock /\ view.owed <= clock
  /\ open \in Opened
  /\ lastLink \in Threads \cup {None}
  /\ tasks \in [Slots -> Task]
  /\ moves \in 0..MaxMoves /\ faults \in 0..MaxFaults

\* A list is of threads of one profile.
Of(list, p) == \A t \in DOMAIN list : ProfileOf[t] = p

\* What an asynchronous function holds at its points. An answer that nothing has
\* followed is still true; what it is about to mark read the user has seen.
TaskIsSound(task) ==
  /\ task.pc \in {"list", "listed"} <=> task.scope # Nowhere
  /\ task.pc \in {"get", "got", "mark", "emit", "marked"} <=> task.id # None
  /\ task.at <= clock
  /\ task.pc \in {"list", "listed"} =>
       /\ task.kind \in {"event", "page"}
       /\ task.kind = "page" /\ ~task.stale => task.scope = view.scope
  /\ task.pc = "listed" =>
       Of(task.list, task.scope.profile) /\ (task.at = clock => task.list = List(task.scope))
  /\ task.pc \in {"got", "mark"} => task.upto <= mail[task.id]
  /\ task.pc = "mark" => task.upto <= known[task.id]
  /\ task.pc \in {"emit", "marked"} /\ task.at = clock => seen[task.id] = mail[task.id]

\* What is shown of the open thread is part of it.
OpenIsSound ==
  /\ open.unread => open.id # None
  /\ open.id # None => open.upto <= mail[open.id]

\* The list is true if nothing has followed it.
ListIsSound ==
  /\ Of(view.list, view.scope.profile)
  /\ view.at = clock => view.list = List(view.scope)

\* The function is going to bring it about that the list is read, or has read it.
Fetches(task) ==
  \/ task.pc = "emit"
  \/ task.pc = "list" /\ Applies(task)
  \/ task.pc = "listed" /\ Applies(task) /\ task.at = clock

\* The last change of the database is going to be heard of, or has been fetched.
Pending == unsent \/ channel # <<>> \/ \E i \in Slots : Fetches(tasks[i])

\* It is in the list, or owed, or still on its way.
NothingForgotten == view.at = clock \/ view.owed = clock \/ Pending

ViewInv ==
  /\ ViewTypes /\ \A i \in Slots : TaskIsSound(tasks[i])
  /\ OpenIsSound /\ ListIsSound /\ NothingForgotten /\ ReadWasSeen

-----------------------------------------------------------------------------
\* A list is a function on some of the threads.
LEMMA ListsAre ==
  /\ <<>> \in Lists /\ DOMAIN <<>> = {}
  /\ \A f : f \in Lists <=> DOMAIN f \subseteq Threads /\ f \in [DOMAIN f -> Nat]
<1>1. <<>> \in [{} -> Nat]
  OBVIOUS
<1>2. ASSUME NEW f, f \in Lists PROVE DOMAIN f \subseteq Threads /\ f \in [DOMAIN f -> Nat]
  BY <1>2 DEF Lists
<1>3. ASSUME NEW f, DOMAIN f \subseteq Threads, f \in [DOMAIN f -> Nat] PROVE f \in Lists
  BY <1>3, Zenon DEF Lists
<1>4. <<>> \in Lists
  BY <1>1, Zenon DEF Lists
<1> QED  BY <1>2, <1>3, <1>4

\* What the backend answers is a list of threads of the profile, with their unread mails.
LEMMA ListOf ==
  ASSUME mail \in [Threads -> Nat], seen \in [Threads -> Nat],
         \A t \in Threads : seen[t] <= mail[t], NEW s
  PROVE  /\ List(s) \in Lists /\ Of(List(s), s.profile)
         /\ \A t \in DOMAIN List(s) : t \in Threads /\ List(s)[t] = mail[t] - seen[t]
<1> DEFINE D == {t \in Threads : ProfileOf[t] = s.profile /\ (s.unreadOnly => seen[t] < mail[t])}
<1>1. List(s) = [t \in D |-> mail[t] - seen[t]]
  BY DEF List
<1>2. \A t \in D : mail[t] - seen[t] \in Nat
  OBVIOUS
<1>3. List(s) \in [D -> Nat] /\ DOMAIN List(s) = D /\ D \subseteq Threads
  BY <1>1, <1>2
<1>4. List(s) \in Lists
  BY <1>3, ListsAre
<1> QED  BY <1>1, <1>3, <1>4 DEF Of

\* The same, from the types.
LEMMA ListIs ==
  ASSUME ViewTypes, NEW s
  PROVE  /\ List(s) \in Lists /\ Of(List(s), s.profile)
         /\ \A t \in DOMAIN List(s) : t \in Threads /\ List(s)[t] = mail[t] - seen[t]
BY ListOf DEF ViewTypes

\* What stands for no thread, no filter and no function at work is of its type.
LEMMA Nobodys ==
  /\ None \notin Threads /\ Nowhere \notin Scopes
         /\ Idle \in Task /\ Idle.pc = "idle" /\ Idle.id = None /\ Idle.scope = Nowhere
         /\ Idle.kind = "idle" /\ Idle.at = 0 /\ Closed \in Opened
         /\ Closed.id = None /\ ~Closed.unread
<1>1. None \notin Threads /\ Nowhere \notin Scopes
  BY ViewAssumption DEF Nowhere, Scopes
<1>2. Idle \in Task
  BY ListsAre DEF Idle, Task, Kinds, Steps
<1>3. Closed \in Opened /\ Closed.id = None /\ ~Closed.unread
  BY DEF Closed, Opened
<1> QED  BY <1>1, <1>2, <1>3 DEF Idle

\* The functions that are begun.
LEMMA Begun ==
  ASSUME NEW kind \in Kinds, NEW s \in Scopes, NEW t \in Threads,
         NEW msgs \in Opened
  PROVE  /\ Listing(kind, s) \in Task /\ Getting(kind, t) \in Task /\ Marking(kind, msgs) \in Task
         /\ LET a == Listing(kind, s) IN
              a.kind = kind /\ a.pc = "list" /\ a.scope = s /\ a.id = None /\ a.at = 0 /\ ~a.stale
         /\ LET a == Getting(kind, t) IN
              a.kind = kind /\ a.pc = "get" /\ a.scope = Nowhere /\ a.id = t /\ a.at = 0
         /\ LET a == Marking(kind, msgs) IN
              /\ a.kind = kind /\ a.pc = "mark" /\ a.scope = Nowhere /\ a.id = msgs.id
              /\ a.at = 0 /\ a.upto = msgs.upto
<1>1. Idle \in Task
  BY Nobodys
<1>2. Listing(kind, s) \in Task
  BY <1>1 DEF Listing, Task, Steps
<1>3. Getting(kind, t) \in Task
  BY <1>1 DEF Getting, Task, Steps
<1>4. Marking(kind, msgs) \in Task
  BY <1>1 DEF Marking, Task, Steps, Opened
<1>5. LET a == Listing(kind, s) IN
        a.kind = kind /\ a.pc = "list" /\ a.scope = s /\ a.id = None /\ a.at = 0 /\ ~a.stale
  BY DEF Listing, Idle
<1>6. LET a == Getting(kind, t) IN
        a.kind = kind /\ a.pc = "get" /\ a.scope = Nowhere /\ a.id = t /\ a.at = 0
  BY DEF Getting, Idle
<1>7. LET a == Marking(kind, msgs) IN
        /\ a.kind = kind /\ a.pc = "mark" /\ a.scope = Nowhere /\ a.id = msgs.id
        /\ a.at = 0 /\ a.upto = msgs.upto
  BY DEF Marking, Idle
<1> QED  BY <1>2, <1>3, <1>4, <1>5, <1>6, <1>7

\* The first free slot is free.
LEMMA FirstFree ==
  ASSUME Free # {}
  PROVE  Min(Free) \in Slots /\ tasks[Min(Free)] = Idle
<1>1. IsFiniteSet(Slots) /\ Slots \in SUBSET Nat
  BY FS_Interval, ViewAssumption DEF Slots
<1>2. Free \in SUBSET Slots
  BY DEF Free
<1>3. Free \in SUBSET Nat /\ IsFiniteSet(Free)
  BY <1>1, <1>2, FS_Subset
<1>4. Min(Free) \in Free
  BY <1>3, MinIsLeast
<1> QED  BY <1>4 DEF Free

\* A function starts in a slot that was free.
LEMMA Started ==
  ASSUME NEW a, Starts(a)
  PROVE  \E i \in Slots : tasks[i] = Idle /\ Becomes(i, a)
BY FirstFree DEF Starts

\* What the list is owed, and what it shows.
LEMMA Owes ==
  ASSUME ViewTypes
  PROVE  /\ Owing(view) \in Shown /\ Owing(view).owed = clock
         /\ Owing(view).at = view.at /\ Owing(view).list = view.list
         /\ Owing(view).scope = view.scope
BY DEF ViewTypes, Owing, Shown

\* What an answer makes of what is shown: the list is replaced, and an older one owes.
LEMMA ShowsIs ==
  ASSUME ViewTypes, NEW l \in Lists, NEW at \in Nat
  PROVE  LET v == Shows(l, at) IN
         /\ v \in Shown /\ v.list = l /\ v.at = at /\ v.scope = view.scope
         /\ v.owed = IF at < view.at /\ view.owed < view.at THEN view.at ELSE view.owed
         /\ at <= clock => v.at <= clock /\ v.owed <= clock
<1>1. view \in Shown /\ view.at \in Nat /\ view.owed \in Nat
  BY DEF ViewTypes, Shown
<1>2. Max({view.owed, view.at}) = IF view.owed >= view.at THEN view.owed ELSE view.at
  BY <1>1, MaxOfTwo
<1> DEFINE o == IF at < view.at /\ view.owed < view.at THEN view.at ELSE view.owed
<1>3. o \in Nat /\ o = IF at < view.at THEN Max({view.owed, view.at}) ELSE view.owed
  BY <1>1, <1>2
<1>6. o <= clock
  BY <1>1 DEF ViewTypes
<1> HIDE DEF o
<1>4. Shows(l, at) = [view EXCEPT !.list = l, !.at = at, !.owed = o]
  BY <1>3 DEF Shows
<1>5. LET v == Shows(l, at) IN
      v \in Shown /\ v.list = l /\ v.at = at /\ v.scope = view.scope /\ v.owed = o
  BY <1>1, <1>3, <1>4 DEF Shown
<1> QED  BY <1>5, <1>6 DEF o

-----------------------------------------------------------------------------
(* Types.                                                                  *)

\* The frontend starts with the list as it is.
LEMMA ViewInitially ==
  ASSUME ViewInit
  PROVE  ViewInv
<1>1. PICK p \in Profiles :
        view = [scope |-> [profile |-> p, unreadOnly |-> FALSE],
                list |-> List([profile |-> p, unreadOnly |-> FALSE]), at |-> 1, owed |-> 0]
  BY DEF ViewInit
<1> DEFINE s == [profile |-> p, unreadOnly |-> FALSE]
<1>2. s \in Scopes /\ s.profile = p
  BY DEF Scopes
<1>3. /\ mail \in [Threads -> Nat] /\ seen \in [Threads -> Nat]
      /\ \A t \in Threads : seen[t] <= mail[t]
  BY DEF ViewInit
<1>4. List(s) \in Lists /\ Of(List(s), p)
  <2> HIDE DEF s
  <2> QED  BY <1>2, <1>3, ListOf
<1>5. ViewTypes
  <2>1. view \in Shown
    BY <1>1, <1>2, <1>4 DEF Shown
  <2>2. channel \in Seq({"event"}) /\ Len(channel) <= Capacity
    BY EmptySeq, CapacityAssumption DEF ViewInit
  <2>3. tasks \in [Slots -> Task] /\ open \in Opened
    BY Nobodys DEF ViewInit
  <2>4. moves \in 0..MaxMoves /\ faults \in 0..MaxFaults
    BY ViewAssumption, CapacityAssumption DEF ViewInit
  <2>5. view.at = 1 /\ view.owed = 0 /\ clock = 1
    BY <1>1 DEF ViewInit
  <2>6. view.at <= clock /\ view.owed <= clock /\ clock \in Nat \ {0}
    BY <2>5
  <2> QED  BY <1>3, <2>1, <2>2, <2>3, <2>4, <2>6 DEF ViewInit, ViewTypes
<1>6. \A i \in Slots : TaskIsSound(tasks[i])
  BY Nobodys DEF ViewInit, TaskIsSound
<1>7. OpenIsSound
  BY Nobodys DEF ViewInit, OpenIsSound
<1>8. ListIsSound /\ NothingForgotten
  BY <1>1, <1>4 DEF ViewInit, ListIsSound, NothingForgotten
<1>9. ReadWasSeen
  BY <1>3 DEF ViewInit, ReadWasSeen
<1> QED  BY <1>5, <1>6, <1>7, <1>8, <1>9 DEF ViewInv

\* What is emitted is in the channel, or owed.
LEMMA Emitted ==
  ASSUME ViewTypes, EmitEvent
  PROVE  /\ channel' \in Seq({"event"}) /\ Len(channel') <= Capacity
         /\ \/ connected /\ channel' # <<>> /\ view' = view
            \/ channel' = channel /\ view' = Owing(view)
<1>1. "event" \in {"event"} /\ channel \in Seq({"event"}) /\ Len(channel) <= Capacity
  BY DEF ViewTypes
<1>2. /\ Append(channel, "event") \in Seq({"event"})
      /\ Len(Append(channel, "event")) = Len(channel) + 1
  BY <1>1, Appended
<1>3. Len(channel) \in Nat /\ (Append(channel, "event") = <<>> <=> Len(Append(channel, "event")) = 0)
  BY <1>1, <1>2, Places
<1>4. Capacity \in Nat \ {0}
  BY CapacityAssumption
<1>5. IsFull(channel) <=> Len(channel) = Capacity
  BY DEF IsFull
<1>6. Send(channel, "event") = IF IsFull(channel) THEN channel ELSE Append(channel, "event")
  BY DEF Send
<1>7. CASE connected /\ ~IsFull(channel)
  BY <1>1, <1>2, <1>3, <1>4, <1>5, <1>6, <1>7 DEF EmitEvent
<1>8. CASE ~(connected /\ ~IsFull(channel))
  BY <1>1, <1>8 DEF EmitEvent
<1> QED  BY <1>7, <1>8

\* A function goes on, the others stay where they are.
LEMMA GoesOn ==
  ASSUME tasks \in [Slots -> Task], NEW i \in Slots, NEW a, Becomes(i, a)
  PROVE  /\ tasks'[i] = a /\ \A j \in Slots \ {i} : tasks'[j] = tasks[j]
         /\ a \in Task => tasks' \in [Slots -> Task]
         /\ \A j \in Slots : tasks'[j] \in {tasks[j], a}
BY DEF Becomes

\* The functions that stay where they are.
LEMMA Staying ==
  ASSUME ViewTypes, ViewTypes', NEW task \in Task, TaskIsSound(task),
         view'.scope = view.scope,
         \A t \in Threads : mail[t] <= mail'[t] /\ known[t] <= known'[t],
         UNCHANGED <<mail, seen, clock>> \/ clock' = clock + 1
  PROVE  TaskIsSound(task)'
<1>1. /\ task.at \in Nat /\ clock \in Nat /\ task.id \in Threads \cup {None} /\ task.upto \in Nat
      /\ mail \in [Threads -> Nat] /\ known \in [Threads -> Nat]
      /\ mail' \in [Threads -> Nat] /\ known' \in [Threads -> Nat]
  BY DEF ViewTypes, Task
<1>2. CASE UNCHANGED <<mail, seen, clock>>
  <2>1. List(task.scope)' = List(task.scope)
    BY <1>2 DEF List
  <2>2. task.id # None /\ task.upto <= known[task.id] => task.upto <= known'[task.id]
    BY <1>1
  <2> QED  BY <1>1, <1>2, <2>1, <2>2 DEF TaskIsSound
<1>3. CASE clock' = clock + 1
  <2>1. task.at <= clock' /\ task.at # clock'
    BY <1>1, <1>3 DEF TaskIsSound
  <2>2. /\ task.id # None /\ task.upto <= known[task.id] => task.upto <= known'[task.id]
        /\ task.id # None /\ task.upto <= mail[task.id] => task.upto <= mail'[task.id]
    BY <1>1
  <2> QED  BY <1>1, <2>1, <2>2 DEF TaskIsSound
<1> QED  BY <1>2, <1>3

\* So that one need only look at the function that takes the step.
Others(i) == \A j \in Slots \ {i} : tasks'[j] = tasks[j]

\* The database only grows, the filter stays, and what has changed is of now.
Grows ==
  /\ view'.scope = view.scope
  /\ \A t \in Threads : mail[t] <= mail'[t] /\ known[t] <= known'[t]
  /\ UNCHANGED <<mail, seen, clock>> \/ clock' = clock + 1

\* Where one slot changes and the database only grows, the other functions stay sound.
LEMMA OneTask ==
  ASSUME ViewTypes, ViewTypes', \A i \in Slots : TaskIsSound(tasks[i]), Grows,
         NEW i \in Slots, Others(i), TaskIsSound(tasks[i])'
  PROVE  \A j \in Slots : TaskIsSound(tasks[j])'
<1>1. ASSUME NEW j \in Slots \ {i} PROVE TaskIsSound(tasks[j])'
  <2>1. PICK b \in Task : b = tasks[j] /\ tasks'[j] = b
    BY DEF ViewTypes, Others
  <2>2. TaskIsSound(b)
    BY <2>1
  <2>3. TaskIsSound(b)'
    BY <2>2, Staying DEF Grows
  <2> QED  BY <2>1, <2>3 DEF TaskIsSound
<1>2. ASSUME NEW j \in Slots, j = i PROVE TaskIsSound(tasks[j])'
  BY <1>2 DEF TaskIsSound
<1> QED  BY <1>1, <1>2

\* Or at none.
LEMMA NoTask ==
  ASSUME ViewTypes, ViewTypes', \A i \in Slots : TaskIsSound(tasks[i]), Grows, UNCHANGED tasks
  PROVE  \A j \in Slots : TaskIsSound(tasks[j])'
<1>1. ASSUME NEW j \in Slots PROVE TaskIsSound(tasks[j])'
  <2>1. PICK b \in Task : b = tasks[j] /\ tasks'[j] = b
    BY DEF ViewTypes
  <2>2. TaskIsSound(b)'
    BY <2>1, Staying DEF Grows
  <2> QED  BY <2>1, <2>2 DEF TaskIsSound
<1> QED  BY <1>1

\* A handler of the user's starts a function at most.
LEMMA StartTypes ==
  ASSUME ViewTypes, NEW a \in Task, Starts(a)
  PROVE  tasks' \in [Slots -> Task]
BY Started, GoesOn DEF ViewTypes

\* Steps of the backend and of the stream keep the types.
LEMMA BackendTypes ==
  ASSUME ViewInv,
         Backend \/ Disconnect \/ Reconnect \/ EventArrives
  PROVE  ViewTypes'
<1> USE DEF database, stream, bounds
<1>1. /\ mail \in [Threads -> Nat] /\ seen \in [Threads -> Nat] /\ known \in [Threads -> Nat]
      /\ clock \in Nat /\ ViewTypes /\ MaxMoves \in Nat /\ MaxFaults \in Nat
  BY ViewAssumption, CapacityAssumption DEF ViewInv, ViewTypes
<1>2. ASSUME NEW t \in Threads, Arrive(t) PROVE ViewTypes'
  <2>4. /\ mail' = [mail EXCEPT ![t] = @ + 1] /\ clock' = clock + 1 /\ unsent' = TRUE
        /\ UNCHANGED <<seen, channel, connected, view, open, focused, lastLink, tasks, known,
                       bounds>>
    BY <1>2, Zenon DEF Arrive
  <2>1. mail' \in [Threads -> Nat] /\ \A u \in Threads : mail[u] <= mail'[u]
    BY <1>1, <2>4
  <2>2. clock' \in Nat /\ clock <= clock'
    BY <1>1, <2>4
  <2>3. /\ \A u \in Threads : seen[u] <= mail'[u]
        /\ view.at <= clock' /\ view.owed <= clock'
    BY <1>1, <2>1, <2>2 DEF ViewTypes, Shown
  <2> QED  BY <2>1, <2>2, <2>3, <2>4 DEF ViewInv, ViewTypes
<1>3. ASSUME NEW t \in Threads, ReadElsewhere(t) PROVE ViewTypes'
  <2>1. seen' = [seen EXCEPT ![t] = mail[t]] /\ known' = [known EXCEPT ![t] = Max({known[t], mail[t]})]
    BY <1>3 DEF ReadElsewhere, Sees
  <2>2. Max({known[t], mail[t]}) \in Nat
    BY <1>1, MaxOfTwo
  <2>3. /\ seen' \in [Threads -> Nat] /\ known' \in [Threads -> Nat]
        /\ \A u \in Threads : seen'[u] <= mail[u]
    BY <1>1, <2>1, <2>2 DEF ViewTypes
  <2>4. clock' \in Nat /\ clock <= clock' /\ moves' \in 0..MaxMoves
    BY <1>1, <1>3 DEF ReadElsewhere, Move, ViewTypes
  <2>5. view.at <= clock' /\ view.owed <= clock'
    BY <1>1, <2>4 DEF ViewTypes, Shown
  <2> QED  BY <1>3, <2>3, <2>4, <2>5 DEF ReadElsewhere, ViewInv, ViewTypes
<1>4. CASE EmitUnsent
  <2>1. /\ channel' \in Seq({"event"}) /\ Len(channel') <= Capacity
        /\ ~connected => channel' = <<>>
        /\ view' \in Shown /\ view'.at <= clock /\ view'.owed <= clock
    BY <1>1, <1>4, Emitted, Owes DEF EmitUnsent, ViewTypes
  <2> QED  BY <1>4, <2>1 DEF EmitUnsent, ViewInv, ViewTypes
<1>5. CASE Disconnect
  <2>1. view' \in Shown /\ view'.at <= clock /\ view'.owed <= clock
    BY <1>1, <1>5, Owes DEF Disconnect, ViewTypes
  <2>2. channel' \in Seq({"event"}) /\ Len(channel') <= Capacity
    BY <1>5, EmptySeq, CapacityAssumption DEF Disconnect
  <2>3. faults' \in 0..MaxFaults
    BY <1>1, <1>5 DEF Disconnect, Fault, ViewTypes
  <2> QED  BY <1>5, <2>1, <2>2, <2>3 DEF Disconnect, ViewInv, ViewTypes
<1>6. CASE Reconnect
  BY <1>6 DEF Reconnect, ViewInv, ViewTypes
<1>7. CASE EventArrives
  <2>1. /\ channel' \in Seq({"event"}) /\ Len(channel') <= Capacity
    BY <1>1, <1>7, Taken, CapacityAssumption DEF EventArrives, ViewTypes
  <2>2. Listing("event", view.scope) \in Task
    BY <1>1, Nobodys DEF Listing, Kinds, Steps, Task, ViewTypes, Shown
  <2>3. tasks' \in [Slots -> Task]
    BY <1>1, <1>7, <2>2, StartTypes DEF EventArrives
  <2>4. connected
    BY <1>7 DEF EventArrives, ViewInv, ViewTypes
  <2> QED  BY <1>7, <2>1, <2>3, <2>4 DEF EventArrives, ViewInv, ViewTypes
<1> QED  BY <1>2, <1>3, <1>4, <1>5, <1>6, <1>7 DEF Backend

\* What a function that works becomes.
LEMMA WorkTypes ==
  ASSUME ViewInv, NEW i \in Slots, Works(i)
  PROVE  ViewTypes'
<1> USE DEF database, stream, bounds, TaskOnly
<1>1. /\ mail \in [Threads -> Nat] /\ seen \in [Threads -> Nat] /\ known \in [Threads -> Nat]
      /\ clock \in Nat \ {0} /\ ViewTypes /\ MaxMoves \in Nat /\ MaxFaults \in Nat
      /\ tasks \in [Slots -> Task] /\ tasks[i] \in Task /\ TaskIsSound(tasks[i])
      /\ Idle \in Task /\ None \notin Threads
  BY Nobodys, ViewAssumption, CapacityAssumption DEF ViewInv, ViewTypes
<1>2. ASSUME NEW a \in Task, Becomes(i, a) PROVE tasks' \in [Slots -> Task]
  BY <1>1, <1>2, GoesOn
<1>3. CASE AnswerList(i)
  <2>1. [tasks[i] EXCEPT !.pc = "listed", !.list = List(tasks[i].scope), !.at = clock] \in Task
    BY <1>1, ListIs DEF Task, Steps
  <2> QED  BY <1>2, <1>3, <2>1 DEF AnswerList, ViewInv, ViewTypes
<1>4. CASE ListFails(i) \/ GetFails(i) \/ MarkFails(i)
  <2>1. tasks' \in [Slots -> Task] /\ faults' \in 0..MaxFaults
    BY <1>1, <1>2, <1>4 DEF ListFails, GetFails, MarkFails, Fault, ViewTypes
  <2>2. view' \in Shown /\ view'.at <= clock /\ view'.owed <= clock
    BY <1>1, <1>4, Owes DEF ListFails, GetFails, MarkFails, ViewTypes
  <2> QED  BY <1>4, <2>1, <2>2 DEF ListFails, GetFails, MarkFails, ViewInv, ViewTypes
<1>5. CASE ListArrives(i)
  <2>1. view' \in Shown /\ view'.at <= clock /\ view'.owed <= clock
    <3>1. tasks[i].list \in Lists /\ tasks[i].at \in Nat /\ tasks[i].at <= clock
      BY <1>1 DEF Task, TaskIsSound
    <3>2. LET v == Shows(tasks[i].list, tasks[i].at) IN
          v \in Shown /\ v.at <= clock /\ v.owed <= clock
      BY <1>1, <3>1, ShowsIs
    <3>3. view' = view \/ view' = Shows(tasks[i].list, tasks[i].at)
      BY <1>5 DEF ListArrives
    <3> QED  BY <1>1, <3>2, <3>3 DEF ViewTypes
  <2>2. open.id # None => Getting("event", open.id) \in Task
    BY <1>1, Nobodys DEF Getting, Task, Steps, Kinds, ViewTypes, Opened
  <2>3. tasks' \in [Slots -> Task]
    BY <1>1, <1>2, <1>5, <2>2 DEF ListArrives
  <2> QED  BY <1>5, <2>1, <2>3 DEF ListArrives, ViewInv, ViewTypes
<1>6. CASE AnswerThread(i)
  <2> DEFINE t == tasks[i].id
  <2>1. t \in Threads
    BY <1>1, <1>6 DEF AnswerThread, TaskIsSound, Task
  <2> DEFINE u == seen[t] < mail[t]
  <2>3. u \in BOOLEAN /\ mail[t] \in Nat
    BY <1>1, <2>1
  <2>4. Becomes(i, [tasks[i] EXCEPT !.pc = "got", !.upto = mail[t], !.unread = u])
    BY <1>6 DEF AnswerThread
  <2> HIDE DEF u
  <2>2. [tasks[i] EXCEPT !.pc = "got", !.upto = mail[t], !.unread = u] \in Task
    BY <1>1, <2>3 DEF Task, Steps
  <2>5. tasks' \in [Slots -> Task]
    BY <1>2, <2>2, <2>4
  <2> QED  BY <1>6, <2>5 DEF AnswerThread, ViewInv, ViewTypes
<1>7. CASE ThreadArrives(i)
  <2> DEFINE task == tasks[i]
             msgs == [id |-> task.id, upto |-> task.upto, unread |-> task.unread]
  <2>1. msgs \in Opened /\ task.id \in Threads /\ task.kind \in Kinds /\ task.upto \in Nat
    BY <1>1, <1>7 DEF ThreadArrives, TaskIsSound, Task, Opened
  <2>2. Marking(task.kind, msgs) \in Task
    BY <1>1, <2>1 DEF Marking, Task, Steps, Opened
  <2>3. tasks' \in [Slots -> Task]
    BY <1>1, <1>2, <1>7, <2>2 DEF ThreadArrives
  <2>4. open' \in {open, msgs}
    BY <1>7 DEF ThreadArrives
  <2>5. known' \in [Threads -> Nat]
    <3>1. known' = known \/ known' = [known EXCEPT ![task.id] = Max({known[task.id], task.upto})]
      BY <1>7 DEF ThreadArrives, Sees
    <3>2. Max({known[task.id], task.upto}) \in Nat
      BY <1>1, <2>1, MaxOfTwo
    <3> QED  BY <1>1, <3>1, <3>2
  <2>6. open' \in Opened
    BY <1>1, <2>1, <2>4 DEF ViewTypes
  <2> QED  BY <1>7, <2>3, <2>5, <2>6 DEF ThreadArrives, ViewInv, ViewTypes
<1>8. CASE MarkRead(i)
  <2> DEFINE task == tasks[i]
             changed == Max({task.upto - seen[task.id], 0})
  <2>1. task.id \in Threads /\ task.upto \in Nat /\ task.upto <= mail[task.id] /\ task.pc = "mark"
    BY <1>1, <1>8 DEF MarkRead, TaskIsSound, Task
  <2>2. changed = IF task.upto > seen[task.id] THEN task.upto - seen[task.id] ELSE 0
    BY <1>1, <2>1, MaxOfTwo
  <2> HIDE DEF changed
  <2>3. changed \in Nat /\ seen[task.id] + changed <= mail[task.id] /\ seen[task.id] \in Nat
    BY <1>1, <2>1, <2>2 DEF ViewTypes
  <2>4. seen' = [seen EXCEPT ![task.id] = seen[task.id] + changed]
    BY <1>8 DEF MarkRead, changed
  <2>5. seen' \in [Threads -> Nat] /\ \A u \in Threads : seen'[u] <= mail[u]
    BY <1>1, <2>1, <2>3, <2>4 DEF ViewTypes
  <2>6. clock' \in Nat \ {0} /\ clock <= clock'
    BY <1>1, <1>8 DEF MarkRead
  <2>7. tasks' \in [Slots -> Task]
    <3> DEFINE next == IF changed > 0 THEN "emit" ELSE "marked"
               at == IF task.upto = mail[task.id] THEN clock' ELSE 0
    <3>1. next \in Steps /\ at \in Nat
      BY <2>6 DEF Steps
    <3>2. Becomes(i, [task EXCEPT !.pc = next, !.at = at])
      BY <1>8 DEF MarkRead, changed
    <3> HIDE DEF next, at
    <3>3. [task EXCEPT !.pc = next, !.at = at] \in Task
      BY <1>1, <3>1 DEF Task
    <3> QED  BY <1>2, <3>2, <3>3
  <2>8. view.at <= clock' /\ view.owed <= clock'
    BY <1>1, <2>6 DEF ViewTypes, Shown
  <2> QED  BY <1>8, <2>5, <2>6, <2>7, <2>8 DEF MarkRead, ViewInv, ViewTypes
<1>9. CASE EmitMarked(i)
  <2>1. /\ channel' \in Seq({"event"}) /\ Len(channel') <= Capacity
        /\ ~connected => channel' = <<>>
        /\ view' \in Shown /\ view'.at <= clock /\ view'.owed <= clock
    BY <1>1, <1>9, Emitted, Owes DEF EmitMarked, ViewTypes
  <2>2. [tasks[i] EXCEPT !.pc = "marked"] \in Task
    BY <1>1 DEF Task, Steps
  <2>3. tasks' \in [Slots -> Task]
    BY <1>2, <1>9, <2>2 DEF EmitMarked
  <2> QED  BY <1>9, <2>1, <2>3 DEF EmitMarked, ViewInv, ViewTypes
<1>10. CASE MarkThreadRead(i)
  <2>1. tasks' \in [Slots -> Task]
    BY <1>1, <1>2, <1>10 DEF MarkThreadRead
  <2> DEFINE l == [view.list EXCEPT ![tasks[i].id] = 0]
             at == Min({view.at, tasks[i].at})
  <2>2. l \in Lists
    <3>1. view.list \in Lists
      BY <1>1 DEF ViewTypes, Shown
    <3>2. DOMAIN l = DOMAIN view.list /\ l \in [DOMAIN view.list -> Nat]
      BY <3>1, ListsAre
    <3> QED  BY <3>1, <3>2, ListsAre
  <2>3. at \in Nat /\ at <= clock
    <3>1. view.at \in Nat /\ tasks[i].at \in Nat /\ view.at <= clock /\ tasks[i].at <= clock
      BY <1>1 DEF ViewTypes, Shown, Task, TaskIsSound
    <3>2. at = IF view.at <= tasks[i].at THEN view.at ELSE tasks[i].at
      BY <3>1, MinOfTwo
    <3> QED  BY <3>1, <3>2
  <2>5. view' = view \/ view' = Shows(l, at)
    BY <1>10 DEF MarkThreadRead
  <2> HIDE DEF l, at
  <2>6. LET v == Shows(l, at) IN v \in Shown /\ v.at <= clock /\ v.owed <= clock
    BY <1>1, <2>2, <2>3, ShowsIs
  <2>4. view' \in Shown /\ view'.at <= clock /\ view'.owed <= clock
    BY <1>1, <2>5, <2>6 DEF ViewTypes
  <2> QED  BY <1>10, <2>1, <2>4 DEF MarkThreadRead, ViewInv, ViewTypes
<1> QED  BY <1>3, <1>4, <1>5, <1>6, <1>7, <1>8, <1>9, <1>10 DEF Works

\* Another filter empties the list, and outdates the pages still under way.
LEMMA Refiltered ==
  ASSUME ViewTypes, NEW s \in Scopes, Refilter(s)
  PROVE  /\ view' \in Shown /\ view'.scope = s /\ view'.list = <<>> /\ view'.at = 0 /\ view'.owed = 0
         /\ tasks' \in [Slots -> Task]
         /\ \E i \in Slots :
              /\ tasks[i] = Idle /\ tasks'[i] = Listing("page", s)
              /\ \A j \in Slots \ {i} :
                   tasks'[j] = [tasks[j] EXCEPT !.stale = tasks[j].kind = "page"]
<1>1. view' = [scope |-> s, list |-> <<>>, at |-> 0, owed |-> 0] /\ <<>> \in Lists
  BY ListsAre DEF Refilter
<1>2. view' \in Shown /\ view'.scope = s /\ view'.list = <<>> /\ view'.at = 0 /\ view'.owed = 0
  BY <1>1 DEF Shown
<1> DEFINE i == Min(Free)
<1>3. i \in Slots /\ tasks[i] = Idle
  BY FirstFree DEF Refilter
<1>4. tasks' = [j \in Slots |->
                 IF j = i THEN Listing("page", s)
                 ELSE [tasks[j] EXCEPT !.stale = tasks[j].kind = "page"]]
  BY DEF Refilter
<1> HIDE DEF i
<1>5. Listing("page", s) \in Task
  BY Nobodys DEF Listing, Kinds, Steps, Task
<1>6. ASSUME NEW j \in Slots PROVE [tasks[j] EXCEPT !.stale = tasks[j].kind = "page"] \in Task
  <2> DEFINE b == tasks[j].kind = "page"
  <2>1. b \in BOOLEAN /\ tasks[j] \in Task
    BY DEF ViewTypes
  <2> HIDE DEF b
  <2>2. [tasks[j] EXCEPT !.stale = b] \in Task
    BY <2>1 DEF Task
  <2> QED  BY <2>2 DEF b
<1>7. tasks' \in [Slots -> Task]
  BY <1>4, <1>5, <1>6
<1> QED  BY <1>2, <1>3, <1>4, <1>7

\* Steps of the user keep the types.
LEMMA UserTypes ==
  ASSUME ViewInv, User
  PROVE  ViewTypes'
<1> USE DEF database, stream, bounds
<1>1. /\ ViewTypes /\ known \in [Threads -> Nat] /\ MaxMoves \in Nat
      /\ clock \in Nat /\ None \notin Threads /\ Closed \in Opened
      /\ view.scope \in Scopes /\ open \in Opened /\ view.list \in Lists
  BY Nobodys, ViewAssumption DEF ViewInv, ViewTypes, Shown
<1>2. ASSUME Move PROVE moves' \in 0..MaxMoves
  BY <1>1, <1>2 DEF Move, ViewTypes
<1>3. CASE SetFilter
  <2>1. [view.scope EXCEPT !.unreadOnly = ~@] \in Scopes
    BY <1>1 DEF Scopes
  <2>2. view' \in Shown /\ view'.at = 0 /\ view'.owed = 0 /\ tasks' \in [Slots -> Task]
    BY <1>1, <1>3, <2>1, Refiltered DEF SetFilter
  <2> QED  BY <1>1, <1>2, <1>3, <2>2 DEF SetFilter, ViewTypes
<1>4. ASSUME NEW p \in Profiles, SetActiveProfile(p) PROVE ViewTypes'
  <2>1. [view.scope EXCEPT !.profile = p] \in Scopes
    BY <1>1 DEF Scopes
  <2>2. view' \in Shown /\ view'.at = 0 /\ view'.owed = 0 /\ tasks' \in [Slots -> Task]
    BY <1>1, <1>4, <2>1, Refiltered DEF SetActiveProfile
  <2> QED  BY <1>1, <1>2, <1>4, <2>2 DEF SetActiveProfile, ViewTypes
<1>5. ASSUME NEW t \in Threads, Click(t) PROVE ViewTypes'
  <2>1. Getting("click", t) \in Task
    BY Nobodys DEF Getting, Task, Steps, Kinds
  <2>2. tasks' \in [Slots -> Task]
    BY <1>1, <1>5, <2>1, StartTypes DEF Click
  <2> QED  BY <1>1, <1>2, <1>5, <2>2 DEF Click, ViewTypes
<1>6. ASSUME NEW t \in Threads, DeepLink(t) PROVE ViewTypes'
  <2>1. Getting("link", t) \in Task /\ [Closed EXCEPT !.id = t] \in Opened
    BY Nobodys DEF Getting, Task, Steps, Kinds, Closed, Opened
  <2>2. tasks' \in [Slots -> Task] /\ open' \in Opened /\ lastLink' \in Threads \cup {None}
    BY <1>1, <1>6, <2>1, StartTypes DEF DeepLink, ViewTypes
  <2> QED  BY <1>1, <1>2, <1>6, <2>2 DEF DeepLink, ViewTypes
<1>7. CASE Focus
  <2>1. Marking("focus", open) \in Task
    BY <1>1, Nobodys DEF Marking, Task, Steps, Kinds, Opened
  <2>2. tasks' \in [Slots -> Task]
    BY <1>1, <1>7, <2>1, StartTypes DEF Focus, ViewTypes
  <2>3. known' \in [Threads -> Nat]
    <3>1. CASE open.id = None
      BY <1>1, <1>7, <3>1 DEF Focus
    <3>2. CASE open.id # None
      <4>1. known' = [known EXCEPT ![open.id] = Max({known[open.id], open.upto})]
        BY <1>7, <3>2 DEF Focus, Sees
      <4>2. open.id \in Threads /\ open.upto \in Nat
        BY <1>1, <3>2 DEF Opened
      <4>3. Max({known[open.id], open.upto}) \in Nat
        BY <1>1, <4>2, MaxOfTwo
      <4> QED  BY <1>1, <4>1, <4>3
    <3> QED  BY <3>1, <3>2
  <2> QED  BY <1>1, <1>2, <1>7, <2>2, <2>3 DEF Focus, ViewTypes
<1>8. CASE Blur
  BY <1>1, <1>2, <1>8 DEF Blur, ViewTypes
<1> QED  BY <1>3, <1>4, <1>5, <1>6, <1>7, <1>8 DEF User

\* Every step keeps the types.
LEMMA ViewTypesKept ==
  ASSUME ViewInv, [ViewNext]_viewVars
  PROVE  ViewTypes'
<1>1. CASE UNCHANGED viewVars
  BY <1>1 DEF viewVars, database, stream, bounds, ViewInv, ViewTypes
<1> QED  BY <1>1, BackendTypes, WorkTypes, UserTypes DEF ViewNext

-----------------------------------------------------------------------------
(* The functions at work.                                                  *)

\* Nothing but time passes when neither the database nor the filter changes.
LEMMA Still ==
  ASSUME ViewTypes, UNCHANGED <<mail, seen, known, clock>>, view'.scope = view.scope
  PROVE  Grows
BY DEF ViewTypes, Grows

\* What is begun is sound.
LEMMA IdleIsSound ==
  ASSUME ViewTypes', NEW i \in Slots, tasks'[i] = Idle
  PROVE  TaskIsSound(tasks[i])'
BY Nobodys DEF TaskIsSound, ViewTypes

\* A function that has just asked for a list is sound,
LEMMA ListingIsSound ==
  ASSUME ViewTypes', NEW i \in Slots, NEW kind \in {"event", "page"},
         NEW s \in Scopes, tasks'[i] = Listing(kind, s), kind = "page" => s = view'.scope
  PROVE  TaskIsSound(tasks[i])'
<1>1. /\ tasks'[i].kind = kind /\ tasks'[i].pc = "list" /\ tasks'[i].scope = s
      /\ tasks'[i].id = None /\ tasks'[i].at = 0
  BY DEF Listing, Idle
<1> QED  BY <1>1, Nobodys DEF TaskIsSound, ViewTypes

\* so is one that has asked for a thread,
LEMMA GettingIsSound ==
  ASSUME ViewTypes', NEW i \in Slots, NEW kind \in Kinds,
         NEW t \in Threads, tasks'[i] = Getting(kind, t)
  PROVE  TaskIsSound(tasks[i])'
<1>1. /\ tasks'[i].pc = "get" /\ tasks'[i].scope = Nowhere
      /\ tasks'[i].id = t /\ tasks'[i].at = 0
  BY DEF Getting, Idle
<1> QED  BY <1>1, Nobodys DEF TaskIsSound, ViewTypes

\* and one that marks what the user has before him.
LEMMA MarkingIsSound ==
  ASSUME ViewTypes', NEW i \in Slots, NEW kind \in Kinds,
         NEW msgs \in Opened, tasks'[i] = Marking(kind, msgs), msgs.id # None,
         msgs.upto <= mail'[msgs.id], msgs.upto <= known'[msgs.id]
  PROVE  TaskIsSound(tasks[i])'
<1>1. /\ tasks'[i].pc = "mark" /\ tasks'[i].scope = Nowhere
      /\ tasks'[i].id = msgs.id /\ tasks'[i].at = 0 /\ tasks'[i].upto = msgs.upto
  BY DEF Marking, Idle
<1> QED  BY <1>1, Nobodys DEF TaskIsSound, ViewTypes

\* What the backend does makes no function unsound.
LEMMA BackendKeepsTasks ==
  ASSUME ViewInv, ViewTypes',
         Backend \/ Disconnect \/ Reconnect \/ EventArrives
  PROVE  \A j \in Slots : TaskIsSound(tasks[j])'
<1> USE DEF database, stream, bounds
<1>1. /\ ViewTypes /\ \A j \in Slots : TaskIsSound(tasks[j])
      /\ mail \in [Threads -> Nat] /\ known \in [Threads -> Nat] /\ view.scope \in Scopes
  BY DEF ViewInv, ViewTypes, Shown
<1>2. ASSUME NEW t \in Threads, Arrive(t) PROVE Grows /\ UNCHANGED tasks
  <2>1. /\ mail' = [mail EXCEPT ![t] = @ + 1] /\ clock' = clock + 1
        /\ UNCHANGED <<view, tasks, known>>
    BY <1>2, Zenon DEF Arrive
  <2> QED  BY <1>1, <2>1 DEF Grows
<1>3. ASSUME NEW t \in Threads, ReadElsewhere(t) PROVE Grows /\ UNCHANGED tasks
  <2>1. known' = [known EXCEPT ![t] = Max({known[t], mail[t]})]
    BY <1>3 DEF ReadElsewhere, Sees
  <2>2. Max({known[t], mail[t]}) \in Nat /\ known[t] <= Max({known[t], mail[t]})
    BY <1>1, MaxOfTwo
  <2>3. \A u \in Threads : known[u] <= known'[u]
    BY <1>1, <2>1, <2>2
  <2>4. /\ clock' = clock + 1 /\ UNCHANGED <<mail, view, tasks>>
    BY <1>3 DEF ReadElsewhere
  <2> QED  BY <1>1, <2>3, <2>4 DEF Grows
<1>4. CASE EmitUnsent
  <2>1. view'.scope = view.scope
    BY <1>1, <1>4, Emitted, Owes DEF EmitUnsent
  <2> QED  BY <1>1, <1>4, <2>1, Still, NoTask DEF EmitUnsent
<1>5. CASE Disconnect \/ Reconnect
  <2>1. view'.scope = view.scope
    BY <1>1, <1>5, Owes DEF Disconnect, Reconnect
  <2> QED  BY <1>1, <1>5, <2>1, Still, NoTask DEF Disconnect, Reconnect
<1>6. CASE EventArrives
  <2>1. PICK i \in Slots : Becomes(i, Listing("event", view.scope))
    BY <1>6, Started DEF EventArrives
  <2>2. PICK s \in Scopes : s = view.scope
    BY <1>1
  <2>3. tasks'[i] = Listing("event", s) /\ Others(i)
    BY <1>1, <2>1, <2>2 DEF Becomes, Others, ViewTypes
  <2>4. Grows
    BY <1>1, <1>6, Still DEF EventArrives
  <2>5. TaskIsSound(tasks[i])'
    BY <2>3, ListingIsSound
  <2> QED  BY <1>1, <2>3, <2>4, <2>5, OneTask
<1> QED  BY <1>1, <1>2, <1>3, <1>4, <1>5, <1>6, NoTask DEF Backend

\* What a function does keeps it and the others sound.
LEMMA WorkKeepsTasks ==
  ASSUME ViewInv, ViewTypes', NEW i \in Slots, Works(i)
  PROVE  \A j \in Slots : TaskIsSound(tasks[j])'
<1> USE DEF database, stream, bounds, TaskOnly
<1>1. /\ ViewTypes /\ \A j \in Slots : TaskIsSound(tasks[j])
      /\ mail \in [Threads -> Nat] /\ seen \in [Threads -> Nat] /\ known \in [Threads -> Nat]
      /\ \A t \in Threads : seen[t] <= mail[t]
      /\ tasks \in [Slots -> Task] /\ tasks[i] \in Task /\ TaskIsSound(tasks[i])
      /\ None \notin Threads /\ clock \in Nat \ {0}
  BY Nobodys DEF ViewInv, ViewTypes
<1>2. ASSUME NEW a, Becomes(i, a) PROVE tasks'[i] = a /\ Others(i)
  BY <1>1, <1>2 DEF Becomes, Others
<1>3. CASE AnswerList(i)
  <2>1. /\ tasks'[i] = [tasks[i] EXCEPT !.pc = "listed", !.list = List(tasks[i].scope), !.at = clock]
        /\ Others(i)
    BY <1>2, <1>3 DEF AnswerList
  <2>2. Grows /\ UNCHANGED <<mail, seen, view, clock>> /\ tasks[i].pc = "list"
    BY <1>1, <1>3, Still DEF AnswerList
  <2>3. /\ tasks'[i].pc = "listed" /\ tasks'[i].list = List(tasks[i].scope)
        /\ tasks'[i].at = clock /\ tasks'[i].scope = tasks[i].scope /\ tasks'[i].id = tasks[i].id
        /\ tasks'[i].kind = tasks[i].kind /\ tasks'[i].stale = tasks[i].stale
    BY <1>1, <2>1 DEF Task
  <2>4. Of(List(tasks[i].scope), tasks[i].scope.profile)
    BY <1>1, ListIs
  <2>5. List(tasks[i].scope)' = List(tasks[i].scope)
    BY <2>2, <2>3 DEF List
  <2>6. TaskIsSound(tasks[i])'
    BY <1>1, <2>2, <2>3, <2>4, <2>5 DEF TaskIsSound
  <2> QED  BY <1>1, <2>1, <2>2, <2>6, OneTask
<1>4. CASE ListFails(i) \/ GetFails(i) \/ MarkFails(i)
  <2>1. tasks'[i] = Idle /\ Others(i)
    BY <1>2, <1>4 DEF ListFails, GetFails, MarkFails
  <2>2. view'.scope = view.scope
    BY <1>1, <1>4, Owes DEF ListFails, GetFails, MarkFails
  <2>3. Grows
    BY <1>1, <1>4, <2>2, Still DEF ListFails, GetFails, MarkFails
  <2> QED  BY <1>1, <2>1, <2>3, IdleIsSound, OneTask
<1>5. CASE ListArrives(i)
  <2>1. view'.scope = view.scope
    <3>1. tasks[i].list \in Lists /\ tasks[i].at \in Nat
      BY <1>1 DEF Task
    <3> QED  BY <1>1, <1>5, <3>1, ShowsIs DEF ListArrives
  <2>2. Grows
    BY <1>1, <1>5, <2>1, Still DEF ListArrives
  <2>3. CASE tasks[i].kind = "event" /\ open.id # None
    <3>1. PICK t \in Threads : t = open.id
      BY <1>1, <2>3 DEF ViewTypes, Opened
    <3>2. tasks'[i] = Getting("event", t) /\ Others(i)
      BY <1>2, <1>5, <2>3, <3>1 DEF ListArrives
    <3>3. TaskIsSound(tasks[i])'
      BY <3>2, GettingIsSound DEF Kinds
    <3> QED  BY <1>1, <2>2, <3>2, <3>3, OneTask
  <2>4. CASE ~(tasks[i].kind = "event" /\ open.id # None)
    <3>1. tasks'[i] = Idle /\ Others(i)
      BY <1>2, <1>5, <2>4 DEF ListArrives
    <3> QED  BY <1>1, <2>2, <3>1, IdleIsSound, OneTask
  <2> QED  BY <2>3, <2>4
<1>6. CASE AnswerThread(i)
  <2> DEFINE t == tasks[i].id
             u == seen[t] < mail[t]
  <2>1. /\ tasks'[i] = [tasks[i] EXCEPT !.pc = "got", !.upto = mail[t], !.unread = u]
        /\ Others(i)
    BY <1>2, <1>6 DEF AnswerThread
  <2> HIDE DEF u
  <2>2. Grows /\ UNCHANGED <<mail, seen, view, clock>> /\ tasks[i].pc = "get"
    BY <1>1, <1>6, Still DEF AnswerThread
  <2>3. /\ tasks'[i].pc = "got" /\ tasks'[i].upto = mail[t]
        /\ tasks'[i].at = tasks[i].at /\ tasks'[i].scope = tasks[i].scope /\ tasks'[i].id = t
    BY <1>1, <2>1 DEF Task
  <2>4. TaskIsSound(tasks[i])'
    BY <1>1, <2>2, <2>3 DEF TaskIsSound, Task
  <2> QED  BY <1>1, <2>1, <2>2, <2>4, OneTask
<1>7. CASE ThreadArrives(i)
  <2> DEFINE task == tasks[i]
             msgs == [id |-> task.id, upto |-> task.upto, unread |-> task.unread]
  <2>1. /\ msgs \in Opened /\ task.id \in Threads /\ task.kind \in Kinds /\ task.upto \in Nat
        /\ task.upto <= mail[task.id]
    BY <1>1, <1>7 DEF ThreadArrives, TaskIsSound, Task, Opened
  <2>2. /\ Max({known[task.id], task.upto}) \in Nat
        /\ known[task.id] <= Max({known[task.id], task.upto})
        /\ task.upto <= Max({known[task.id], task.upto})
    BY <1>1, <2>1, MaxOfTwo
  <2>3. /\ UNCHANGED <<mail, seen, clock, view>>
        /\ known' = known \/ known' = [known EXCEPT ![task.id] = Max({known[task.id], task.upto})]
    BY <1>7 DEF ThreadArrives, Sees
  <2>4. Grows
    BY <1>1, <2>1, <2>2, <2>3 DEF Grows
  <2>5. CASE StillWanted(task) /\ Marks(task)
    <3>1. known' = [known EXCEPT ![task.id] = Max({known[task.id], task.upto})]
      BY <1>7, <2>5 DEF ThreadArrives, Sees, Marks
    <3>2. PICK m \in Opened : m = msgs
      BY <2>1
    <3>3. PICK kind \in Kinds : kind = task.kind
      BY <2>1
    <3>4. tasks'[i] = Marking(kind, m) /\ Others(i)
      BY <1>2, <1>7, <2>5, <3>2, <3>3 DEF ThreadArrives
    <3>5. m.id \in Threads /\ m.upto <= mail'[m.id] /\ m.upto <= known'[m.id]
      BY <1>1, <2>1, <2>2, <2>3, <3>1, <3>2
    <3>6. TaskIsSound(tasks[i])'
      BY <1>1, <3>4, <3>5, MarkingIsSound
    <3> QED  BY <1>1, <2>4, <3>4, <3>6, OneTask
  <2>6. CASE ~(StillWanted(task) /\ Marks(task))
    <3>1. tasks'[i] = Idle /\ Others(i)
      BY <1>2, <1>7, <2>6 DEF ThreadArrives
    <3> QED  BY <1>1, <2>4, <3>1, IdleIsSound, OneTask
  <2> QED  BY <2>5, <2>6
<1>8. CASE MarkRead(i)
  <2> DEFINE task == tasks[i]
             changed == Max({task.upto - seen[task.id], 0})
             place == IF changed > 0 THEN "emit" ELSE "marked"
             at == IF task.upto = mail[task.id] THEN clock' ELSE 0
  <2>1. task.id \in Threads /\ task.upto \in Nat /\ task.upto <= mail[task.id] /\ task.pc = "mark"
    BY <1>1, <1>8 DEF MarkRead, TaskIsSound, Task
  <2>2. changed = IF task.upto > seen[task.id] THEN task.upto - seen[task.id] ELSE 0
    BY <1>1, <2>1, MaxOfTwo
  <2>3. /\ tasks'[i] = [task EXCEPT !.pc = place, !.at = at] /\ Others(i)
        /\ seen' = [seen EXCEPT ![task.id] = seen[task.id] + changed]
        /\ clock' = IF changed > 0 THEN clock + 1 ELSE clock
        /\ UNCHANGED <<mail, view, known>>
    BY <1>2, <1>8 DEF MarkRead
  <2> HIDE DEF changed
  <2>4. Grows
    <3>1. changed = 0 => seen' = seen
      BY <1>1, <2>1, <2>3
    <3>2. changed = 0 \/ changed > 0
      BY <1>1, <2>1, <2>2
    <3> QED  BY <1>1, <2>3, <3>1, <3>2 DEF Grows
  <2>5. place \in {"emit", "marked"} /\ (at = clock' => task.upto = mail[task.id]) /\ at <= clock'
    BY <1>1, <2>3
  <2> HIDE DEF place, at
  <2>6. /\ tasks'[i].pc = place /\ tasks'[i].at = at /\ tasks'[i].id = task.id
        /\ tasks'[i].scope = task.scope
    BY <1>1, <2>3 DEF Task
  <2>7. task.upto = mail[task.id] => seen'[task.id] = mail'[task.id]
    BY <1>1, <2>1, <2>2, <2>3
  <2>8. TaskIsSound(tasks[i])'
    BY <1>1, <2>1, <2>5, <2>6, <2>7 DEF TaskIsSound
  <2> QED  BY <1>1, <2>3, <2>4, <2>8, OneTask
<1>9. CASE EmitMarked(i)
  <2>1. tasks'[i] = [tasks[i] EXCEPT !.pc = "marked"] /\ Others(i) /\ tasks[i].pc = "emit"
    BY <1>2, <1>9 DEF EmitMarked
  <2>2. view'.scope = view.scope
    BY <1>1, <1>9, Emitted, Owes DEF EmitMarked
  <2>3. Grows /\ UNCHANGED <<mail, seen, clock>>
    BY <1>1, <1>9, <2>2, Still DEF EmitMarked
  <2>4. /\ tasks'[i].pc = "marked" /\ tasks'[i].at = tasks[i].at /\ tasks'[i].id = tasks[i].id
        /\ tasks'[i].scope = tasks[i].scope
    BY <1>1, <2>1 DEF Task
  <2>5. TaskIsSound(tasks[i])'
    BY <1>1, <2>1, <2>3, <2>4 DEF TaskIsSound
  <2> QED  BY <1>1, <2>1, <2>3, <2>5, OneTask
<1>10. CASE MarkThreadRead(i)
  <2>1. tasks'[i] = Idle /\ Others(i)
    BY <1>2, <1>10 DEF MarkThreadRead
  <2>2. view'.scope = view.scope
    BY <1>1, <1>10 DEF MarkThreadRead, Shows, ViewTypes, Shown
  <2>3. Grows
    BY <1>1, <1>10, <2>2, Still DEF MarkThreadRead
  <2> QED  BY <1>1, <2>1, <2>3, IdleIsSound, OneTask
<1> QED  BY <1>3, <1>4, <1>5, <1>6, <1>7, <1>8, <1>9, <1>10 DEF Works

\* What the user does starts a sound function, and keeps the others sound.
LEMMA UserKeepsTasks ==
  ASSUME ViewInv, ViewTypes', User
  PROVE  \A j \in Slots : TaskIsSound(tasks[j])'
<1> USE DEF database, stream, bounds
<1>1. /\ ViewTypes /\ \A j \in Slots : TaskIsSound(tasks[j])
      /\ known \in [Threads -> Nat] /\ mail \in [Threads -> Nat] /\ view.scope \in Scopes
      /\ tasks \in [Slots -> Task] /\ open \in Opened /\ None \notin Threads
  BY Nobodys DEF ViewInv, ViewTypes, Shown
<1>2. ASSUME NEW s \in Scopes, Refilter(s), UNCHANGED <<database, known>>
      PROVE  \A j \in Slots : TaskIsSound(tasks[j])'
  <2>1. view'.scope = s
    BY <1>1, <1>2, Refiltered
  <2>2. PICK i \in Slots :
          /\ tasks'[i] = Listing("page", s)
          /\ \A j \in Slots \ {i} : tasks'[j] = [tasks[j] EXCEPT !.stale = tasks[j].kind = "page"]
    BY <1>1, <1>2, Refiltered
  <2>3. TaskIsSound(tasks[i])'
    BY <2>1, <2>2, ListingIsSound
  <2>4. ASSUME NEW j \in Slots \ {i} PROVE TaskIsSound(tasks[j])'
    <3> DEFINE b == tasks[j].kind = "page"
    <3>1. tasks'[j] = [tasks[j] EXCEPT !.stale = b] /\ tasks[j] \in Task /\ TaskIsSound(tasks[j])
      BY <1>1, <2>2
    <3>2. b => tasks'[j].stale
      BY <3>1, Zenon DEF Task
    <3> HIDE DEF b
    <3>3. /\ tasks'[j].kind = tasks[j].kind /\ tasks'[j].pc = tasks[j].pc
          /\ tasks'[j].scope = tasks[j].scope /\ tasks'[j].list = tasks[j].list
          /\ tasks'[j].id = tasks[j].id /\ tasks'[j].upto = tasks[j].upto
          /\ tasks'[j].at = tasks[j].at
      BY <3>1 DEF Task
    <3>4. tasks[j].kind = "page" => tasks'[j].stale
      BY <3>2 DEF b
    <3>5. List(tasks[j].scope)' = List(tasks[j].scope)
      BY <1>2, <3>3 DEF List
    <3>6. TaskIsSound(tasks[j])
      BY <1>1
    <3>7. UNCHANGED <<mail, seen, known, clock>>
      BY <1>2
    <3> QED  BY <2>1, <3>3, <3>4, <3>5, <3>6, <3>7 DEF TaskIsSound, Of
  <2> QED  BY <2>3, <2>4
<1>3. CASE SetFilter
  <2>1. [view.scope EXCEPT !.unreadOnly = ~@] \in Scopes
    BY <1>1 DEF Scopes
  <2> QED  BY <1>2, <1>3, <2>1 DEF SetFilter
<1>4. ASSUME NEW p \in Profiles, SetActiveProfile(p) PROVE \A j \in Slots : TaskIsSound(tasks[j])'
  <2>1. [view.scope EXCEPT !.profile = p] \in Scopes
    BY <1>1 DEF Scopes
  <2> QED  BY <1>2, <1>4, <2>1 DEF SetActiveProfile
<1>5. ASSUME NEW t \in Threads, Click(t) PROVE \A j \in Slots : TaskIsSound(tasks[j])'
  <2>1. PICK i \in Slots : Becomes(i, Getting("click", t))
    BY <1>5, Started DEF Click
  <2>2. tasks'[i] = Getting("click", t) /\ Others(i)
    BY <1>1, <2>1 DEF Becomes, Others
  <2>3. Grows
    BY <1>1, <1>5, Still DEF Click
  <2>4. TaskIsSound(tasks[i])'
    BY <2>2, GettingIsSound DEF Kinds
  <2> QED  BY <1>1, <2>2, <2>3, <2>4, OneTask
<1>6. ASSUME NEW t \in Threads, DeepLink(t) PROVE \A j \in Slots : TaskIsSound(tasks[j])'
  <2>3. Grows
    BY <1>1, <1>6, Still DEF DeepLink
  <2>1. CASE lastLink = t
    BY <1>1, <1>6, <2>1, <2>3, NoTask DEF DeepLink
  <2>2. CASE lastLink # t
    <3>1. PICK i \in Slots : Becomes(i, Getting("link", t))
      BY <1>6, <2>2, Started DEF DeepLink
    <3>2. tasks'[i] = Getting("link", t) /\ Others(i)
      BY <1>1, <3>1 DEF Becomes, Others
    <3>4. TaskIsSound(tasks[i])'
      BY <3>2, GettingIsSound DEF Kinds
    <3> QED  BY <1>1, <2>3, <3>2, <3>4, OneTask
  <2> QED  BY <2>1, <2>2
<1>7. CASE Focus
  <2>1. /\ UNCHANGED <<mail, seen, clock, view>>
        /\ open.id = None => known' = known
        /\ open.id # None => known' = [known EXCEPT ![open.id] = Max({known[open.id], open.upto})]
    BY <1>7 DEF Focus, Sees
  <2>2. open.id # None => /\ open.id \in Threads /\ open.upto \in Nat
                          /\ open.upto <= mail[open.id]
    BY <1>1 DEF Opened, ViewInv, OpenIsSound
  <2>3. open.id # None => /\ Max({known[open.id], open.upto}) \in Nat
                          /\ known[open.id] <= Max({known[open.id], open.upto})
                          /\ open.upto <= Max({known[open.id], open.upto})
    BY <1>1, <2>2, MaxOfTwo
  <2>4. Grows
    BY <1>1, <2>1, <2>2, <2>3 DEF Grows
  <2>5. CASE ~open.unread
    BY <1>1, <1>7, <2>4, <2>5, NoTask DEF Focus
  <2>6. CASE open.unread
    <3>1. PICK i \in Slots : Becomes(i, Marking("focus", open))
      BY <1>7, <2>6, Started DEF Focus
    <3>2. PICK m \in Opened : m = open
      BY <1>1
    <3>3. tasks'[i] = Marking("focus", m) /\ Others(i)
      BY <1>1, <3>1, <3>2 DEF Becomes, Others
    <3>4. m.id # None /\ m.upto <= mail'[m.id] /\ m.upto <= known'[m.id]
      BY <1>1, <2>1, <2>2, <2>3, <2>6, <3>2 DEF ViewInv, OpenIsSound
    <3>5. TaskIsSound(tasks[i])'
      BY <3>3, <3>4, MarkingIsSound DEF Kinds
    <3> QED  BY <1>1, <2>4, <3>3, <3>5, OneTask
  <2> QED  BY <2>5, <2>6
<1>8. CASE Blur
  BY <1>1, <1>8, Still, NoTask DEF Blur
<1> QED  BY <1>3, <1>4, <1>5, <1>6, <1>7, <1>8 DEF User

\* Every step keeps the functions at work sound.
LEMMA TasksKept ==
  ASSUME ViewInv, ViewTypes', [ViewNext]_viewVars
  PROVE  \A j \in Slots : TaskIsSound(tasks[j])'
<1>1. CASE UNCHANGED viewVars
  BY <1>1, Still, NoTask DEF viewVars, database, ViewInv
<1> QED  BY <1>1, BackendKeepsTasks, WorkKeepsTasks, UserKeepsTasks DEF ViewNext

-----------------------------------------------------------------------------
(* The open thread, and what is read.                                      *)

\* Every step keeps what is known of the open thread, and what is read seen.
LEMMA OpenKept ==
  ASSUME ViewInv, ViewTypes', [ViewNext]_viewVars
  PROVE  OpenIsSound' /\ ReadWasSeen'
<1> USE DEF database, stream, bounds, TaskOnly
<1>1. /\ ViewTypes /\ OpenIsSound /\ ReadWasSeen
      /\ mail \in [Threads -> Nat] /\ seen \in [Threads -> Nat] /\ known \in [Threads -> Nat]
      /\ \A t \in Threads : seen[t] <= mail[t]
      /\ open \in Opened /\ None \notin Threads
      /\ \A i \in Slots : tasks[i] \in Task /\ TaskIsSound(tasks[i])
  BY Nobodys DEF ViewInv, ViewTypes
<1>2. ASSUME UNCHANGED <<open, mail>> PROVE OpenIsSound'
  BY <1>1, <1>2 DEF OpenIsSound
<1>3. ASSUME UNCHANGED <<seen, known>> PROVE ReadWasSeen'
  BY <1>1, <1>3 DEF ReadWasSeen
<1>4. ASSUME NEW t \in Threads, NEW n \in Nat, Sees(t, n)
      PROVE  /\ \A u \in Threads : known[u] <= known'[u]
             /\ n <= known'[t]
  <2>1. /\ Max({known[t], n}) \in Nat /\ known[t] <= Max({known[t], n})
        /\ n <= Max({known[t], n})
    BY <1>1, MaxOfTwo
  <2>2. known' = [known EXCEPT ![t] = Max({known[t], n})]
    BY <1>4 DEF Sees
  <2> QED  BY <1>1, <2>1, <2>2
<1>5. ASSUME UNCHANGED seen, \A u \in Threads : known[u] <= known'[u] PROVE ReadWasSeen'
  BY <1>1, <1>5 DEF ReadWasSeen, ViewTypes
<1>6. CASE UNCHANGED viewVars
  BY <1>2, <1>3, <1>6 DEF viewVars
<1>7. ASSUME NEW t \in Threads, Arrive(t) PROVE OpenIsSound' /\ ReadWasSeen'
  <2>1. mail' = [mail EXCEPT ![t] = @ + 1] /\ UNCHANGED <<open, seen, known>>
    BY <1>7, Zenon DEF Arrive
  <2>2. \A u \in Threads : mail[u] <= mail'[u]
    BY <1>1, <2>1
  <2> QED  BY <1>1, <1>3, <2>1, <2>2 DEF OpenIsSound, Opened, ViewTypes
<1>8. ASSUME NEW t \in Threads, ReadElsewhere(t) PROVE OpenIsSound' /\ ReadWasSeen'
  <2>1. seen' = [seen EXCEPT ![t] = mail[t]] /\ Sees(t, mail[t]) /\ UNCHANGED <<open, mail>>
    BY <1>8 DEF ReadElsewhere
  <2>2. (\A u \in Threads : known[u] <= known'[u]) /\ mail[t] <= known'[t]
    BY <1>1, <1>4, <2>1
  <2>3. \A u \in Threads : seen'[u] <= known'[u]
    BY <1>1, <2>1, <2>2 DEF ReadWasSeen, ViewTypes
  <2> QED  BY <1>2, <2>1, <2>3 DEF ReadWasSeen
<1>9. CASE EmitUnsent \/ Disconnect \/ Reconnect \/ EventArrives
  BY <1>2, <1>3, <1>9 DEF EmitUnsent, Disconnect, Reconnect, EventArrives
<1>10. ASSUME NEW i \in Slots, Works(i) PROVE OpenIsSound' /\ ReadWasSeen'
  <2>1. CASE AnswerList(i) \/ ListFails(i) \/ ListArrives(i)
    BY <1>2, <1>3, <2>1 DEF AnswerList, ListFails, ListArrives
  <2>2. CASE AnswerThread(i) \/ GetFails(i) \/ MarkFails(i) \/ EmitMarked(i) \/ MarkThreadRead(i)
    BY <1>2, <1>3, <2>2 DEF AnswerThread, GetFails, MarkFails, EmitMarked, MarkThreadRead
  <2>3. CASE ThreadArrives(i)
    <3> DEFINE task == tasks[i]
               msgs == [id |-> task.id, upto |-> task.upto, unread |-> task.unread]
    <3>1. task.id \in Threads /\ task.upto \in Nat /\ task.upto <= mail[task.id]
      BY <1>1, <2>3 DEF ThreadArrives, TaskIsSound, Task
    <3>2. open' = open \/ open' = msgs
      BY <2>3 DEF ThreadArrives
    <3>3. known' = known \/ Sees(task.id, task.upto)
      BY <2>3 DEF ThreadArrives
    <3>4. UNCHANGED <<mail, seen>>
      BY <2>3 DEF ThreadArrives
    <3>5. OpenIsSound'
      BY <1>1, <3>1, <3>2, <3>4 DEF OpenIsSound
    <3>6. ReadWasSeen'
      BY <1>3, <1>4, <1>5, <3>1, <3>3, <3>4
    <3> QED  BY <3>5, <3>6
  <2>4. CASE MarkRead(i)
    <3> DEFINE task == tasks[i]
               changed == Max({task.upto - seen[task.id], 0})
    <3>1. /\ task.id \in Threads /\ task.upto \in Nat /\ task.upto <= known[task.id]
      BY <1>1, <2>4 DEF MarkRead, TaskIsSound, Task
    <3>2. changed = IF task.upto > seen[task.id] THEN task.upto - seen[task.id] ELSE 0
      BY <1>1, <3>1, MaxOfTwo
    <3>3. /\ seen' = [seen EXCEPT ![task.id] = seen[task.id] + changed]
          /\ UNCHANGED <<mail, open, known>>
      BY <2>4 DEF MarkRead
    <3> HIDE DEF changed
    <3>4. \A u \in Threads : seen'[u] <= known[u]
      BY <1>1, <3>1, <3>2, <3>3 DEF ReadWasSeen
    <3> QED  BY <1>2, <3>3, <3>4 DEF ReadWasSeen
  <2> QED  BY <1>10, <2>1, <2>2, <2>3, <2>4 DEF Works
<1>11. CASE SetFilter \/ Blur \/ \E t \in Threads : Click(t)
  BY <1>2, <1>3, <1>11 DEF SetFilter, Blur, Click
<1>12. ASSUME NEW p \in Profiles, SetActiveProfile(p) PROVE OpenIsSound' /\ ReadWasSeen'
  BY <1>3, <1>12, Nobodys DEF SetActiveProfile, OpenIsSound
<1>13. ASSUME NEW t \in Threads, DeepLink(t) PROVE OpenIsSound' /\ ReadWasSeen'
  <2>1. open' = open \/ open' = [Closed EXCEPT !.id = t]
    BY <1>13 DEF DeepLink
  <2>2. UNCHANGED <<mail, seen, known>>
    BY <1>13 DEF DeepLink
  <2>3. LET c == [Closed EXCEPT !.id = t] IN c.id = t /\ c.upto = 0 /\ ~c.unread
    BY DEF Closed
  <2>4. 0 <= mail[t]
    BY <1>1
  <2>5. CASE open' = open
    BY <1>2, <1>3, <2>2, <2>5
  <2>6. CASE open' = [Closed EXCEPT !.id = t]
    <3>1. open'.id = t /\ open'.upto = 0 /\ ~open'.unread
      BY <2>3, <2>6
    <3>2. t # None /\ 0 <= mail'[t]
      BY <1>1, <2>2, <2>4
    <3> QED  BY <1>3, <2>2, <3>1, <3>2 DEF OpenIsSound
  <2> QED  BY <2>1, <2>5, <2>6
<1>14. CASE Focus
  <2>1. /\ UNCHANGED <<mail, seen, open>>
        /\ IF open.id = None THEN known' = known ELSE Sees(open.id, open.upto)
    BY <1>14 DEF Focus
  <2>2. open.id # None => open.id \in Threads /\ open.upto \in Nat
    BY <1>1 DEF Opened
  <2> QED  BY <1>2, <1>3, <1>4, <1>5, <2>1, <2>2
<1> QED  BY <1>6, <1>7, <1>8, <1>9, <1>10, <1>11, <1>12, <1>13, <1>14 DEF ViewNext, Backend, User

-----------------------------------------------------------------------------
(* The list.                                                               *)

\* An answer that is shown is for the filter.
LEMMA AppliesIs ==
  ASSUME ViewInv, NEW i \in Slots, tasks[i].pc \in {"list", "listed"}, Applies(tasks[i])
  PROVE  tasks[i].scope = view.scope
BY DEF ViewInv, TaskIsSound, Applies

\* The list after MarkThreadRead is no less true.
LEMMA ReadIsNothingNew ==
  ASSUME ViewTypes, NEW s, NEW t \in DOMAIN List(s), seen[t] = mail[t]
  PROVE  [List(s) EXCEPT ![t] = 0] = List(s)
<1>1. List(s) \in Lists /\ List(s)[t] = mail[t] - seen[t] /\ t \in Threads
  BY ListIs
<1>2. List(s)[t] = 0
  BY <1>1 DEF ViewTypes
<1>3. List(s) \in [DOMAIN List(s) -> Nat]
  BY <1>1, ListsAre
<1> QED  BY <1>2, <1>3

\* Every step keeps the list true if nothing has followed it.
LEMMA ListKept ==
  ASSUME ViewInv, ViewTypes', [ViewNext]_viewVars
  PROVE  ListIsSound'
<1> USE DEF database, stream, bounds, TaskOnly
<1>1. /\ ViewTypes /\ ListIsSound /\ view \in Shown
      /\ clock \in Nat \ {0} /\ view.at \in Nat /\ view.at <= clock
      /\ \A i \in Slots : tasks[i] \in Task /\ TaskIsSound(tasks[i])
  BY DEF ViewInv, ViewTypes, Shown
<1>2. ASSUME view' = view \/ view' = Owing(view), UNCHANGED database PROVE ListIsSound'
  <2>1. /\ view'.list = view.list /\ view'.at = view.at /\ view'.scope = view.scope
    BY <1>1, <1>2, Owes
  <2>2. List(view.scope)' = List(view.scope)
    BY <1>2, <2>1 DEF List
  <2> QED  BY <1>1, <1>2, <2>1, <2>2 DEF ListIsSound, Of
<1>3. ASSUME view' = view, clock' = clock + 1 PROVE ListIsSound'
  <2>1. view'.at # clock'
    BY <1>1, <1>3
  <2> QED  BY <1>1, <1>3, <2>1 DEF ListIsSound, Of
<1>4. ASSUME NEW s \in Scopes, Refilter(s) PROVE ListIsSound'
  <2>1. view'.list = <<>> /\ view'.at = 0 /\ clock' # 0
    BY <1>1, <1>4, Refiltered DEF ViewTypes
  <2> QED  BY <2>1, ListsAre DEF ListIsSound, Of
<1>5. CASE UNCHANGED viewVars
  BY <1>2, <1>5 DEF viewVars
<1>6. ASSUME NEW t \in Threads, Arrive(t) \/ ReadElsewhere(t) PROVE ListIsSound'
  <2>1. view' = view /\ clock' = clock + 1
    BY <1>6, Zenon DEF Arrive, ReadElsewhere
  <2> QED  BY <1>3, <2>1
<1>7. CASE EmitUnsent \/ Disconnect \/ Reconnect \/ EventArrives
  BY <1>1, <1>2, <1>7, Emitted DEF EmitUnsent, Disconnect, Reconnect, EventArrives
<1>8. ASSUME NEW i \in Slots, Works(i) PROVE ListIsSound'
  <2>1. CASE AnswerList(i) \/ ListFails(i)
    BY <1>2, <2>1 DEF AnswerList, ListFails
  <2>2. CASE AnswerThread(i) \/ GetFails(i) \/ MarkFails(i) \/ ThreadArrives(i)
    BY <1>2, <2>2 DEF AnswerThread, GetFails, MarkFails, ThreadArrives
  <2>3. CASE EmitMarked(i)
    BY <1>1, <1>2, <2>3, Emitted DEF EmitMarked
  <2>4. CASE ListArrives(i)
    <3>1. CASE ~Applies(tasks[i])
      BY <1>2, <2>4, <3>1 DEF ListArrives
    <3>2. CASE Applies(tasks[i])
      <4>1. /\ tasks[i].pc = "listed" /\ view' = Shows(tasks[i].list, tasks[i].at)
            /\ UNCHANGED database
        BY <2>4, <3>2 DEF ListArrives
      <4>2. tasks[i].scope = view.scope
        BY <3>2, <4>1, AppliesIs
      <4>3. /\ Of(tasks[i].list, tasks[i].scope.profile)
            /\ tasks[i].at = clock => tasks[i].list = List(tasks[i].scope)
        BY <1>1, <4>1 DEF TaskIsSound
      <4>4. tasks[i].list \in Lists /\ tasks[i].at \in Nat
        BY <1>1 DEF Task
      <4>5. /\ view'.list = tasks[i].list /\ view'.at = tasks[i].at /\ view'.scope = view.scope
        BY <1>1, <4>1, <4>4, ShowsIs
      <4>6. List(view.scope)' = List(view.scope)
        BY <4>1, <4>5 DEF List
      <4> QED  BY <4>1, <4>2, <4>3, <4>5, <4>6 DEF ListIsSound, Of
    <3> QED  BY <3>1, <3>2
  <2>5. CASE MarkThreadRead(i)
    <3> DEFINE task == tasks[i]
               l == [view.list EXCEPT ![task.id] = 0]
               at == Min({view.at, task.at})
    <3>1. CASE task.id \notin DOMAIN view.list
      BY <1>2, <2>5, <3>1 DEF MarkThreadRead
    <3>2. CASE task.id \in DOMAIN view.list
      <4>1. view' = Shows(l, at) /\ task.pc = "marked" /\ UNCHANGED database
        BY <2>5, <3>2 DEF MarkThreadRead
      <4>2. task.at \in Nat /\ task.at <= clock /\ view.list \in Lists
        BY <1>1 DEF Task, TaskIsSound, Shown
      <4>3. at = IF view.at <= task.at THEN view.at ELSE task.at
        BY <1>1, <4>2, MinOfTwo
      <4>4. DOMAIN l = DOMAIN view.list /\ l \in [DOMAIN view.list -> Nat]
        BY <4>2, ListsAre
      <4>5. l \in Lists
        BY <4>2, <4>4, ListsAre
      <4> HIDE DEF l, at
      <4>6. /\ view'.list = l /\ view'.at = at /\ view'.scope = view.scope
        BY <1>1, <4>1, <4>2, <4>3, <4>5, ShowsIs
      <4>7. List(view.scope)' = List(view.scope)
        BY <4>1, <4>6 DEF List
      <4>8. ASSUME at = clock PROVE l = List(view.scope)
        <5>1. view.at = clock /\ task.at = clock
          BY <1>1, <4>2, <4>3, <4>8
        <5>2. view.list = List(view.scope) /\ seen[task.id] = mail[task.id]
          BY <1>1, <4>1, <5>1 DEF ListIsSound, TaskIsSound
        <5> QED  BY <1>1, <3>2, <5>2, ReadIsNothingNew DEF l
      <4>9. Of(l, view.scope.profile)
        BY <1>1, <4>4 DEF ListIsSound, Of
      <4> QED  BY <4>1, <4>6, <4>7, <4>8, <4>9 DEF ListIsSound, Of
    <3> QED  BY <3>1, <3>2
  <2>6. CASE MarkRead(i)
    <3>1. view' = view /\ mail' = mail
      BY <2>6 DEF MarkRead
    <3> DEFINE changed == Max({tasks[i].upto - seen[tasks[i].id], 0})
    <3>2. CASE changed > 0
      BY <1>3, <2>6, <3>1, <3>2 DEF MarkRead
    <3>3. CASE ~(changed > 0)
      <4>1. tasks[i].id \in Threads /\ tasks[i].upto \in Nat /\ seen \in [Threads -> Nat]
        BY <1>1, <2>6 DEF MarkRead, TaskIsSound, Task, ViewTypes
      <4>2. tasks[i].upto - seen[tasks[i].id] \in Int
        BY <4>1
      <4>3. changed = 0
        BY <3>3, <4>2, MaxOfTwo
      <4>4. seen' = [seen EXCEPT ![tasks[i].id] = seen[tasks[i].id] + changed] /\ clock' = clock
        BY <2>6, <3>3 DEF MarkRead
      <4>5. seen' = seen
        BY <4>1, <4>3, <4>4
      <4> QED  BY <1>2, <3>1, <4>4, <4>5
    <3> QED  BY <3>2, <3>3
  <2> QED  BY <1>8, <2>1, <2>2, <2>3, <2>4, <2>5, <2>6 DEF Works
<1>9. CASE SetFilter
  <2>1. [view.scope EXCEPT !.unreadOnly = ~@] \in Scopes
    BY <1>1 DEF Scopes, Shown
  <2> QED  BY <1>4, <1>9, <2>1 DEF SetFilter
<1>10. ASSUME NEW p \in Profiles, SetActiveProfile(p) PROVE ListIsSound'
  <2>1. [view.scope EXCEPT !.profile = p] \in Scopes
    BY <1>1 DEF Scopes, Shown
  <2> QED  BY <1>4, <1>10, <2>1 DEF SetActiveProfile
<1>11. CASE Focus \/ Blur \/ \E t \in Threads : Click(t) \/ DeepLink(t)
  BY <1>2, <1>11 DEF Focus, Blur, Click, DeepLink
<1> QED  BY <1>5, <1>6, <1>7, <1>8, <1>9, <1>10, <1>11 DEF ViewNext, Backend, User

-----------------------------------------------------------------------------
(* What is owed.                                                           *)

\* What is on its way stays so as long as what fetches it goes on.
LEMMA StillPending ==
  ASSUME Pending, unsent => unsent', channel # <<>> => channel' # <<>>,
         view'.scope = view.scope, clock' = clock,
         NEW i \in Slots, Others(i), Fetches(tasks[i]) => Fetches(tasks[i])'
  PROVE  Pending'
<1>1. ASSUME NEW j \in Slots, Fetches(tasks[j]) PROVE Fetches(tasks[j])'
  <2>1. CASE j = i
    BY <1>1, <2>1 DEF Fetches, Applies
  <2>2. CASE j # i
    BY <1>1, <2>2 DEF Others, Fetches, Applies
  <2> QED  BY <2>1, <2>2
<1> QED  BY <1>1 DEF Pending

\* What is on its way stays so in a step that leaves the clock and the functions.
LEMMA AllPending ==
  ASSUME Pending, unsent => unsent', channel # <<>> => channel' # <<>>,
         view'.scope = view.scope, clock' = clock, UNCHANGED tasks
  PROVE  Pending'
BY DEF Pending, Fetches, Applies

\* A newer list is not forgotten for an older one.
LEMMA ShownIsKept ==
  ASSUME ViewTypes, NothingForgotten, NEW l \in Lists, NEW at \in Nat, at <= clock,
         view' = Shows(l, at), clock' = clock, Pending => Pending' \/ at = clock
  PROVE  NothingForgotten'
<1>1. view.at \in Nat /\ view.owed \in Nat /\ view.at <= clock /\ view.owed <= clock /\ clock \in Nat
  BY DEF ViewTypes, Shown
<1>2. /\ view'.at = at
      /\ view'.owed = IF at < view.at /\ view.owed < view.at THEN view.at ELSE view.owed
  BY ShowsIs
<1>3. CASE view.at = clock
  <2>1. at = clock \/ (at < view.at /\ (view.owed = clock \/ view.owed < view.at))
    BY <1>1, <1>3
  <2> QED  BY <1>2, <1>3, <2>1 DEF NothingForgotten
<1>4. CASE view.owed = clock
  <2>1. ~(view.owed < view.at)
    BY <1>1, <1>4
  <2> QED  BY <1>2, <1>4, <2>1 DEF NothingForgotten
<1>5. CASE Pending
  BY <1>2, <1>5 DEF NothingForgotten
<1> QED  BY <1>3, <1>4, <1>5 DEF NothingForgotten

\* Every change stays in the list, owed, or on its way.
LEMMA OwedKept ==
  ASSUME ViewInv, ViewTypes', [ViewNext]_viewVars
  PROVE  NothingForgotten'
<1> USE DEF database, stream, bounds, TaskOnly
<1>1. /\ ViewTypes /\ NothingForgotten /\ view.scope \in Scopes
      /\ clock \in Nat \ {0} /\ tasks \in [Slots -> Task] /\ tasks' \in [Slots -> Task]
      /\ \A i \in Slots : tasks[i] \in Task /\ TaskIsSound(tasks[i])
  BY DEF ViewInv, ViewTypes, Shown
<1>2. ASSUME NEW i \in Slots, NEW a, Becomes(i, a) PROVE tasks'[i] = a /\ Others(i)
  BY <1>1, <1>2 DEF Becomes, Others
<1>3. ASSUME UNCHANGED <<view, clock>>, Pending => Pending' PROVE NothingForgotten'
  BY <1>1, <1>3 DEF NothingForgotten
<1>4. ASSUME view' = Owing(view), clock' = clock PROVE NothingForgotten'
  BY <1>1, <1>4, Owes DEF NothingForgotten
<1>5. ASSUME NEW a, Starts(a), UNCHANGED <<unsent, channel, view, clock>> PROVE NothingForgotten'
  <2>1. PICK i \in Slots : tasks[i] = Idle /\ Becomes(i, a)
    BY <1>5, Started
  <2>2. ~Fetches(tasks[i]) /\ Others(i)
    BY <1>2, <2>1 DEF Fetches, Idle
  <2> QED  BY <1>3, <1>5, <2>2, StillPending
<1>6. ASSUME NEW s \in Scopes, Refilter(s) PROVE NothingForgotten'
  <2>1. PICK i \in Slots : tasks'[i] = Listing("page", s)
    BY <1>1, <1>6, Refiltered
  <2>2. Fetches(tasks[i])'
    BY <2>1 DEF Fetches, Applies, Listing, Idle
  <2> QED  BY <2>2 DEF NothingForgotten, Pending
<1>7. CASE UNCHANGED viewVars
  BY <1>3, <1>7, AllPending DEF viewVars
<1>8. ASSUME NEW t \in Threads, Arrive(t) \/ ReadElsewhere(t) PROVE NothingForgotten'
  <2>1. unsent' = TRUE
    BY <1>8, Zenon DEF Arrive, ReadElsewhere
  <2> QED  BY <2>1 DEF NothingForgotten, Pending
<1>9. ASSUME EmitEvent, clock' = clock PROVE NothingForgotten'
  BY <1>1, <1>4, <1>9, Emitted DEF NothingForgotten, Pending
<1>10. CASE EmitUnsent
  BY <1>9, <1>10 DEF EmitUnsent
<1>11. CASE Disconnect
  <2>1. CASE channel # <<>>
    BY <1>4, <1>11, <2>1 DEF Disconnect
  <2>2. CASE channel = <<>>
    BY <1>3, <1>11, <2>2, AllPending DEF Disconnect
  <2> QED  BY <2>1, <2>2
<1>12. CASE Reconnect
  BY <1>3, <1>12, AllPending DEF Reconnect
<1>13. CASE EventArrives
  <2>1. PICK i \in Slots : Becomes(i, Listing("event", view.scope))
    BY <1>13, Started DEF EventArrives
  <2>2. tasks'[i] = Listing("event", view.scope) /\ view' = view
    BY <1>2, <1>13, <2>1 DEF EventArrives
  <2>3. tasks'[i].pc = "list" /\ tasks'[i].kind = "event" /\ tasks'[i].scope = view'.scope
    BY <2>2 DEF Listing, Idle
  <2>4. Fetches(tasks[i])'
    BY <2>3 DEF Fetches, Applies
  <2> QED  BY <2>4 DEF NothingForgotten, Pending
<1>14. ASSUME NEW i \in Slots, Works(i) PROVE NothingForgotten'
  <2>1. CASE AnswerList(i)
    <3>1. /\ tasks'[i] = [tasks[i] EXCEPT !.pc = "listed", !.list = List(tasks[i].scope), !.at = clock]
          /\ Others(i)
      BY <1>2, <2>1 DEF AnswerList
    <3>2. /\ tasks'[i].pc = "listed" /\ tasks'[i].at = clock /\ tasks'[i].scope = tasks[i].scope
          /\ tasks'[i].kind = tasks[i].kind /\ tasks'[i].stale = tasks[i].stale
      BY <1>1, <3>1 DEF Task
    <3>3. tasks[i].pc = "list" /\ UNCHANGED <<unsent, channel, view, clock>>
      BY <2>1 DEF AnswerList
    <3>4. Fetches(tasks[i]) => Fetches(tasks[i])'
      BY <3>2, <3>3 DEF Fetches, Applies
    <3> QED  BY <1>3, <3>1, <3>3, <3>4, StillPending
  <2>2. CASE ListFails(i)
    BY <1>4, <2>2 DEF ListFails
  <2>3. CASE AnswerThread(i) \/ GetFails(i) \/ MarkFails(i) \/ ThreadArrives(i)
    <3>1. /\ tasks[i].pc \in {"get", "got", "mark"} /\ UNCHANGED <<unsent, channel, view, clock>>
          /\ \E a : Becomes(i, a)
      BY <2>3 DEF AnswerThread, GetFails, MarkFails, ThreadArrives
    <3>2. Others(i) /\ ~Fetches(tasks[i])
      BY <1>2, <3>1 DEF Fetches
    <3> QED  BY <1>3, <3>1, <3>2, StillPending
  <2>4. CASE ListArrives(i)
    <3>1. /\ tasks[i].pc = "listed" /\ UNCHANGED <<unsent, channel, clock>> /\ \E a : Becomes(i, a)
      BY <2>4 DEF ListArrives
    <3>2. Others(i)
      BY <1>2, <3>1
    <3>3. CASE ~Applies(tasks[i])
      <4>1. view' = view /\ ~Fetches(tasks[i])
        BY <2>4, <3>1, <3>3 DEF ListArrives, Fetches
      <4> QED  BY <1>3, <3>1, <3>2, <4>1, StillPending
    <3>4. CASE Applies(tasks[i])
      <4>1. view' = Shows(tasks[i].list, tasks[i].at)
        BY <2>4, <3>4 DEF ListArrives
      <4>2. tasks[i].list \in Lists /\ tasks[i].at \in Nat /\ tasks[i].at <= clock
        BY <1>1 DEF Task, TaskIsSound
      <4>3. view'.scope = view.scope
        BY <1>1, <4>1, <4>2, ShowsIs
      <4>4. ASSUME Pending, tasks[i].at # clock PROVE Pending'
        <5>1. ~Fetches(tasks[i])
          BY <3>1, <4>4 DEF Fetches
        <5> QED  BY <3>1, <3>2, <4>3, <4>4, <5>1, StillPending
      <4> QED  BY <1>1, <3>1, <4>1, <4>2, <4>4, ShownIsKept
    <3> QED  BY <3>3, <3>4
  <2>5. CASE MarkThreadRead(i)
    <3> DEFINE l == [view.list EXCEPT ![tasks[i].id] = 0]
               at == Min({view.at, tasks[i].at})
    <3>1. /\ tasks[i].pc = "marked" /\ UNCHANGED <<unsent, channel, clock>> /\ Becomes(i, Idle)
          /\ view' = view \/ view' = Shows(l, at)
      BY <2>5 DEF MarkThreadRead
    <3>2. Others(i) /\ ~Fetches(tasks[i])
      BY <1>2, <3>1 DEF Fetches
    <3>3. CASE view' = view
      BY <1>3, <3>1, <3>2, <3>3, StillPending
    <3>4. CASE view' = Shows(l, at)
      <4>1. /\ view.at \in Nat /\ tasks[i].at \in Nat /\ view.at <= clock /\ tasks[i].at <= clock
            /\ view.list \in Lists
        BY <1>1 DEF ViewTypes, Shown, Task, TaskIsSound
      <4>2. at \in Nat /\ at <= clock
        <5>1. at = IF view.at <= tasks[i].at THEN view.at ELSE tasks[i].at
          BY <4>1, MinOfTwo
        <5> QED  BY <4>1, <5>1
      <4>3. DOMAIN l = DOMAIN view.list /\ l \in [DOMAIN view.list -> Nat]
        BY <4>1, ListsAre
      <4>4. l \in Lists
        BY <4>1, <4>3, ListsAre
      <4> HIDE DEF l, at
      <4>5. view'.scope = view.scope
        BY <1>1, <3>4, <4>2, <4>4, ShowsIs
      <4>6. Pending => Pending'
        BY <3>1, <3>2, <4>5, StillPending
      <4> QED  BY <1>1, <3>1, <3>4, <4>2, <4>4, <4>6, ShownIsKept
    <3> QED  BY <3>1, <3>3, <3>4
  <2>6. CASE MarkRead(i)
    <3> DEFINE task == tasks[i]
               changed == Max({task.upto - seen[task.id], 0})
               place == IF changed > 0 THEN "emit" ELSE "marked"
               at == IF task.upto = mail[task.id] THEN clock' ELSE 0
    <3>1. /\ tasks'[i] = [task EXCEPT !.pc = place, !.at = at] /\ Others(i)
          /\ clock' = IF changed > 0 THEN clock + 1 ELSE clock
          /\ tasks[i].pc = "mark" /\ UNCHANGED <<unsent, channel, view>>
      BY <1>2, <2>6 DEF MarkRead
    <3> HIDE DEF changed, at
    <3>2. CASE changed > 0
      <4>1. tasks'[i].pc = "emit"
        BY <1>1, <3>1, <3>2 DEF Task
      <4> QED  BY <4>1 DEF NothingForgotten, Pending, Fetches
    <3>3. CASE ~(changed > 0)
      BY <1>3, <3>1, <3>3, StillPending DEF Fetches
    <3> QED  BY <3>2, <3>3
  <2>7. CASE EmitMarked(i)
    BY <1>9, <2>7 DEF EmitMarked
  <2> QED  BY <1>14, <2>1, <2>2, <2>3, <2>4, <2>5, <2>6, <2>7 DEF Works
<1>15. CASE SetFilter
  <2>1. [view.scope EXCEPT !.unreadOnly = ~@] \in Scopes
    BY <1>1 DEF Scopes
  <2> QED  BY <1>6, <1>15, <2>1 DEF SetFilter
<1>16. ASSUME NEW p \in Profiles, SetActiveProfile(p) PROVE NothingForgotten'
  <2>1. [view.scope EXCEPT !.profile = p] \in Scopes
    BY <1>1 DEF Scopes
  <2> QED  BY <1>6, <1>16, <2>1 DEF SetActiveProfile
<1>17. ASSUME NEW t \in Threads, Click(t) PROVE NothingForgotten'
  BY <1>5, <1>17 DEF Click
<1>18. ASSUME NEW t \in Threads, DeepLink(t) PROVE NothingForgotten'
  <2>1. UNCHANGED <<unsent, channel, view, clock>>
    BY <1>18 DEF DeepLink
  <2>2. UNCHANGED tasks \/ Starts(Getting("link", t))
    BY <1>18 DEF DeepLink
  <2>3. CASE UNCHANGED tasks
    BY <1>3, <2>1, <2>3, AllPending
  <2> QED  BY <1>5, <2>1, <2>2, <2>3
<1>19. CASE Focus
  <2>1. UNCHANGED <<unsent, channel, view, clock>>
    BY <1>19 DEF Focus
  <2>2. UNCHANGED tasks \/ Starts(Marking("focus", open))
    BY <1>19 DEF Focus
  <2>3. CASE UNCHANGED tasks
    BY <1>3, <2>1, <2>3, AllPending
  <2> QED  BY <1>5, <2>1, <2>2, <2>3
<1>20. CASE Blur
  BY <1>3, <1>20, AllPending DEF Blur
<1> QED  BY <1>7, <1>8, <1>10, <1>11, <1>12, <1>13, <1>14, <1>15, <1>16, <1>17, <1>18, <1>19, <1>20
         DEF ViewNext, Backend, User

-----------------------------------------------------------------------------
(* The theorems on the view.                                               *)

\* The inductive invariant holds of every behaviour.
LEMMA ViewInvariance == ViewSpec => []ViewInv
<1>1. ViewInv /\ [ViewNext]_viewVars => ViewInv'
  <2> SUFFICES ASSUME ViewInv, [ViewNext]_viewVars PROVE ViewInv'
    OBVIOUS
  <2>1. ViewTypes'
    BY ViewTypesKept
  <2>2. \A j \in Slots : TaskIsSound(tasks[j])'
    BY <2>1, TasksKept
  <2>3. OpenIsSound' /\ ReadWasSeen'
    BY <2>1, OpenKept
  <2>4. ListIsSound' /\ NothingForgotten'
    BY <2>1, ListKept, OwedKept
  <2> QED  BY <2>1, <2>2, <2>3, <2>4 DEF ViewInv
<1> QED  BY ViewInitially, <1>1, PTL DEF ViewSpec

\* The state of View keeps its type, the list shown is of the profile that is shown, and a
\* function at work knows what it works on.
THEOREM ViewTypeCorrectness == ViewSpec => []ViewTypeOK
<1>1. ViewInv => ViewTypeOK
  <2> SUFFICES ASSUME ViewInv PROVE ViewTypeOK
    OBVIOUS
  <2>1. view.at \in 0..clock /\ view.owed \in 0..clock
    BY DEF ViewInv, ViewTypes, Shown
  <2>2. ASSUME NEW i \in Slots
        PROVE  /\ tasks[i].kind \in Kinds /\ tasks[i].pc \in Steps
               /\ (tasks[i].pc \in {"list", "listed"}) = (tasks[i].scope # Nowhere)
               /\ (tasks[i].pc \in {"get", "got", "mark", "emit", "marked"}) = (tasks[i].id # None)
    <3>1. tasks[i] \in Task /\ TaskIsSound(tasks[i])
      BY DEF ViewInv, ViewTypes
    <3> QED  BY <3>1 DEF Task, TaskIsSound
  <2>3. \A t \in DOMAIN view.list : ProfileOf[t] = view.scope.profile
    BY DEF ViewInv, ListIsSound, Of
  <2> QED  BY <2>1, <2>2, <2>3 DEF ViewInv, ViewTypes, Shown, Opened, ViewTypeOK
<1> QED  BY ViewInvariance, <1>1, PTL

\* refetch, fetchThreads, markThreadRead: when nothing is under way the list is that of
\* the database for the filter, however the answers were ordered, unless an event was
\* lost, a request failed or an older answer came last.
THEOREM ViewIsCurrentAtRest == ViewSpec => []QuietViewIsCurrent
<1>1. ViewInv => QuietViewIsCurrent
  <2> SUFFICES ASSUME ViewInv, Quiet PROVE view.list = List(view.scope) \/ view.at < view.owed
    BY DEF QuietViewIsCurrent
  <2>1. ~Pending
    <3>1. \A i \in Slots : tasks[i] = Idle
      BY DEF Quiet, Free
    <3> QED  BY <3>1 DEF Quiet, Pending, Fetches, Idle
  <2>2. view.at = clock \/ view.owed = clock
    BY <2>1 DEF ViewInv, NothingForgotten
  <2>3. view.at \in Nat /\ view.at <= clock /\ clock \in Nat
    BY DEF ViewInv, ViewTypes, Shown
  <2>4. CASE view.at = clock
    BY <2>4 DEF ViewInv, ListIsSound
  <2>5. CASE view.at # clock
    BY <2>2, <2>3, <2>5
  <2> QED  BY <2>4, <2>5
<1> QED  BY ViewInvariance, <1>1, PTL

\* Stub.MarkRead is called for no mail that was not before the user, on this device or
\* another, whatever arrives meanwhile and in whatever order the answers come.
THEOREM WhatIsReadWasSeen == ViewSpec => []ReadWasSeen
<1>1. ViewInv => ReadWasSeen
  BY DEF ViewInv
<1> QED  BY ViewInvariance, <1>1, PTL

\* An event handler that has waited for an answer opens no thread but the one that is
\* open: another is opened by a click, a link, or not at all.
THEOREM OpenedByTheUser == ViewSpec => OnlyTheUserOpens
<1> DEFINE A == open'.id # open.id =>
                  \/ open' = Closed \/ lastLink' # lastLink
                  \/ \E i \in Slots : tasks[i].kind = "click" /\ tasks[i].id = open'.id
<1>1. [ViewNext]_viewVars => [A]_viewVars
  <2> SUFFICES ASSUME ViewNext, open' # open PROVE A
    BY DEF viewVars
  <2> USE DEF database, stream, bounds, TaskOnly
  <2>1. Backend \/ Disconnect \/ Reconnect \/ EventArrives => open' = open
    BY Zenon DEF Backend, Arrive, ReadElsewhere, EmitUnsent, Disconnect, Reconnect, EventArrives
  <2>2. ASSUME NEW i \in Slots, Works(i) PROVE A
    <3>1. ~ThreadArrives(i) => open' = open
      BY <2>2 DEF Works, AnswerList, ListFails, ListArrives, AnswerThread, GetFails, MarkRead,
                  MarkFails, EmitMarked, MarkThreadRead
    <3>2. CASE ThreadArrives(i)
      <4>1. StillWanted(tasks[i]) /\ open'.id = tasks[i].id
        BY <3>2 DEF ThreadArrives
      <4> QED  BY <4>1 DEF StillWanted
    <3> QED  BY <3>1, <3>2
  <2>3. CASE User
    BY <2>3 DEF User, SetFilter, SetActiveProfile, Click, DeepLink, Focus, Blur
  <2> QED  BY <2>1, <2>2, <2>3 DEF ViewNext
<1> QED  BY <1>1, PTL DEF ViewSpec, OnlyTheUserOpens
=============================================================================
