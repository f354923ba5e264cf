---------------------------------- MODULE Badge --------------------------------
(***************************************************************************)
(* The badge of the tray: the number of unread messages, refreshed upon    *)
(* each event, by a ticker, and once at the start. The emitter drops the   *)
(* events that find the tray's channel full, some changes have none, reads *)
(* fail, drawing panics, and refreshes overtake one another.               *)
(*                                                                         *)
(* All messages lie in inboxes of one profile.                             *)
(***************************************************************************)
EXTENDS EventBus, FiniteSets

CONSTANTS
  Messages,
  MaxSilent  \* bound: changes of which there is no event

ASSUME BadgeAssumption == IsFiniteSet(Messages) /\ MaxSilent \in Nat

VARIABLES
  stored, unread,  \* messages in the database, and those of them without \Seen
  muted,     \* profiles.muted
  outbox,    \* what the writer and the API have still to emit of what they changed
  refresh,   \* refreshUnread on each goroutine that calls it, with the total read
  badge,     \* the number shown
  behind,    \* history: the badge may be outdated, and no event will tell
  silents

mailbox == <<stored, unread, muted, outbox, silents>>
badgeVars == <<mailbox, channel, refresh, badge, behind, faults>>

\* The goroutines that refresh the badge.
Consumer == "consumer"
Ticker == "ticker"
Prime == "prime"
Refreshers == {Consumer, Ticker, Prime}

\* TotalUnreadExcludingMuted.
Total == IF muted THEN 0 ELSE Cardinality(unread)

At(pc) == [pc |-> pc, total |-> 0, dated |-> FALSE]
Rest(r) == At(IF r = Prime THEN "off" ELSE "idle")

\* Types; the channel keeps to its capacity, and no more is shown than is stored.
BadgeTypeOK ==
  /\ unread \subseteq stored /\ stored \subseteq Messages /\ muted \in BOOLEAN
  /\ \A p \in {"writer", "api"} : outbox[p] \in Seq({"changed", "arrived"}) /\ Len(outbox[p]) <= 2
  /\ channel \in Seq({"changed", "arrived"}) /\ Len(channel) <= Capacity
  /\ \A r \in Refreshers : /\ refresh[r].pc \in {"idle", "read", "show", "off"}
                           /\ refresh[r].total \in 0..Cardinality(Messages)
                           /\ refresh[r].dated \in BOOLEAN
  /\ badge \in 0..Cardinality(stored)
  /\ behind \in BOOLEAN
  /\ silents \in 0..MaxSilent /\ faults \in 0..MaxFaults

\* NewController subscribes, and starts the three.
BadgeInit ==
  /\ stored = {} /\ unread = {} /\ muted = FALSE
  /\ outbox = [p \in {"writer", "api"} |-> <<>>] /\ channel = <<>>
  /\ refresh = [r \in Refreshers |-> At(IF r = Prime THEN "read" ELSE "idle")]
  /\ badge = 0 /\ behind = FALSE
  /\ silents = 0 /\ faults = 0

-----------------------------------------------------------------------------
(* The database, and what is emitted of it.                                *)

\* The writer commits a message; for one that is new to the user there is an event more.
Store(m) ==
  /\ outbox["writer"] = <<>> /\ m \notin stored
  /\ stored' = stored \cup {m} /\ unread' = unread \cup {m}
  /\ \E more \in {<<>>, <<"arrived">>} :
       outbox' = [outbox EXCEPT !["writer"] = <<"changed">> \o more]
  /\ UNCHANGED <<muted, silents, channel, refresh, badge, behind, faults>>

\* Stub.MarkRead and its like, and the sweeps.
ReadMessage(m) ==
  /\ outbox["api"] = <<>> /\ m \in unread
  /\ unread' = unread \ {m}
  /\ outbox' = [outbox EXCEPT !["api"] = <<"changed">>]
  /\ UNCHANGED <<stored, muted, silents, channel, refresh, badge, behind, faults>>

\* Whoever has read a total and not shown it: it is dated by now.
Dated(r) == [refresh[r] EXCEPT !.dated = refresh[r].pc = "show"]

\* SetProfileMuted, and the deletions.
ChangeSilently ==
  /\ silents < MaxSilent /\ silents' = silents + 1
  /\ \/ muted' = ~muted /\ UNCHANGED unread
     \/ unread # {} /\ unread' = {} /\ UNCHANGED muted
  /\ behind' = TRUE
  /\ refresh' = [r \in Refreshers |-> Dated(r)]
  /\ UNCHANGED <<stored, outbox, channel, badge, faults>>

Emit(p) ==
  /\ outbox[p] # <<>>
  /\ channel' = Send(channel, Head(outbox[p]))
  /\ outbox' = [outbox EXCEPT ![p] = Tail(@)]
  /\ UNCHANGED <<stored, unread, muted, silents, refresh, badge, behind, faults>>

-----------------------------------------------------------------------------
(* The refreshes.                                                          *)

\* Mutant: only new mail refreshes the badge.
RefreshOnArrival(event) == event = "arrived"

\* Every event does.
Refreshes(event) == TRUE

\* dispatchEvent.
DispatchEvent ==
  /\ refresh[Consumer].pc = "idle" /\ channel # <<>>
  /\ channel' = Tail(channel)
  /\ refresh' = IF Refreshes(Head(channel)) THEN [refresh EXCEPT ![Consumer] = At("read")]
                ELSE refresh
  /\ UNCHANGED <<mailbox, badge, behind, faults>>

\* tickRefresh.
Tick ==
  /\ refresh[Ticker].pc = "idle"
  /\ refresh' = [refresh EXCEPT ![Ticker] = At("read")]
  /\ UNCHANGED <<mailbox, channel, badge, behind, faults>>

\* Mutant: the ticker draws what is shown once more.
RepaintOnTick(r) ==
  /\ refresh[r].pc = "read"
  /\ refresh' = [refresh EXCEPT
       ![r] = [pc |-> "show", total |-> IF r = Ticker THEN badge ELSE Total, dated |-> FALSE]]
  /\ UNCHANGED <<mailbox, channel, badge, behind, faults>>

\* refreshUnread: the total is read,
ReadTotal(r) ==
  /\ refresh[r].pc = "read"
  /\ refresh' = [refresh EXCEPT ![r] = [pc |-> "show", total |-> Total, dated |-> FALSE]]
  /\ UNCHANGED <<mailbox, channel, badge, behind, faults>>

Leaves(r, next) == refresh' = [q \in Refreshers |-> IF q = r THEN next ELSE Dated(q)]

\* and then shown, after whatever another goroutine has read and shown meanwhile.
SetIcon(r) ==
  /\ refresh[r].pc = "show"
  /\ badge' = refresh[r].total
  /\ behind' = refresh[r].dated
  /\ Leaves(r, Rest(r))
  /\ UNCHANGED <<mailbox, channel, faults>>

\* The read fails.
RefreshFails(r) ==
  /\ Fault
  /\ refresh[r].pc = "read"
  /\ Leaves(r, Rest(r))
  /\ behind' = TRUE
  /\ UNCHANGED <<mailbox, channel, badge>>

\* dispatchEvent recovers; tickRefresh does, but does not go on.
AfterPanic(r) == IF r = Consumer THEN At("idle") ELSE At("off")

\* SetIcon or RenderBadge panics, outside the start's goroutine, where the program ends.
Panic(r) ==
  /\ Fault
  /\ r # Prime /\ refresh[r].pc = "show"
  /\ Leaves(r, AfterPanic(r))
  /\ behind' = TRUE
  /\ UNCHANGED <<mailbox, channel, badge>>

-----------------------------------------------------------------------------
BadgeNext ==
  \/ \E m \in Messages : Store(m) \/ ReadMessage(m)
  \/ ChangeSilently
  \/ \E p \in {"writer", "api"} : Emit(p)
  \/ DispatchEvent \/ Tick
  \/ \E r \in Refreshers : ReadTotal(r) \/ SetIcon(r) \/ RefreshFails(r) \/ Panic(r)

BadgeSpec == BadgeInit /\ [][BadgeNext]_badgeVars

\* The goroutines go on, and the reads of the database return.
BadgeFairSpec ==
  /\ BadgeSpec
  /\ \A p \in {"writer", "api"} : WF_badgeVars(Emit(p))
  /\ WF_badgeVars(DispatchEvent) /\ WF_badgeVars(Tick)
  /\ \A r \in Refreshers : /\ WF_badgeVars(ReadTotal(r) \/ RefreshFails(r))
                           /\ WF_badgeVars(SetIcon(r) \/ Panic(r))

-----------------------------------------------------------------------------
(* Properties.                                                             *)

\* When no event is under way the badge shows the unread total, however many events
\* the full channel has dropped: for those before them in it the database is read
\* later. It may not if a change had no event, a refresh failed, or two refreshes
\* overtook one another.
QuietBadgeIsRight ==
  /\ \A p \in {"writer", "api"} : outbox[p] = <<>>
  /\ channel = <<>> /\ refresh[Consumer].pc = "idle" /\ refresh[Prime].pc = "off"
  => badge = Total \/ behind

\* The backstop: once the database is left alone the events are consumed and the badge
\* comes to show the total for good, whatever was dropped, failed or panicked, except
\* within the ticker itself.
BadgeConverges ==
  <>[](channel = <<>> /\ (badge = Total \/ refresh[Ticker].pc = "off"))
=============================================================================
