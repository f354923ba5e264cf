-------------------------------- MODULE EventBus -------------------------------
(***************************************************************************)
(* events.Emitter as one of its subscribers sees it: a channel of bounded  *)
(* capacity into which Emit sends without waiting. Emit sends to all       *)
(* subscribers under one lock, so that a subscriber receives in the order  *)
(* of the calls of Emit, less what found its channel full.                 *)
(***************************************************************************)
EXTENDS Integers, Sequences

CONSTANTS
  Capacity,  \* of a subscription's channel: 64
  MaxFaults  \* bound: what fails of the subscriber and of those it calls

ASSUME CapacityAssumption == Capacity \in Nat \ {0} /\ MaxFaults \in Nat

VARIABLES
  channel,  \* of the subscription
  faults

\* Something fails.
Fault == faults < MaxFaults /\ faults' = faults + 1

IsFull(queue) == Len(queue) = Capacity

\* Mutant: a queue without a limit.
SendAlways(queue, event) == Append(queue, event)

\* subscription.send: an event that finds the channel full is dropped.
Send(queue, event) == IF IsFull(queue) THEN queue ELSE Append(queue, event)
=============================================================================
