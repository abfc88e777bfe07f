--------------------------- MODULE PostEventDebounce ---------------------------
(***************************************************************************)
(* How the browser takes bursts of posted events (debouncePostEvent of     *)
(* actions/websocket_actions.jsx): the first ones are applied at once, the *)
(* following are queued until no event has come for a while and are then   *)
(* applied together; a queue that gets too long is thrown away.            *)
(*                                                                         *)
(* Events are numbered as they are received.  The names differ from those  *)
(* of PostCreation, so that one module can prove things about both.        *)
(***************************************************************************)
EXTENDS Integers, Sequences

CONSTANTS
    Limit,          \* 4: the last count with which events go to the queue is above
    QueueLimit,     \* 200
    Wait,           \* 100 ms, in ticks
    MaxEvents,      \* bound: events received
    NoTimeout

DebounceAssumption ==
    /\ Limit \in Nat /\ QueueLimit \in Nat \ {0} /\ Wait \in Nat \ {0}
    /\ MaxEvents \in Nat
    /\ NoTimeout \notin Nat

VARIABLES
    timeout,     \* the time left of the timer
    queue,
    count,
    received,    \* how many events were received
    handled,     \* the events that were applied or given up, in that order
    lost         \* those of them that were given up

debounceVars == <<timeout, queue, count, received, handled, lost>>

DebounceInit ==
    /\ timeout = NoTimeout
    /\ queue = <<>>
    /\ count = 0
    /\ received = 0
    /\ handled = <<>>
    /\ lost = {}

Queueing == timeout # NoTimeout /\ count > Limit

Events(s) == {s[i] : i \in DOMAIN s}

Receive ==
    /\ received < MaxEvents
    /\ received' = received + 1
    /\ timeout' = Wait

ApplyAtOnce ==
    /\ ~ Queueing
    /\ Receive
    /\ count' = count + 1
    /\ handled' = Append(handled, received')
    /\ UNCHANGED <<queue, lost>>

Enqueue ==
    /\ Queueing
    /\ Receive
    /\ Len(queue) < QueueLimit
    /\ queue' = Append(queue, received')
    /\ UNCHANGED <<count, handled, lost>>

\* The event that makes the queue too long is given up with all the others.
GiveUp ==
    /\ Queueing
    /\ Receive
    /\ Len(queue) >= QueueLimit
    /\ handled' = handled \o Append(queue, received')
    /\ lost' = lost \cup Events(Append(queue, received'))
    /\ queue' = <<>>
    /\ UNCHANGED count

\* The timer: triggered.
triggered ==
    /\ timeout = 0
    /\ timeout' = NoTimeout
    /\ handled' = handled \o queue
    /\ queue' = <<>>
    /\ count' = 0
    /\ UNCHANGED <<received, lost>>

Tick ==
    /\ timeout # NoTimeout /\ timeout > 0
    /\ timeout' = timeout - 1
    /\ UNCHANGED <<queue, count, received, handled, lost>>

DebounceNext == ApplyAtOnce \/ Enqueue \/ GiveUp \/ triggered \/ Tick

DebounceSpec == DebounceInit /\ [][DebounceNext]_debounceVars

-----------------------------------------------------------------------------
(* Properties.                                                             *)

\* Type invariant of the closure's variables.
DebounceTypeOK ==
    /\ timeout \in 0..Wait \cup {NoTimeout}
    /\ queue \in Seq(1..received) /\ Len(queue) <= QueueLimit
    /\ count \in Nat
    /\ received \in Nat
    /\ handled \in Seq(1..received)
    /\ lost \subseteq 1..received

\* Whatever the timing, an event that is applied at once does not overtake queued
\* ones, and none is applied twice or forgotten: what was handled and then what is
\* queued are the received events in their order.
InOrder ==
    /\ Len(handled) + Len(queue) = received
    /\ \A i \in 1..received : (handled \o queue)[i] = i

\* Events are only given up many at a time, when more than QueueLimit of them came
\* without a pause.
LostTogether ==
    \A e \in lost : \E first \in 1..received :
       /\ e \in first..(first + QueueLimit)
       /\ first..(first + QueueLimit) \subseteq lost

=============================================================================
