---------------------------- MODULE DeadQueueLog ----------------------------
(***************************************************************************)
(* The dead queue as the write pump uses it, next to a history variable:   *)
(* the log of every event written since the queue was last cleared.  The   *)
(* reference definitions below say, in terms of the log alone, what a      *)
(* reconnecting client is owed; the invariants say that the circular       *)
(* buffer answers the same.                                                *)
(***************************************************************************)
EXTENDS DeadQueue, Sequences

CONSTANT MaxNumber      \* bound on the sequence numbers explored by TLC

VARIABLES
    deadQueue,          \* wc.deadQueue
    deadQueuePointer,   \* wc.deadQueuePointer
    Sequence,           \* wc.Sequence, the number of the next event
    log                 \* history: the events written since the last clear

logVars == <<deadQueue, deadQueuePointer, Sequence, log>>

Event == [seq : Nat]

ASSUME NilAssumption == Nil \notin Event

LogInit ==
    /\ deadQueue = EmptyQueue
    /\ deadQueuePointer = 0
    /\ Sequence = 0
    /\ log = <<>>

\* The write pump numbers an event, stores it and writes it.
Write ==
    /\ Sequence < MaxNumber
    /\ LET evt == [seq |-> Sequence]
       IN  /\ deadQueue' = addToDeadQueue(deadQueue, deadQueuePointer, evt)
           /\ log' = Append(log, evt)
    /\ deadQueuePointer' = NextPointer(deadQueuePointer)
    /\ Sequence' = Sequence + 1

\* The event does not encode: the number is spent, nothing is stored.
EncodeError ==
    /\ Sequence < MaxNumber
    /\ Sequence' = Sequence + 1
    /\ UNCHANGED <<deadQueue, deadQueuePointer, log>>

\* The client is too far behind: clearDeadQueue, and the numbers start over.
Clear ==
    /\ log # <<>>
    /\ deadQueue' = EmptyQueue
    /\ deadQueuePointer' = 0
    /\ Sequence' = 0
    /\ log' = <<>>

LogNext == Write \/ EncodeError \/ Clear

LogSpec == LogInit /\ [][LogNext]_logVars

-----------------------------------------------------------------------------
(* Reference definitions over the log. *)

\* The position in the log of the oldest event the buffer still holds.
OldestKept == IF Len(log) <= deadQueueSize THEN 1 ELSE Len(log) - deadQueueSize + 1

\* What is left to send to a client whose next wanted event is log[p].
Rest(p) == [i \in 1 .. Len(log) - p + 1 |-> log[p + i - 1]]

-----------------------------------------------------------------------------
LogTypeOK ==
    /\ deadQueue \in [Slot -> Event \cup {Nil}]
    /\ deadQueuePointer \in Slot
    /\ Sequence \in Nat
    /\ log \in Seq(Event)

\* Numbers in the log grow strictly and stay below the next number.
LogIncreasing ==
    /\ \A p \in 1 .. Len(log) : log[p].seq < Sequence
    /\ \A p, q \in 1 .. Len(log) : p < q => log[p].seq < log[q].seq

\* Where each event of the log sits in the buffer: before the first roll-over
\* slot i holds log[i+1]; afterwards the slots below the pointer hold the
\* newest events and the slots from the pointer on the older ones.
RingMatchesLog ==
    \/ /\ Len(log) < deadQueueSize
       /\ deadQueuePointer = Len(log)
       /\ \A i \in Slot : deadQueue[i] = IF i < Len(log) THEN log[i + 1] ELSE Nil
    \/ /\ Len(log) >= deadQueueSize
       /\ \A i \in Slot :
            deadQueue[i] = IF i < deadQueuePointer
                           THEN log[Len(log) - deadQueuePointer + i + 1]
                           ELSE log[Len(log) - deadQueuePointer - deadQueueSize + i + 1]

\* isInDeadQueue (web_conn.go:702) finds a number exactly when one of the last
\* deadQueueSize events written carries it: none is missed after a roll-over,
\* and no overwritten event is reported.
FindsExactlyTheKept ==
    \A seq \in 0 .. Sequence :
        isInDeadQueue(deadQueue, seq) <=> \E p \in OldestKept .. Len(log) : log[p].seq = seq

\* drainDeadQueue (web_conn.go:731) writes from the wanted event to the newest
\* one, every event once and in order, wherever the pointer stands.
DrainsTheRest ==
    \A p \in OldestKept .. Len(log) :
        LET index == IndexInDeadQueue(deadQueue, log[p].seq)
        IN  drainDeadQueue(deadQueue, deadQueuePointer, index) = Rest(p)

\* hasMsgLoss (web_conn.go:664) may answer "no" to a number the buffer does not
\* hold only when the client has everything: no written event has that number
\* or a later one.
LosslessMeansUpToDate ==
    \A seq \in 0 .. Sequence :
        /\ ~ isInDeadQueue(deadQueue, seq)
        /\ ~ hasMsgLoss(deadQueue, deadQueuePointer, seq)
        => \A p \in 1 .. Len(log) : log[p].seq < seq
=============================================================================
