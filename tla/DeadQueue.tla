------------------------------ MODULE DeadQueue ------------------------------
(***************************************************************************)
(* The dead queue of a WebConn (server/channels/app/platform/web_conn.go): *)
(* a circular buffer with the events most recently written to the socket,  *)
(* from which a reconnecting client is served what the network lost.       *)
(* The buffer is a function on 0 .. deadQueueSize-1; an event is a record   *)
(* with a field seq, the sequence number it was written with.               *)
(***************************************************************************)
EXTENDS Integers, FiniteSets

CONSTANTS
    deadQueueSize,  \* number of slots (128 in the code)
    Nil             \* an empty slot

\* With one slot the loop of drainDeadQueue would never see a smaller number.
ASSUME DeadQueueSizeAssumption == deadQueueSize \in Nat /\ deadQueueSize >= 2

Slot == 0 .. deadQueueSize - 1

\* make([]*model.WebSocketEvent, deadQueueSize), and what clearDeadQueue leaves.
EmptyQueue == [i \in Slot |-> Nil]

-----------------------------------------------------------------------------
\* addToDeadQueue: the event goes into the slot under the pointer ...
addToDeadQueue(queue, pointer, msg) == [queue EXCEPT ![pointer] = msg]

\* ... and the pointer moves on, round the buffer.
NextPointer(pointer) == (pointer + 1) % deadQueueSize

\* _isInDeadQueue scans from slot 0, gives up at the first empty slot, and
\* reports the first slot that holds the sequence number.
IsSlotOf(queue, seq, i) ==
    /\ \A j \in 0 .. i : queue[j] # Nil
    /\ queue[i].seq = seq
    /\ \A j \in 0 .. i - 1 : queue[j].seq # seq

\* Seeded bug: the scan misses the last slot.
BugIsInDeadQueue(queue, seq) == \E i \in 0 .. deadQueueSize - 2 : IsSlotOf(queue, seq, i)

isInDeadQueue(queue, seq) == \E i \in Slot : IsSlotOf(queue, seq, i)

IndexInDeadQueue(queue, seq) == CHOOSE i \in Slot : IsSlotOf(queue, seq, i)

\* The slot written last; only meaningful once something was written.
LastSlot(pointer) == IF pointer = 0 THEN deadQueueSize - 1 ELSE pointer - 1

\* Seeded bug: only a client ahead of the buffer counts as behind.
BugHasMsgLoss(queue, pointer, seq) ==
    /\ ~ (pointer = 0 /\ queue[0] = Nil)
    /\ queue[LastSlot(pointer)].seq < seq - 1

\* _hasMsgLoss: the sequence number wanted next is not the one that follows
\* the event written last.  Nothing written counts as no loss.
hasMsgLoss(queue, pointer, seq) ==
    /\ ~ (pointer = 0 /\ queue[0] = Nil)
    /\ queue[LastSlot(pointer)].seq # seq - 1

\* Seeded bug: the scan stops at the end of the buffer.
BugRolledOverLength(queue, index) == deadQueueSize - index

\* drainDeadQueue on a buffer that has rolled over writes slots from index on
\* and stops before the first sequence number smaller than its predecessor.
RolledOverLength(queue, index) ==
    CHOOSE n \in 1 .. deadQueueSize :
        /\ queue[(index + n - 1) % deadQueueSize].seq > queue[(index + n) % deadQueueSize].seq
        /\ \A m \in 1 .. n - 1 :
             queue[(index + m - 1) % deadQueueSize].seq <= queue[(index + m) % deadQueueSize].seq

DrainLength(queue, pointer, index) ==
    IF queue[0] = Nil THEN 0
    ELSE IF queue[pointer] = Nil THEN pointer - index
    ELSE RolledOverLength(queue, index)

\* The events drainDeadQueue writes, in order.
drainDeadQueue(queue, pointer, index) ==
    [i \in 1 .. DrainLength(queue, pointer, index) |-> queue[(index + i - 1) % deadQueueSize]]
=============================================================================
