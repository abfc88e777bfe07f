----------------------------- MODULE EventStream -----------------------------
(***************************************************************************)
(* What the reliable websocket promises one client.  The server produces   *)
(* numbered events for the user; the client comes to know an event when it *)
(* is delivered on the stream, or when the client reloads its state.       *)
(* Events arrive in the order produced, each at most once, and an event is *)
(* never delivered while an earlier one is silently missing -- but for the *)
(* events the code leaves out: one produced during a hand-over of the      *)
(* stream from one connection to the next, one that cannot be encoded, a   *)
(* minor one skipped behind a slow writer, and one for which the server    *)
(* could not tell whether the user may have it.                            *)
(***************************************************************************)
EXTENDS Naturals, Sequences

CONSTANT MinorEvents    \* the numbers of the events that may be skipped

VARIABLES
    produced,       \* events produced so far; they are 1 .. produced
    seen,           \* events the client knows of
    delivered,      \* the events delivered on the stream, in that order
    handingOver,    \* the stream is between two connections
    dropped,        \* events produced during a hand-over
    unencodable,    \* events that could not be encoded
    skipped,        \* minor events not queued behind a slow writer
    unchecked       \* events not queued because a check of the user failed

excusedVars == <<dropped, unencodable, skipped, unchecked>>
vars == <<produced, seen, delivered, handingOver, excusedVars>>

\* The newest event delivered.
Latest(events) == IF events = <<>> THEN 0 ELSE events[Len(events)]

Excused == dropped \cup unencodable \cup skipped \cup unchecked

Init ==
    /\ produced = 0 /\ seen = {} /\ delivered = <<>>
    /\ handingOver = FALSE
    /\ dropped = {} /\ unencodable = {} /\ skipped = {} /\ unchecked = {}

Produce ==
    /\ produced' = produced + 1
    /\ dropped' = IF handingOver THEN dropped \cup {produced + 1} ELSE dropped
    /\ \/ UNCHANGED skipped
       \/ produced + 1 \in MinorEvents /\ skipped' = skipped \cup {produced + 1}
    /\ unchecked' \in {unchecked, unchecked \cup {produced + 1}}
    /\ UNCHANGED <<seen, delivered, handingOver, unencodable>>

\* The client is up to date with everything before event n.
Deliver(n) ==
    /\ n \in Latest(delivered) + 1 .. produced
    /\ 1 .. n - 1 \subseteq seen \cup Excused
    /\ seen' = seen \cup {n}
    /\ delivered' = Append(delivered, n)
    /\ UNCHANGED <<produced, handingOver, excusedVars>>

\* The client loads, from the server's store, a state that has events 1 .. n.
Load(n) ==
    /\ n \in 0 .. produced
    /\ seen' = seen \cup 1 .. n
    /\ UNCHANGED <<produced, delivered, handingOver, excusedVars>>

FailToEncode(n) ==
    /\ n \in 1 .. produced
    /\ unencodable' = unencodable \cup {n}
    /\ UNCHANGED <<produced, seen, delivered, handingOver, dropped, skipped, unchecked>>

HandOver ==
    /\ handingOver' = ~ handingOver
    /\ UNCHANGED <<produced, seen, delivered, excusedVars>>

Next ==
    \/ Produce
    \/ \E n \in 1 .. produced : Deliver(n) \/ FailToEncode(n)
    \/ \E n \in 0 .. produced : Load(n)
    \/ HandOver

Spec == Init /\ [][Next]_vars
=============================================================================
