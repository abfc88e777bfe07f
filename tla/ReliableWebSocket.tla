-------------------------- MODULE ReliableWebSocket --------------------------
(***************************************************************************)
(* The reliable event stream end to end: one user's browser client, the    *)
(* network, the connections that serve it, their dead queues, and the hub. *)
(* The hub's and the client's actions are those of WebHub and StreamClient;*)
(* this module adds the sequence numbers, the dead queue and the network   *)
(* to them.  The hub does not stop here.                                   *)
(*                                                                         *)
(* produced, seen, delivered and the four sets of excused events are       *)
(* history variables: they record what EventStream talks about, and no     *)
(* guard reads them.                                                       *)
(***************************************************************************)
EXTENDS Integers, Sequences, FiniteSets

CONSTANTS
    Conns, ConnIds, Channels,
    User, NoConn, NoUser, NoId, NoChannel, Nil,
    sendQueueSize, sendSlowWarn, deadQueueSize,
    MinorEvents,    \* the events that are not queued behind a slow writer
    MaxEvents,      \* bound on the events produced
    MaxFaults       \* bound on the failures that nothing provokes

ASSUME ReliableWebSocketAssumption ==
    /\ sendQueueSize \in Nat \ {0} /\ sendSlowWarn \in 1 .. sendQueueSize
    /\ deadQueueSize \in Nat /\ deadQueueSize >= 2
    /\ MaxEvents \in Nat /\ MaxFaults \in Nat
    /\ NoConn \notin Conns /\ NoUser # User /\ NoId \notin ConnIds
    /\ NoChannel \notin Channels

VARIABLES
    \* the hub and its connections, see WebHub
    byUserId, byConnection, byConnectionId,
    phase, writer, sockOpen, Active, lapsed, UserId, connectionID, send, reuseCount,
    queue, closed,
    \* the write pump's part of a connection
    Sequence,           \* WebConn.Sequence
    deadQueue,          \* WebConn.deadQueue; it travels with the channel, so it
    deadQueuePointer,   \* is kept per channel, and so is its pointer
    \* the client, see StreamClient
    conn, connectionId, serverSequence,
    \* the network
    requests,           \* upgrade requests the server has not handled yet
    linkUp,             \* the client's connection carries data
    net,                \* what is in flight on it, from the server to the client
    faults,             \* unprovoked failures so far
    \* history
    produced, seen, delivered, dropped, unencodable, skipped, unchecked,
    loaded              \* events older than a stream: its hello's client has them

Event(n) == [type |-> "event", n |-> n, minor |-> n \in MinorEvents]

\* A hub that runs, of clients that do not challenge again (~ TRUE, because TLC cannot
\* evaluate FALSE').
Hub == INSTANCE WebHub WITH
    Users <- {User}, Broadcasts <- {Event(n) : n \in 1 .. MaxEvents},
    hub <- "running", toClose <- {}, closing <- {}, rechallenged <- ~ TRUE
Client == INSTANCE StreamClient WITH MaxSequence <- MaxEvents
DQ == INSTANCE DeadQueue

\* An empty slot of the dead queue is not taken for a message.
ASSUME NilAssumption == Nil \notin [seq : Nat, msg : Hub!Messages]

hubVars == <<byUserId, byConnection, byConnectionId, phase, writer, sockOpen, Active,
             lapsed, UserId, connectionID, send, reuseCount, queue, closed>>
streamVars == <<Sequence, deadQueue, deadQueuePointer>>
clientVars == <<conn, connectionId, serverSequence>>
netVars == <<requests, linkUp, net>>
excusedVars == <<dropped, unencodable, skipped, unchecked>>
eventVars == <<produced, seen, delivered, excusedVars, loaded>>
vars == <<hubVars, streamVars, clientVars, netVars, faults, eventVars>>

-----------------------------------------------------------------------------
Init ==
    /\ Hub!Init
    /\ Client!ClientInit
    /\ Sequence = [c \in Conns |-> 0]
    /\ deadQueue = [ch \in Channels |-> DQ!EmptyQueue]
    /\ deadQueuePointer = [ch \in Channels |-> 0]
    /\ requests = {} /\ linkUp = FALSE /\ net = <<>>
    /\ faults = 0
    /\ produced = 0 /\ seen = {} /\ delivered = <<>>
    /\ dropped = {} /\ unencodable = {} /\ skipped = {} /\ unchecked = {}
    /\ loaded = [id \in ConnIds |-> 0]

\* Something fails that need not have failed.
Fault == faults < MaxFaults /\ faults' = faults + 1

\* The client still holds connection c, and the network carries it.
LinkUp(c) == conn = c /\ linkUp

\* A failure on connection c is a fault unless the network has already failed it
\* or the server has closed its end.
FailureOf(c) == IF LinkUp(c) /\ sockOpen[c] THEN Fault ELSE UNCHANGED faults

-----------------------------------------------------------------------------
(* The client and the network *)

\* initialize: connect, naming the stream and the number expected next.
Dial(c) ==
    /\ phase[c] = "free" /\ c \notin {r.conn : r \in requests}
    /\ Client!Initialize(c)
    /\ requests' = requests \cup {[conn |-> c, id |-> connectionId, seq |-> serverSequence]}
    /\ linkUp' = TRUE /\ net' = <<>>
    /\ UNCHANGED <<hubVars, streamVars, faults, eventVars>>

\* The network fails; neither end need notice soon.
Break ==
    /\ linkUp
    /\ Fault
    /\ linkUp' = FALSE /\ net' = <<>>
    /\ UNCHANGED <<hubVars, streamVars, clientVars, requests, eventVars>>

\* The server no longer answers on the client's connection.
Unanswered ==
    /\ conn # NoConn
    /\ conn \notin {r.conn : r \in requests}
    /\ \/ ~ sockOpen[conn]
       \/ phase[conn] \in {"pumping", "readDone"} /\ conn \notin byConnection
    /\ net = <<>>

\* The client's connection closes, or its pings go unanswered for too long.
ClientCloses ==
    /\ Client!OnClose
    /\ IF linkUp /\ ~ Unanswered THEN Fault ELSE UNCHANGED faults
    /\ linkUp' = FALSE /\ net' = <<>>
    /\ UNCHANGED <<hubVars, streamVars, requests, eventVars>>

\* onmessage for a hello: a client that knew another stream reloads its state.
ReceiveHello ==
    /\ net # <<>> /\ Head(net).msg.type = "hello"
    /\ LET m == Head(net)
       IN  /\ Client!OnHello(m.msg.id, m.seq)
           /\ seen' = seen \cup 1 .. (IF Client!IsRestart(m.msg.id) THEN produced
                                      ELSE loaded[m.msg.id])
    /\ UNCHANGED delivered

\* onmessage for an event: it is passed on only if its number is as expected.
ReceiveEvent ==
    /\ net # <<>> /\ Head(net).msg.type = "event"
    /\ LET m == Head(net)
       IN  /\ Client!OnEvent(m.seq)
           /\ IF conn' = conn
              THEN seen' = seen \cup {m.msg.n} /\ delivered' = Append(delivered, m.msg.n)
              ELSE UNCHANGED <<seen, delivered>>

Receive ==
    /\ ReceiveHello \/ ReceiveEvent
    /\ IF conn' = conn THEN net' = Tail(net) /\ UNCHANGED linkUp
                       ELSE net' = <<>> /\ linkUp' = FALSE
    /\ UNCHANGED <<hubVars, streamVars, requests, faults, produced, excusedVars, loaded>>

-----------------------------------------------------------------------------
(* The server's handler of an upgrade request *)

\* Ids that nobody holds, the client and its requests included.
FreshIds == Hub!NewIds \ ({connectionId} \cup {r.id : r \in requests})

\* connectWebSocket with PopulateWebConnConfig and NewWebConn.  A new channel
\* comes with an empty dead queue; a reused one starts at the client's number.
Accept(r) ==
    /\ r \in requests
    /\ requests' = requests \ {r}
    /\ \/ /\ \E id \in FreshIds :
               IF r.id = NoId THEN Hub!ConnectFresh(r.conn, User, id)
                              ELSE Hub!ConnectNotFound(r.conn, User, r.id, id)
          /\ Sequence' = [Sequence EXCEPT ![r.conn] = 0]
          /\ deadQueue' = [deadQueue EXCEPT ![send'[r.conn]] = DQ!EmptyQueue]
          /\ deadQueuePointer' = [deadQueuePointer EXCEPT ![send'[r.conn]] = 0]
       \/ /\ Hub!ConnectReuse(r.conn, User, r.id)
          /\ Sequence' = [Sequence EXCEPT ![r.conn] = r.seq]
          /\ UNCHANGED <<deadQueue, deadQueuePointer>>
    /\ UNCHANGED <<clientVars, linkUp, net, faults, eventVars>>

\* A request that the network lost, or whose client has gone, may never arrive.
LoseRequest(r) ==
    /\ r \in requests /\ ~ LinkUp(r.conn)
    /\ requests' = requests \ {r}
    /\ UNCHANGED <<hubVars, streamVars, clientVars, linkUp, net, faults, eventVars>>

\* A session that has lapsed by then is a failure; its connection gets no hello.
Register(c) ==
    /\ Hub!HandlerRegister(c)
    /\ IF c \in lapsed' THEN Fault ELSE UNCHANGED faults
    /\ loaded' = IF c \notin lapsed' /\ reuseCount[c] = 0
                 THEN [loaded EXCEPT ![connectionID[c]] = produced] ELSE loaded
    /\ UNCHANGED <<streamVars, clientVars, netVars, produced, seen, delivered, excusedVars>>

RegisterFails(c) ==
    /\ Hub!HandlerRegisterFails(c)
    /\ Fault
    /\ UNCHANGED <<streamVars, clientVars, netVars, eventVars>>

Pump(c) ==
    /\ Hub!Pump(c)
    /\ UNCHANGED <<streamVars, clientVars, netVars, faults, eventVars>>

ReadPumpEnds(c) ==
    /\ Hub!ReadPumpEnds(c)
    /\ FailureOf(c)
    /\ UNCHANGED <<streamVars, clientVars, netVars, eventVars>>

SessionLapses(c) ==
    /\ Hub!SessionLapses(c)
    /\ Fault
    /\ UNCHANGED <<streamVars, clientVars, netVars, eventVars>>

Unregister(c) ==
    /\ Hub!Unregister(c)
    /\ UNCHANGED <<streamVars, clientVars, netVars, faults, eventVars>>

-----------------------------------------------------------------------------
(* The write pump *)

\* What is written reaches the network if there still is one.
Write(c, msgs) == net' = IF LinkUp(c) THEN net \o msgs ELSE net

\* A single write: the pump goes on exactly if it succeeded.
WriteOutcome(c, m) ==
    \/ /\ writer'[c] = "loop"
       /\ Write(c, <<m>>)
       /\ UNCHANGED faults
    \/ /\ writer'[c] = "done"
       /\ FailureOf(c)
       /\ UNCHANGED net

InDeadQueue(c) == DQ!isInDeadQueue(deadQueue[send[c]], Sequence[c])

HasMsgLoss(c) == DQ!hasMsgLoss(deadQueue[send[c]], deadQueuePointer[send[c]], Sequence[c])

\* The client has everything written so far, or the stream is new.
StartLossless(c) ==
    /\ writer[c] = "start"
    /\ \/ Sequence[c] = 0
       \/ ~ InDeadQueue(c) /\ ~ HasMsgLoss(c)
    /\ Hub!WriterResumes(c)
    /\ UNCHANGED <<streamVars, clientVars, netVars, faults, eventVars>>

\* The number the client wants is in the dead queue: drainDeadQueue writes from
\* there on, and gives up at the first write that fails.
StartDraining(c) ==
    /\ writer[c] = "start"
    /\ Sequence[c] # 0 /\ InDeadQueue(c)
    /\ LET ch == send[c]
           msgs == DQ!drainDeadQueue(deadQueue[ch], deadQueuePointer[ch],
                                     DQ!IndexInDeadQueue(deadQueue[ch], Sequence[c]))
       IN  \E n \in 0 .. Len(msgs) :
             /\ Sequence' = [Sequence EXCEPT ![c] = @ + n]
             /\ Write(c, SubSeq(msgs, 1, n))
             /\ \/ n = Len(msgs) /\ Hub!WriterResumes(c) /\ UNCHANGED faults
                \/ n < Len(msgs) /\ Hub!WriterStops(c) /\ FailureOf(c)
    /\ UNCHANGED <<deadQueue, deadQueuePointer, clientVars, requests, linkUp, eventVars>>

\* The number is gone: the stream starts over under a new id, with a hello.
StartOver(c) ==
    /\ writer[c] = "start"
    /\ Sequence[c] # 0 /\ ~ InDeadQueue(c) /\ HasMsgLoss(c)
    /\ Hub!WriterRestarts(c)
    /\ connectionID'[c] \in FreshIds
    /\ LET ch == send[c]
           hello == [seq |-> 0, msg |-> Hub!Hello(connectionID'[c])]
       IN  /\ deadQueue' = [deadQueue EXCEPT ![ch] = DQ!addToDeadQueue(DQ!EmptyQueue, 0, hello)]
           /\ deadQueuePointer' = [deadQueuePointer EXCEPT ![ch] = DQ!NextPointer(0)]
           /\ Sequence' = [Sequence EXCEPT ![c] = 1]
           /\ WriteOutcome(c, hello)
    /\ UNCHANGED <<clientVars, requests, linkUp, eventVars>>

\* The next message gets its number, goes into the dead queue, and is written.
Send(c) ==
    /\ Hub!WriterSends(c)
    /\ LET ch == send[c]
           evt == [seq |-> Sequence[c], msg |-> Head(queue[ch])]
       IN  /\ Sequence' = [Sequence EXCEPT ![c] = @ + 1]
           /\ deadQueue' = [deadQueue EXCEPT ![ch] = DQ!addToDeadQueue(@, deadQueuePointer[ch], evt)]
           /\ deadQueuePointer' = [deadQueuePointer EXCEPT ![ch] = DQ!NextPointer(@)]
           /\ WriteOutcome(c, evt)
    /\ UNCHANGED <<clientVars, requests, linkUp, eventVars>>

\* The event does not encode: its number is spent all the same.
EncodeError(c) ==
    /\ Hub!WriterSkips(c)
    /\ Head(queue[send[c]]).type = "event"
    /\ Fault
    /\ Sequence' = [Sequence EXCEPT ![c] = @ + 1]
    /\ unencodable' = unencodable \cup {Head(queue[send[c]]).n}
    /\ UNCHANGED <<deadQueue, deadQueuePointer, clientVars, netVars, produced, seen, delivered, dropped, skipped, unchecked, loaded>>

SeeClosed(c) ==
    /\ Hub!WriterSeesClosed(c)
    /\ UNCHANGED <<streamVars, clientVars, netVars, faults, eventVars>>

\* endWritePump is closed, or a ping cannot be written.
StopWriting(c) ==
    /\ writer[c] = "loop"
    /\ Hub!WriterStops(c)
    /\ FailureOf(c)
    /\ UNCHANGED <<streamVars, clientVars, netVars, eventVars>>

-----------------------------------------------------------------------------
(* The hub *)

\* A stream is between CheckConn and Register.
HandingOver == \E c \in Conns : phase[c] = "built" /\ reuseCount[c] # 0

\* The next event for the user.  What the hub asks about the connections of F
\* cannot be loaded.
Broadcast ==
    /\ produced < MaxEvents
    /\ \E F \in SUBSET Hub!ForUser(User) :
         LET n == produced + 1
             T == Hub!ForUser(User)
         IN  /\ Hub!Broadcast(T, F, Event(n))
             /\ IF F = {} THEN UNCHANGED faults ELSE Fault
             /\ produced' = n
             /\ dropped' = IF HandingOver THEN dropped \cup {n} ELSE dropped
             /\ skipped' = IF \E c \in T \ lapsed : ~ Hub!ShouldSendEvent(c, Event(n))
                           THEN skipped \cup {n} ELSE skipped
             /\ unchecked' = IF F \cup (T \cap lapsed) # {} THEN unchecked \cup {n} ELSE unchecked
    /\ UNCHANGED <<streamVars, clientVars, netVars, seen, delivered, unencodable, loaded>>

Reap(c) ==
    /\ Hub!Reap({c})
    /\ UNCHANGED <<streamVars, clientVars, netVars, faults, eventVars>>

InvalidateUserFails ==
    /\ Hub!InvalidateUserFails(User)
    /\ Fault
    /\ UNCHANGED <<streamVars, clientVars, netVars, eventVars>>

Recover ==
    /\ Hub!Recover
    /\ Fault
    /\ UNCHANGED <<streamVars, clientVars, netVars, eventVars>>

\* A connection nobody uses is forgotten, with the stale entry a change of id
\* leaves behind in byConnectionId, which nothing here reads.
Collect(c) ==
    /\ conn # c
    /\ Hub!Release(c)
    /\ byConnectionId' = [id \in ConnIds |-> IF byConnectionId[id] = c THEN NoConn ELSE byConnectionId[id]]
    /\ Sequence' = [Sequence EXCEPT ![c] = 0]
    /\ UNCHANGED <<deadQueue, deadQueuePointer, clientVars, netVars, faults, eventVars>>

-----------------------------------------------------------------------------
Handler(c) ==
    \/ Register(c) \/ RegisterFails(c) \/ Pump(c)
    \/ ReadPumpEnds(c) \/ SessionLapses(c) \/ Unregister(c)

Writer(c) ==
    \/ StartLossless(c) \/ StartDraining(c) \/ StartOver(c)
    \/ Send(c) \/ EncodeError(c) \/ SeeClosed(c) \/ StopWriting(c)

Next ==
    \/ \E c \in Conns : Dial(c) \/ Handler(c) \/ Writer(c) \/ Reap(c) \/ Collect(c)
    \/ \E r \in requests : Accept(r) \/ LoseRequest(r)
    \/ Break \/ ClientCloses \/ Receive
    \/ Broadcast \/ InvalidateUserFails \/ Recover

Spec == Init /\ [][Next]_vars

\* Goroutines and timers that have something to do get to do it.
Fairness ==
    /\ WF_vars(\E c \in Conns : Dial(c))                   \* reconnectTimeout
    /\ WF_vars(Receive)
    /\ WF_vars((~ linkUp \/ Unanswered) /\ ClientCloses)   \* onclose, or pingInterval
    /\ WF_vars(\E r \in requests : Accept(r))
    /\ \A c \in Conns :
         /\ WF_vars(Register(c)) /\ WF_vars(Pump(c))
         /\ WF_vars((~ sockOpen[c] \/ ~ LinkUp(c)) /\ ReadPumpEnds(c))  \* pongWaitTime
         /\ WF_vars(StartLossless(c) \/ StartDraining(c) \/ StartOver(c))
         /\ WF_vars(Send(c)) /\ WF_vars(SeeClosed(c))
         /\ WF_vars(phase[c] = "readDone" /\ StopWriting(c))
         /\ WF_vars(Unregister(c))
         /\ WF_vars(Reap(c))                              \* the hub's ticker
         /\ WF_vars(Collect(c))

FairSpec == Spec /\ Fairness
-----------------------------------------------------------------------------
\* The promise of the stream, to which this module is related.
Abstract == INSTANCE EventStream WITH handingOver <- HandingOver

\* Every event older than the newest one delivered is known to the client, but
\* for those excused: the stream has no other silent gap, whatever failed on the
\* way (web_conn.go:522-554, websocket.ts:365-418).
NoSilentGap == 1 .. Abstract!Latest(delivered) \subseteq seen \cup Abstract!Excused

\* The promise as EventStream states it: in order, at most once, no silent gap but
\* for the events excused.
ImplementsEventStream == Abstract!Spec

\* What the comment at hasMsgLoss promises without exception: no event produced
\* for the stream goes missing when it passes from one connection to the next.
NothingLostInHandOver ==
    1 .. Abstract!Latest(delivered) \subseteq seen \cup unencodable \cup skipped \cup unchecked

\* Whatever fails on the way, as long as failures end, the client comes to know
\* every event but the excused ones -- unless its connection has lost its session,
\* in which case it stays connected and is told nothing (web_hub.go:545-583,
\* web_conn.go:776-800, websocket.ts:223-268).
EventuallyKnown ==
    \A n \in 1 .. MaxEvents :
        (produced >= n) ~> (n \in seen \cup Abstract!Excused \/ conn \in lapsed)
=============================================================================
