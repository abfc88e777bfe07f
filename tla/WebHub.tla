------------------------------- MODULE WebHub -------------------------------
(***************************************************************************)
(* One hub of the server (server/channels/app/platform/web_hub.go), its    *)
(* index of connections, and the goroutines that serve each connection     *)
(* (api4/websocket.go, web_conn.go): the HTTP handler that becomes the read *)
(* pump, and the write pump.                                               *)
(*                                                                         *)
(* The hub is one goroutine that handles one message at a time, so each of *)
(* its cases is one action.  A send channel is an object of its own,       *)
(* because a reconnecting client's new WebConn takes over the channel of   *)
(* the old one.                                                            *)
(***************************************************************************)
EXTENDS Naturals, Sequences, FiniteSets

CONSTANTS
    Conns,          \* the WebConn objects that may exist at once
    Users,          \* user ids handled by this hub
    ConnIds,        \* connection ids; model.NewId() picks one nobody uses
    Channels,       \* the Go channels that may exist at once
    Broadcasts,     \* the events that may be published, minor ones and others
    NoConn, NoUser, NoId, NoChannel,
    sendQueueSize,  \* capacity of a send channel (256 in the code)
    sendSlowWarn    \* length from which minor events are dropped (128)

ASSUME HubAssumption ==
    /\ sendQueueSize \in Nat \ {0}
    /\ sendSlowWarn \in 1 .. sendQueueSize
    /\ \A e \in Broadcasts : e.minor \in BOOLEAN
    /\ NoConn \notin Conns
    /\ NoUser \notin Users
    /\ NoId \notin ConnIds
    /\ NoChannel \notin Channels

VARIABLES
    hub,            \* state of the hub goroutine and of the channel h.stop
    toClose,        \* the connections the stop case still has to close
    closing,        \* the one it is waiting for, in a set of its own
    byUserId,       \* hubConnectionIndex.byUserId
    byConnection,   \* the key set of hubConnectionIndex.byConnection
    byConnectionId, \* hubConnectionIndex.byConnectionId
    phase,          \* how far the handler goroutine of a connection is
    writer,         \* how far its write pump is
    sockOpen,       \* the server's end of its socket has not been closed
    Active,         \* WebConn.Active
    lapsed,         \* connections whose token IsBasicAuthenticated has cleared
    UserId,         \* WebConn.UserId; NoUser until authenticated
    connectionID,   \* WebConn.connectionID
    send,           \* WebConn.send, the channel
    reuseCount,     \* WebConn.reuseCount, only compared with 0: capped at 1
    queue,          \* the messages buffered in a channel
    closed,         \* the channels that have been closed
    rechallenged    \* history: such a connection has been challenged again

hubVars == <<hub, toClose, closing, rechallenged>>
indexVars == <<byUserId, byConnection, byConnectionId>>
pumpVars == <<phase, writer, sockOpen>>
identVars == <<UserId, connectionID, send, reuseCount, lapsed>>
chanVars == <<queue, closed>>
vars == <<hubVars, indexVars, pumpVars, Active, identVars, chanVars>>

-----------------------------------------------------------------------------
(* Messages in a send channel. *)

Hello(id) == [type |-> "hello", id |-> id]
Response == [type |-> "response"]
Messages == {Hello(id) : id \in ConnIds} \cup {Response} \cup Broadcasts

TypeOK ==
    /\ hub \in {"running", "stopRequested", "stopping", "stopped", "blocked", "panicked"}
    /\ toClose \in SUBSET Conns
    /\ closing \in {{}} \cup {{c} : c \in Conns}
    /\ byUserId \in [Users -> SUBSET Conns]
    /\ byConnection \in SUBSET Conns
    /\ byConnectionId \in [ConnIds -> Conns \cup {NoConn}]
    /\ phase \in [Conns -> {"free", "built", "registered", "pumping", "readDone", "finished"}]
    /\ writer \in [Conns -> {"idle", "start", "loop", "done"}]
    /\ sockOpen \in [Conns -> BOOLEAN]
    /\ Active \in [Conns -> BOOLEAN]
    /\ UserId \in [Conns -> Users \cup {NoUser}]
    /\ connectionID \in [Conns -> ConnIds \cup {NoId}]
    /\ send \in [Conns -> Channels \cup {NoChannel}]
    /\ reuseCount \in [Conns -> {0, 1}]
    /\ queue \in [Channels -> Seq(Messages)]
    /\ closed \in SUBSET Channels
    /\ lapsed \in SUBSET Conns
    /\ rechallenged \in BOOLEAN

-----------------------------------------------------------------------------
(* Allocation.  Objects the program no longer refers to may be used again. *)

\* ids held by a live connection, by the index, or by a queued hello
UsedIds ==
    {connectionID[c] : c \in {d \in Conns : phase[d] # "free"}}
    \cup {id \in ConnIds : byConnectionId[id] # NoConn}

NewIds == ConnIds \ UsedIds

NewChannels == Channels \ {send[c] : c \in {d \in Conns : phase[d] # "free"}}

-----------------------------------------------------------------------------
(* hubConnectionIndex *)

IndexAdd(c, u, id) ==
    /\ byUserId' = [byUserId EXCEPT ![u] = @ \cup {c}]
    /\ byConnection' = byConnection \cup {c}
    /\ byConnectionId' = [byConnectionId EXCEPT ![id] = c]

\* Remove deletes the entry under the id the connection has now.
IndexRemove(S) ==
    LET R == S \cap byConnection
    IN  /\ byUserId' = [u \in Users |-> byUserId[u] \ {c \in R : UserId[c] = u}]
        /\ byConnection' = byConnection \ R
        /\ byConnectionId' = [id \in ConnIds |->
              IF \E c \in R : connectionID[c] = id THEN NoConn ELSE byConnectionId[id]]

ForUser(u) == byUserId[u]
ForConnection(id) == byConnectionId[id]

\* Seeded bug: a connection still in use is handed over as well.
BugInactive(u, id) == {c \in ForUser(u) : connectionID[c] = id}

\* The connections RemoveInactiveByConnectionID may pick.
Inactive(u, id) == {c \in ForUser(u) : connectionID[c] = id /\ ~ Active[c]}

-----------------------------------------------------------------------------
Init ==
    /\ hub = "running" /\ toClose = {} /\ closing = {}
    /\ byUserId = [u \in Users |-> {}]
    /\ byConnection = {}
    /\ byConnectionId = [id \in ConnIds |-> NoConn]
    /\ phase = [c \in Conns |-> "free"]
    /\ writer = [c \in Conns |-> "idle"]
    /\ sockOpen = [c \in Conns |-> FALSE]
    /\ Active = [c \in Conns |-> FALSE]
    /\ UserId = [c \in Conns |-> NoUser]
    /\ connectionID = [c \in Conns |-> NoId]
    /\ send = [c \in Conns |-> NoChannel]
    /\ reuseCount = [c \in Conns |-> 0]
    /\ queue = [ch \in Channels |-> <<>>]
    /\ closed = {}
    /\ lapsed = {} /\ rechallenged = FALSE

HubRunning == hub \in {"running", "stopRequested"}
StopClosed == hub \in {"stopRequested", "stopping", "stopped"}

-----------------------------------------------------------------------------
(* The handler goroutine: connectWebSocket *)
\* NewWebConn: a connection around the given channel.
Build(c, u, id, ch, active, reuse) ==
    /\ phase' = [phase EXCEPT ![c] = "built"]
    /\ sockOpen' = [sockOpen EXCEPT ![c] = TRUE]
    /\ Active' = [Active EXCEPT ![c] = active]
    /\ UserId' = [UserId EXCEPT ![c] = u]
    /\ connectionID' = [connectionID EXCEPT ![c] = id]
    /\ send' = [send EXCEPT ![c] = ch]
    /\ reuseCount' = [reuseCount EXCEPT ![c] = reuse]
    /\ UNCHANGED <<writer, lapsed>>

\* A connection with a new id and a new channel.
ConnectFresh(c, u, id) ==
    /\ phase[c] = "free"
    /\ id \in NewIds
    /\ \E ch \in NewChannels :
         /\ Build(c, u, id, ch, TRUE, 0)
         /\ queue' = [queue EXCEPT ![ch] = <<>>]
         /\ closed' = closed \ {ch}
    /\ UNCHANGED <<hubVars, indexVars>>

\* Seeded bug: the old connection stays in the index.
BugConnectReuse(c, u, id) ==
    /\ HubRunning
    /\ phase[c] = "free"
    /\ \E old \in Inactive(u, id) : Build(c, u, id, send[old], FALSE, 1)
    /\ UNCHANGED <<hubVars, indexVars, chanVars>>

\* CheckConn finds an inactive connection, takes it out of the index and hands
\* its channel to the new connection c.
ConnectReuse(c, u, id) ==
    /\ HubRunning
    /\ phase[c] = "free"
    /\ \E old \in Inactive(u, id) :
         /\ IndexRemove({old})
         /\ Build(c, u, id, send[old], FALSE, 1)
    /\ UNCHANGED <<hubVars, chanVars>>

\* CheckConn finds nothing to reuse, or h.stop is closed: the new id newId.
ConnectNotFound(c, u, id, newId) ==
    /\ Inactive(u, id) = {} \/ StopClosed
    /\ ConnectFresh(c, u, newId)

\* The hello, the one send of the hub without a default: it waits for room, and
\* panics if the channel is closed.
Greet(c) ==
    \/ /\ send[c] \notin closed /\ Len(queue[send[c]]) < sendQueueSize
       /\ queue' = [queue EXCEPT ![send[c]] = Append(@, Hello(connectionID[c]))]
       /\ UNCHANGED hub
    \/ /\ send[c] \notin closed /\ Len(queue[send[c]]) >= sendQueueSize
       /\ hub' = "blocked"
       /\ UNCHANGED queue
    \/ /\ send[c] \in closed
       /\ hub' = "panicked"
       /\ UNCHANGED queue

\* The register case of the hub.  A connection that reuses nothing is greeted,
\* unless IsBasicAuthenticated finds that its session has lapsed.
Register(c, u) ==
    /\ HubRunning
    /\ Active' = [Active EXCEPT ![c] = TRUE]
    /\ IndexAdd(c, u, connectionID[c])
    /\ \/ /\ lapsed' = lapsed \ {c}
          /\ IF reuseCount[c] = 0 THEN Greet(c) ELSE UNCHANGED <<hub, queue>>
       \/ /\ lapsed' = lapsed \cup {c}
          /\ UNCHANGED <<hub, queue>>
    /\ UNCHANGED <<toClose, closing, closed>>

\* HubRegister for a request that came with a session.
HandlerRegister(c) ==
    /\ phase[c] = "built"
    /\ UserId[c] # NoUser
    /\ Register(c, UserId[c])
    /\ phase' = [phase EXCEPT ![c] = "registered"]
    /\ UNCHANGED <<rechallenged, writer, sockOpen, UserId, connectionID, send, reuseCount>>

\* The index cannot be filled (the store fails): the connection was made active
\* but never indexed; the handler closes the socket and returns.
HandlerRegisterFails(c) ==
    /\ HubRunning
    /\ phase[c] = "built"
    /\ UserId[c] # NoUser
    /\ phase' = [phase EXCEPT ![c] = "finished"]
    /\ sockOpen' = [sockOpen EXCEPT ![c] = FALSE]
    /\ Active' = [Active EXCEPT ![c] = TRUE]
    /\ UNCHANGED <<hubVars, indexVars, writer, identVars, chanVars>>

\* Nothing to register: no session yet, or h.stop is closed.
HandlerSkipsRegister(c) ==
    /\ phase[c] = "built"
    /\ UserId[c] = NoUser \/ StopClosed
    /\ phase' = [phase EXCEPT ![c] = "registered"]
    /\ UNCHANGED <<hubVars, indexVars, writer, sockOpen, Active, identVars, chanVars>>

\* Pump starts the write pump and becomes the read pump.
Pump(c) ==
    /\ phase[c] = "registered"
    /\ phase' = [phase EXCEPT ![c] = "pumping"]
    /\ writer' = [writer EXCEPT ![c] = "start"]
    /\ UNCHANGED <<hubVars, indexVars, sockOpen, Active, identVars, chanVars>>

-----------------------------------------------------------------------------
(* The read pump *)

\* A request on the socket; its answer, that to an authentication_challenge too,
\* reaches the connection through the hub, later (SendMessage).
Request(c) == phase[c] = "pumping"

\* IsBasicAuthenticated, asked by the hub for an event or by the read pump for a
\* request or a pong, finds the session gone, or cannot load it: the token is
\* cleared.
SessionLapses(c) ==
    /\ (c \in byConnection /\ HubRunning) \/ Request(c)
    /\ UserId[c] # NoUser /\ c \notin lapsed
    /\ lapsed' = lapsed \cup {c}
    /\ UNCHANGED <<hubVars, indexVars, pumpVars, Active, UserId, connectionID, send, reuseCount, chanVars>>

NoToken(c) == UserId[c] = NoUser \/ c \in lapsed

\* Seeded bug: a challenge on a connection that has a token is heeded.
BugAuthChallenge(c, u) ==
    /\ Request(c)
    /\ UserId' = [UserId EXCEPT ![c] = u]
    /\ Register(c, u)
    /\ rechallenged' = (c \in lapsed)
    /\ UNCHANGED <<pumpVars, connectionID, send, reuseCount>>

\* authentication_challenge on a connection without a token: one that never had
\* a session, or one whose session has lapsed, which may be in use and indexed.
AuthChallenge(c, u) ==
    /\ Request(c)
    /\ NoToken(c)
    /\ UserId' = [UserId EXCEPT ![c] = u]
    /\ Register(c, u)
    /\ rechallenged' = (c \in lapsed)
    /\ UNCHANGED <<pumpVars, connectionID, send, reuseCount>>

\* The challenge is accepted but the connection is not indexed: Register fails
\* and the socket is closed, or h.stop is closed and Register does nothing.
AuthChallengeUnindexed(c, u) ==
    /\ Request(c)
    /\ NoToken(c)
    /\ UserId' = [UserId EXCEPT ![c] = u]
    /\ lapsed' = lapsed \ {c}
    /\ rechallenged' = (c \in lapsed)
    /\ \/ /\ HubRunning
          /\ sockOpen' = [sockOpen EXCEPT ![c] = FALSE]
          /\ Active' = [Active EXCEPT ![c] = TRUE]
       \/ StopClosed /\ UNCHANGED <<sockOpen, Active>>
    /\ UNCHANGED <<hub, toClose, closing, indexVars, phase, writer, connectionID, send, reuseCount, chanVars>>

\* The read pump returns (read error, deadline, closed socket), closes the
\* socket and closes endWritePump.
ReadPumpEnds(c) ==
    /\ phase[c] = "pumping"
    /\ phase' = [phase EXCEPT ![c] = "readDone"]
    /\ sockOpen' = [sockOpen EXCEPT ![c] = FALSE]
    /\ UNCHANGED <<hubVars, indexVars, writer, Active, identVars, chanVars>>

\* Seeded bug: the handler does not wait for the write pump.
BugUnregisterEarly(c) ==
    /\ phase[c] = "readDone"
    /\ phase' = [phase EXCEPT ![c] = "finished"]
    /\ \/ HubRunning /\ Active' = [Active EXCEPT ![c] = FALSE]
       \/ StopClosed /\ UNCHANGED Active
    /\ UNCHANGED <<hubVars, indexVars, writer, sockOpen, identVars, chanVars>>

\* Seeded bug: HubUnregister only waits for the hub, not for h.stop.
BugUnregisterBlocks(c) ==
    /\ phase[c] = "readDone" /\ writer[c] = "done"
    /\ HubRunning
    /\ phase' = [phase EXCEPT ![c] = "finished"]
    /\ Active' = [Active EXCEPT ![c] = FALSE]
    /\ UNCHANGED <<hubVars, indexVars, writer, sockOpen, identVars, chanVars>>

\* The unregister case: both pumps are done, the connection becomes inactive,
\* and pumpFinished is closed.
Unregister(c) ==
    /\ phase[c] = "readDone" /\ writer[c] = "done"
    /\ phase' = [phase EXCEPT ![c] = "finished"]
    /\ \/ HubRunning /\ Active' = [Active EXCEPT ![c] = FALSE]
       \/ StopClosed /\ UNCHANGED Active
    /\ UNCHANGED <<hubVars, indexVars, writer, sockOpen, identVars, chanVars>>

-----------------------------------------------------------------------------
(* The write pump *)
\* Seeded bug: the write pump leaves without closing the socket.
BugWriterDone(c) ==
    /\ writer' = [writer EXCEPT ![c] = "done"]
    /\ UNCHANGED <<phase, sockOpen>>

WriterDone(c) ==
    /\ writer' = [writer EXCEPT ![c] = "done"]
    /\ sockOpen' = [sockOpen EXCEPT ![c] = FALSE]
    /\ UNCHANGED phase

\* The reconnecting client is served from the dead queue, or needs nothing.
WriterResumes(c) ==
    /\ writer[c] = "start"
    /\ writer' = [writer EXCEPT ![c] = "loop"]
    /\ UNCHANGED <<hubVars, indexVars, phase, sockOpen, Active, identVars, chanVars>>

\* The reconnecting client is too far behind: the write pump gives the
\* connection a new id and greets the client itself.
WriterRestarts(c) ==
    /\ writer[c] = "start" /\ reuseCount[c] # 0
    /\ \E id \in NewIds : connectionID' = [connectionID EXCEPT ![c] = id]
    /\ \/ writer' = [writer EXCEPT ![c] = "loop"] /\ UNCHANGED <<phase, sockOpen>>
       \/ WriterDone(c)
    /\ UNCHANGED <<hubVars, indexVars, Active, UserId, send, reuseCount, lapsed, chanVars>>

\* One message is taken from the channel; its write succeeds or fails.
WriterSends(c) ==
    /\ writer[c] = "loop"
    /\ queue[send[c]] # <<>>
    /\ queue' = [queue EXCEPT ![send[c]] = Tail(@)]
    /\ \/ sockOpen[c] /\ UNCHANGED pumpVars
       \/ WriterDone(c)
    /\ UNCHANGED <<hubVars, indexVars, Active, identVars, closed>>

\* One message is taken from the channel but does not encode: the pump goes on.
WriterSkips(c) ==
    /\ writer[c] = "loop"
    /\ queue[send[c]] # <<>>
    /\ queue' = [queue EXCEPT ![send[c]] = Tail(@)]
    /\ UNCHANGED <<hubVars, indexVars, pumpVars, Active, identVars, closed>>

\* The channel is closed and empty: a close frame, and the end.
WriterSeesClosed(c) ==
    /\ writer[c] = "loop"
    /\ queue[send[c]] = <<>> /\ send[c] \in closed
    /\ WriterDone(c)
    /\ UNCHANGED <<hubVars, indexVars, Active, identVars, chanVars>>

\* endWritePump is closed; or a ping, or a message of the dead queue, cannot be
\* written; or nobody has authenticated in time.
WriterStops(c) ==
    /\ \/ writer[c] = "loop"
       \/ writer[c] = "start" /\ reuseCount[c] # 0
    /\ WriterDone(c)
    /\ UNCHANGED <<hubVars, indexVars, Active, identVars, chanVars>>

-----------------------------------------------------------------------------
(* The other cases of the hub *)

\* ShouldSendEvent, as far as it depends on the connection: nothing without a
\* session, and no minor events behind a slow writer.
ShouldSendEvent(c, msg) ==
    /\ c \notin lapsed
    /\ ~ (msg.minor /\ Len(queue[send[c]]) >= sendSlowWarn)

\* Seeded bug: the full channel is closed but its connection stays indexed.
BugEnqueueKeeps(T, msg) ==
    LET has == T \cap byConnection
        full == {c \in has : Len(queue[send[c]]) >= sendQueueSize}
        fed == {send[c] : c \in has \ full}
    IN  /\ queue' = [ch \in Channels |-> IF ch \in fed THEN Append(queue[ch], msg) ELSE queue[ch]]
        /\ closed' = closed \cup {send[c] : c \in full}
        /\ UNCHANGED indexVars

\* The select with a default, for every connection of T: a full channel is
\* closed and its connection removed (closeAndRemoveConn).
Enqueue(T, msg) ==
    LET has == T \cap byConnection
        full == {c \in has : Len(queue[send[c]]) >= sendQueueSize}
        fed == {send[c] : c \in has \ full}
    IN  /\ queue' = [ch \in Channels |-> IF ch \in fed THEN Append(queue[ch], msg) ELSE queue[ch]]
        /\ closed' = closed \cup {send[c] : c \in full}
        /\ IndexRemove(full)

\* directMsg: the answer to a request of connection c.
SendMessage(c, msg) ==
    /\ HubRunning
    /\ Request(c)
    /\ Enqueue({c}, msg)
    /\ UNCHANGED <<hubVars, pumpVars, Active, identVars>>

\* broadcast to the connections of T that should get the event.  Those of F do
\* not: what ShouldSendEvent asks the store about them cannot be loaded.
Broadcast(T, F, msg) ==
    /\ HubRunning
    /\ Enqueue({c \in (T \ F) \cap byConnection : ShouldSendEvent(c, msg)}, msg)
    /\ UNCHANGED <<hubVars, pumpVars, Active, identVars>>

\* Seeded bug: no fallback when the index has no entry for the id.
BugConnectionTargets(id) == {c \in {ForConnection(id)} \ {NoConn} : connectionID[c] = id}

\* An event for one connection id: the quick path through byConnectionId if that
\* has an entry, else every connection; ShouldSendEvent compares the ids.
ConnectionTargets(id) ==
    LET candidates == IF ForConnection(id) # NoConn THEN {ForConnection(id)} ELSE byConnection
    IN  {c \in candidates : connectionID[c] = id}

\* The connections an event may be meant for: all, a user's, or one.
EventTargets ==
    {byConnection} \cup {ForUser(u) : u \in Users} \cup {ConnectionTargets(id) : id \in ConnIds}

\* The ticker: RemoveInactiveConnections drops those idle for too long.
Reap(S) ==
    /\ HubRunning
    /\ S # {}
    /\ S \subseteq {c \in byConnection : ~ Active[c]}
    /\ IndexRemove(S)
    /\ UNCHANGED <<hubVars, pumpVars, Active, identVars, chanVars>>

\* invalidateUser fails to reload the memberships: every connection of the user
\* is closed and removed.
InvalidateUserFails(u) ==
    /\ HubRunning
    /\ ForUser(u) # {}
    /\ closed' = closed \cup {send[c] : c \in ForUser(u)}
    /\ IndexRemove(ForUser(u))
    /\ UNCHANGED <<hubVars, pumpVars, Active, identVars, queue>>

\* doRecover: a panic in a case loses the index, which doStart makes anew.
Recover ==
    /\ HubRunning
    /\ byConnection # {}
    /\ byUserId' = [u \in Users |-> {}]
    /\ byConnection' = {}
    /\ byConnectionId' = [id \in ConnIds |-> NoConn]
    /\ UNCHANGED <<hubVars, pumpVars, Active, identVars, chanVars>>

-----------------------------------------------------------------------------
(* Hub.Stop *)

Stop ==
    /\ hub = "running"
    /\ hub' = "stopRequested"
    /\ UNCHANGED <<toClose, closing, rechallenged, indexVars, pumpVars, Active, identVars, chanVars>>

\* The hub picks the stop case; from here on it handles nothing else.
StopCase ==
    /\ hub = "stopRequested"
    /\ hub' = "stopping"
    /\ toClose' = byConnection
    /\ UNCHANGED <<closing, rechallenged, indexVars, pumpVars, Active, identVars, chanVars>>

\* WebConn.Close closes the socket ...
CloseConn(c) ==
    /\ hub = "stopping" /\ closing = {}
    /\ c \in toClose
    /\ closing' = {c}
    /\ sockOpen' = [sockOpen EXCEPT ![c] = FALSE]
    /\ UNCHANGED <<hub, toClose, rechallenged, indexVars, phase, writer, Active, identVars, chanVars>>

\* ... and waits for pumpFinished.
ConnClosed ==
    /\ closing # {}
    /\ \A c \in closing : phase[c] = "finished"
    /\ closing' = {}
    /\ toClose' = toClose \ closing
    /\ UNCHANGED <<hub, rechallenged, indexVars, pumpVars, Active, identVars, chanVars>>

Stopped ==
    /\ hub = "stopping" /\ closing = {} /\ toClose = {}
    /\ hub' = "stopped"
    /\ UNCHANGED <<toClose, closing, rechallenged, indexVars, pumpVars, Active, identVars, chanVars>>

-----------------------------------------------------------------------------
(* The garbage collector *)

Release(c) ==
    /\ phase[c] = "finished"
    /\ c \notin byConnection
    /\ phase' = [phase EXCEPT ![c] = "free"]
    /\ writer' = [writer EXCEPT ![c] = "idle"]
    /\ Active' = [Active EXCEPT ![c] = FALSE]
    /\ UserId' = [UserId EXCEPT ![c] = NoUser]
    /\ connectionID' = [connectionID EXCEPT ![c] = NoId]
    /\ send' = [send EXCEPT ![c] = NoChannel]
    /\ reuseCount' = [reuseCount EXCEPT ![c] = 0]
    /\ lapsed' = lapsed \ {c}
    /\ UNCHANGED <<hubVars, byUserId, byConnection, sockOpen, chanVars>>

\* Nothing refers to the connection any more.
Collect(c) ==
    /\ \A id \in ConnIds : byConnectionId[id] # c
    /\ Release(c)
    /\ UNCHANGED byConnectionId

-----------------------------------------------------------------------------
Handler(c) ==
    \/ \E u \in Users \cup {NoUser}, id \in ConnIds : ConnectFresh(c, u, id)
    \/ \E u \in Users, id \in ConnIds :
         \/ ConnectReuse(c, u, id)
         \/ \E newId \in ConnIds : ConnectNotFound(c, u, id, newId)
    \/ HandlerRegister(c) \/ HandlerRegisterFails(c) \/ HandlerSkipsRegister(c)
    \/ Pump(c)
    \/ ReadPumpEnds(c) \/ Unregister(c)
    \/ SendMessage(c, Response)
    \/ SessionLapses(c)
    \/ \E u \in Users : AuthChallenge(c, u) \/ AuthChallengeUnindexed(c, u)

Writer(c) ==
    \/ WriterResumes(c) \/ WriterRestarts(c)
    \/ WriterSends(c) \/ WriterSkips(c) \/ WriterSeesClosed(c) \/ WriterStops(c)

HubCase ==
    \/ \E msg \in Broadcasts, T \in EventTargets : \E F \in SUBSET T : Broadcast(T, F, msg)
    \/ \E S \in SUBSET byConnection : Reap(S)
    \/ \E u \in Users : InvalidateUserFails(u)
    \/ Recover

Stopping == Stop \/ StopCase \/ (\E c \in Conns : CloseConn(c)) \/ ConnClosed \/ Stopped

\* The model ends where a connection whose session has lapsed is challenged
\* again: the hub may by then wait or have panicked in its hello, have a closed
\* channel in its index, or the connection under two users.
Next ==
    /\ ~ rechallenged
    /\ \/ \E c \in Conns : Handler(c) \/ Writer(c) \/ Collect(c)
       \/ HubCase
       \/ Stopping

Spec == Init /\ [][Next]_vars

\* Goroutines run on: the handler and the read pump notice a closed socket, the
\* write pump empties its channel or notices endWritePump, the hub stops.
Fairness ==
    /\ \A c \in Conns :
         /\ WF_vars(HandlerRegister(c) \/ HandlerRegisterFails(c) \/ HandlerSkipsRegister(c))
         /\ WF_vars(Pump(c))
         /\ WF_vars(~ sockOpen[c] /\ ReadPumpEnds(c))
         /\ WF_vars(WriterResumes(c) \/ WriterRestarts(c))
         /\ WF_vars(WriterSends(c))
         /\ WF_vars(WriterSeesClosed(c))
         /\ WF_vars(phase[c] = "readDone" /\ WriterStops(c))
         /\ WF_vars(Unregister(c))
    /\ WF_vars(StopCase) /\ WF_vars(Stopped) /\ WF_vars(ConnClosed)
    /\ WF_vars(\E c \in Conns : CloseConn(c))

FairSpec == Spec /\ Fairness

-----------------------------------------------------------------------------
\* The connections with a goroutine, or a place in the index, that may use the
\* channel and the dead queue.
Owners == {c \in Conns : phase[c] \notin {"free", "finished"}} \cup byConnection

\* What follows holds until a connection whose session has lapsed is challenged
\* again (websocket_router.go:40).

\* The hub sends to, and closes, only channels that are still open: a send on a
\* closed channel, or closing it twice, would panic (web_hub.go:671, 696, 791).
IndexedChannelsOpen == ~ rechallenged => \A c \in byConnection : send[c] \notin closed

\* After any number of hand-overs a channel and its dead queue, which no lock
\* guards, have one owner (web_conn.go:88-149, web_hub.go:545-558).
SoleOwner == ~ rechallenged => \A c, d \in Owners : send[c] = send[d] => c = d

\* What CheckConn may hand over has no goroutine left that reads the channel or
\* writes the dead queue (web_conn.go:422-427).
InactiveMeansFinished ==
    ~ rechallenged =>
       \A c \in byConnection : ~ Active[c] => phase[c] = "finished" /\ writer[c] = "done"

\* The two maps of the index agree (web_hub.go:836-889).
IndexesAgree ==
    ~ rechallenged => \A u \in Users : byUserId[u] = {c \in byConnection : UserId[c] = u}

\* The hub neither waits nor panics in its hello, the one send it makes without a
\* default (web_hub.go:581), although responses and events may fill a channel, and
\* evictions close it, as soon as its connection is indexed: the channel has room
\* and is open whenever a connection is greeted.
GreetingFindsRoom == ~ rechallenged => hub \notin {"blocked", "panicked"}

\* An event for a connection id reaches the registered connection that has the
\* id, even after the write pump changed it (web_hub.go:710-713).
DirectedEventsReachOwner ==
    ~ rechallenged => \A c \in byConnection : c \in ConnectionTargets(connectionID[c])

\* Hub.Stop returns: it never waits for a connection forever (web_hub.go:504-512).
StopTerminates == (hub = "stopRequested") ~> (hub = "stopped" \/ rechallenged)

\* A connection evicted because its channel was full is torn down, so that the
\* client notices and reconnects (web_hub.go:695-704, web_conn.go:564-570).
EvictedIsTornDown ==
    \A c \in Conns :
        (phase[c] = "pumping" /\ send[c] \in closed)
           ~> (phase[c] \in {"finished", "free"} \/ rechallenged)
=============================================================================
