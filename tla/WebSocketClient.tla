--------------------------- MODULE WebSocketClient ---------------------------
(***************************************************************************)
(* The life cycle of the browser's WebSocketClient                         *)
(* (webapp/platform/client/src/websocket.ts): sockets and their close      *)
(* events, the reconnect timer, the ping interval, and the network events  *)
(* of the browser.  JavaScript runs one callback at a time: each callback  *)
(* is one action.  The server is an environment that answers pings while   *)
(* it is alive and sends hellos and events with any number.                *)
(***************************************************************************)
EXTENDS Naturals, FiniteSets

CONSTANTS
    Sockets, NoSocket,  \* WebSocket objects
    ConnIds, NoId,      \* ids of event streams
    MaxSequence,        \* bound on the numbers of the events
    MaxFaults           \* bound on network failures and network events

ASSUME ConstantsAssumption ==
    /\ NoSocket \notin Sockets /\ NoId \notin ConnIds
    /\ MaxSequence \in Nat /\ MaxFaults \in Nat

VARIABLES
    conn,               \* this.conn
    readyState,         \* of each socket; an unused socket is CLOSED
    onclose,            \* of each socket: its handler, or the empty function
    connectionId, serverSequence,   \* see StreamClient
    reconnectTimeout,   \* the reconnect timer is set
    pingInterval,       \* the ping interval is set
    waitingForPong,     \* this.waitingForPong
    connectFailCount,   \* only compared with 0 here: capped at 1
    listening,          \* the online and offline handlers are installed
    alive,              \* sockets whose server still answers
    pinged,             \* sockets on which a ping waits for its answer
    faults,             \* network failures and network events so far
    wanted,             \* history: the application called initialize, not close
    opened              \* history: a socket has opened since the last close

streamVars == <<conn, connectionId, serverSequence>>
socketVars == <<readyState, onclose>>
timerVars == <<reconnectTimeout, pingInterval, waitingForPong>>
stateVars == <<connectFailCount, listening>>
envVars == <<alive, pinged>>
historyVars == <<wanted, opened>>
vars == <<streamVars, socketVars, timerVars, stateVars, envVars, faults, historyVars>>

Stream == INSTANCE StreamClient WITH Conns <- Sockets, NoConn <- NoSocket

Init ==
    /\ Stream!ClientInit
    /\ readyState = [s \in Sockets |-> "CLOSED"]
    /\ onclose = [s \in Sockets |-> "empty"]
    /\ reconnectTimeout = FALSE /\ pingInterval = FALSE /\ waitingForPong = FALSE
    /\ connectFailCount = 0 /\ listening = FALSE
    /\ alive = {} /\ pinged = {}
    /\ faults = 0
    /\ wanted = FALSE /\ opened = FALSE

Fault == faults < MaxFaults /\ faults' = faults + 1

\* this.conn && this.conn.readyState === WebSocket.OPEN
IsOpen == conn # NoSocket /\ readyState[conn] = "OPEN"

-----------------------------------------------------------------------------
(* Pieces shared by several callbacks *)

\* initialize, past its early returns: handlers are installed, a socket is made.
NewSocket(s) ==
    /\ readyState[s] = "CLOSED"
    /\ Stream!Initialize(s)
    /\ readyState' = [readyState EXCEPT ![s] = "CONNECTING"]
    /\ onclose' = [onclose EXCEPT ![s] = "handler"]
    /\ listening' = TRUE
    /\ alive' = alive \cup {s}

\* What the close handler does besides clearing this.conn.
CloseHandler ==
    /\ connectFailCount' = 1
    /\ pingInterval' = FALSE
    /\ reconnectTimeout' = TRUE

\* Seeded bug: the handler is taken off but not called.
BugAbandonSilently ==
    /\ readyState' = [readyState EXCEPT ![conn] = "CLOSING"]
    /\ onclose' = [onclose EXCEPT ![conn] = "empty"]
    /\ pingInterval' = FALSE
    /\ UNCHANGED <<connectFailCount, reconnectTimeout>>

\* Seeded bug: the old socket is not closed.
BugAbandonOpen ==
    /\ onclose' = [onclose EXCEPT ![conn] = "empty"]
    /\ CloseHandler
    /\ UNCHANGED readyState

\* Seeded bug: the fail count is reset after the handler has run.
BugAbandonResets ==
    /\ readyState' = [readyState EXCEPT ![conn] = "CLOSING"]
    /\ onclose' = [onclose EXCEPT ![conn] = "empty"]
    /\ connectFailCount' = 0
    /\ pingInterval' = FALSE
    /\ reconnectTimeout' = TRUE

\* The client gives its socket up: the handler is taken off the socket, the
\* socket is closed, and the handler is called at once.
Abandon ==
    /\ readyState' = [readyState EXCEPT ![conn] = "CLOSING"]
    /\ onclose' = [onclose EXCEPT ![conn] = "empty"]
    /\ CloseHandler

\* ping: nothing is sent unless the socket is open.
Ping(sock, open) == pinged' = IF open THEN pinged \cup {sock} ELSE pinged

-----------------------------------------------------------------------------
(* Calls of the application *)

AppInitialize ==
    /\ ~ wanted
    /\ wanted' = TRUE
    /\ \/ /\ conn = NoSocket /\ ~ reconnectTimeout
          /\ \E s \in Sockets : NewSocket(s)
       \/ /\ conn # NoSocket \/ reconnectTimeout
          /\ UNCHANGED <<streamVars, socketVars, listening, alive>>
    /\ UNCHANGED <<timerVars, connectFailCount, pinged, faults, opened>>

\* Seeded bug: the network event handlers stay installed.
BugAppClose ==
    /\ wanted
    /\ wanted' = FALSE /\ opened' = FALSE
    /\ connectFailCount' = 0
    /\ reconnectTimeout' = FALSE /\ pingInterval' = FALSE
    /\ \/ /\ IsOpen
          /\ onclose' = [onclose EXCEPT ![conn] = "empty"]
          /\ readyState' = [readyState EXCEPT ![conn] = "CLOSING"]
          /\ Stream!OnClose
       \/ /\ ~ IsOpen
          /\ UNCHANGED <<streamVars, socketVars>>
    /\ UNCHANGED <<waitingForPong, listening, envVars, faults>>

AppClose ==
    /\ wanted
    /\ wanted' = FALSE /\ opened' = FALSE
    /\ connectFailCount' = 0
    /\ reconnectTimeout' = FALSE /\ pingInterval' = FALSE
    /\ listening' = FALSE
    /\ \/ /\ IsOpen
          /\ onclose' = [onclose EXCEPT ![conn] = "empty"]
          /\ readyState' = [readyState EXCEPT ![conn] = "CLOSING"]
          /\ Stream!OnClose
       \/ /\ ~ IsOpen
          /\ UNCHANGED <<streamVars, socketVars>>
    /\ UNCHANGED <<waitingForPong, envVars, faults>>

-----------------------------------------------------------------------------
(* Timers *)
\* Seeded bug: this.reconnectTimeout is not cleared when the timer fires, so
\* that initialize returns early.
BugReconnectTimer == reconnectTimeout /\ UNCHANGED vars

\* The reconnect timer calls initialize, which returns early if there is a socket.
ReconnectTimer ==
    /\ reconnectTimeout
    /\ reconnectTimeout' = FALSE
    /\ \/ /\ conn = NoSocket
          /\ \E s \in Sockets : NewSocket(s)
       \/ /\ conn # NoSocket
          /\ UNCHANGED <<streamVars, socketVars, listening, alive>>
    /\ UNCHANGED <<pingInterval, waitingForPong, connectFailCount, pinged, faults, historyVars>>

\* Seeded bug: nothing notes that a ping waits for its answer.
BugPingAgain ==
    /\ pingInterval /\ ~ waitingForPong
    /\ Ping(conn, IsOpen)
    /\ UNCHANGED <<streamVars, socketVars, timerVars, stateVars, alive, faults, historyVars>>

\* The interval pings if the last ping was answered.
PingAgain ==
    /\ pingInterval /\ ~ waitingForPong
    /\ waitingForPong' = TRUE
    /\ Ping(conn, IsOpen)
    /\ UNCHANGED <<streamVars, socketVars, reconnectTimeout, pingInterval, stateVars, alive, faults, historyVars>>

\* Seeded bug: the interval stops but the socket is kept.
BugPingTimeout ==
    /\ pingInterval /\ waitingForPong
    /\ pingInterval' = FALSE
    /\ UNCHANGED <<streamVars, socketVars, reconnectTimeout, waitingForPong, stateVars, envVars, faults, historyVars>>

\* Otherwise it stops, and gives the socket up if it is open.
PingTimeout ==
    /\ pingInterval /\ waitingForPong
    /\ \/ IsOpen /\ Abandon /\ Stream!OnClose
       \/ /\ ~ IsOpen
          /\ pingInterval' = FALSE
          /\ UNCHANGED <<streamVars, socketVars, reconnectTimeout, connectFailCount>>
    /\ UNCHANGED <<waitingForPong, listening, envVars, faults, historyVars>>

-----------------------------------------------------------------------------
(* Events of a socket *)

OnOpen(s) ==
    /\ readyState[s] = "CONNECTING"
    /\ readyState' = [readyState EXCEPT ![s] = "OPEN"]
    /\ waitingForPong' = TRUE
    /\ Ping(s, TRUE)
    /\ pingInterval' = TRUE
    /\ connectFailCount' = 0
    /\ opened' = TRUE
    /\ UNCHANGED <<streamVars, onclose, reconnectTimeout, listening, alive, faults, wanted>>

\* The server starts the closing handshake.
Closing(s) ==
    /\ readyState[s] = "OPEN"
    /\ Fault
    /\ readyState' = [readyState EXCEPT ![s] = "CLOSING"]
    /\ UNCHANGED <<streamVars, onclose, timerVars, stateVars, envVars, historyVars>>

\* Seeded bug: the position in the stream is reset with the connection.
BugCloseEvent(s) ==
    /\ readyState[s] # "CLOSED"
    /\ IF readyState[s] = "CLOSING" THEN UNCHANGED faults ELSE Fault
    /\ readyState' = [readyState EXCEPT ![s] = "CLOSED"]
    /\ alive' = alive \ {s} /\ pinged' = pinged \ {s}
    /\ \/ /\ onclose[s] = "handler"
          /\ CloseHandler
          /\ conn' = NoSocket /\ serverSequence' = 0
          /\ UNCHANGED connectionId
       \/ /\ onclose[s] = "empty"
          /\ UNCHANGED <<streamVars, connectFailCount, pingInterval, reconnectTimeout>>
    /\ UNCHANGED <<onclose, waitingForPong, listening, historyVars>>

\* The close event: the socket could not connect, broke, or finished closing.
CloseEvent(s) ==
    /\ readyState[s] # "CLOSED"
    /\ IF readyState[s] = "CLOSING" THEN UNCHANGED faults ELSE Fault
    /\ readyState' = [readyState EXCEPT ![s] = "CLOSED"]
    /\ alive' = alive \ {s} /\ pinged' = pinged \ {s}
    /\ \/ /\ onclose[s] = "handler"
          /\ CloseHandler
          /\ conn' = NoSocket
          /\ UNCHANGED <<connectionId, serverSequence>>
       \/ /\ onclose[s] = "empty"
          /\ UNCHANGED <<streamVars, connectFailCount, pingInterval, reconnectTimeout>>
    /\ UNCHANGED <<onclose, waitingForPong, listening, historyVars>>

\* The answer to a ping; other pings may still wait for theirs.
Pong(s) ==
    /\ s \in pinged \cap alive
    /\ readyState[s] = "OPEN"
    /\ waitingForPong' = FALSE
    /\ pinged' \in {pinged, pinged \ {s}}
    /\ UNCHANGED <<streamVars, socketVars, reconnectTimeout, pingInterval, stateVars, alive, faults, historyVars>>

\* A hello or an event of the stream; a wrong number makes the client give up.
Message ==
    /\ IsOpen /\ conn \in alive
    /\ \E seq \in {serverSequence, 0, serverSequence + 1} :
         /\ seq < MaxSequence
         /\ Stream!OnEvent(seq) \/ \E id \in ConnIds : Stream!OnHello(id, seq)
    /\ \/ /\ conn' = conn
          /\ UNCHANGED <<socketVars, connectFailCount, pingInterval, reconnectTimeout, faults>>
       \/ /\ conn' # conn
          /\ Fault
          /\ Abandon
    /\ UNCHANGED <<waitingForPong, listening, envVars, historyVars>>

-----------------------------------------------------------------------------
(* The browser's network events, and the network itself *)

\* Any timer is replaced by a new one, unless there is an open socket.
Online ==
    /\ listening /\ ~ IsOpen
    /\ Fault
    /\ reconnectTimeout' = TRUE
    /\ UNCHANGED <<streamVars, socketVars, pingInterval, waitingForPong, stateVars, envVars, historyVars>>

\* A ping at once, unless the socket is already on its way out (or in).
Offline ==
    /\ listening
    /\ conn # NoSocket => IsOpen
    /\ Fault
    /\ waitingForPong' = TRUE
    /\ Ping(conn, IsOpen)
    /\ UNCHANGED <<streamVars, socketVars, reconnectTimeout, pingInterval, stateVars, alive, historyVars>>

\* The server or the network goes silent without a close event.
Silence(s) ==
    /\ s \in alive
    /\ Fault
    /\ alive' = alive \ {s}
    /\ UNCHANGED <<streamVars, socketVars, timerVars, stateVars, pinged, historyVars>>

-----------------------------------------------------------------------------
Next ==
    \/ AppInitialize \/ AppClose
    \/ ReconnectTimer \/ PingAgain \/ PingTimeout
    \/ \E s \in Sockets :
         OnOpen(s) \/ Closing(s) \/ CloseEvent(s) \/ Pong(s) \/ Silence(s)
    \/ Message \/ Online \/ Offline

Spec == Init /\ [][Next]_vars

\* Timers fire, a server that can be reached is reached, and a socket that was
\* told to close closes.
Fairness ==
    /\ WF_vars(ReconnectTimer) /\ WF_vars(PingAgain) /\ WF_vars(PingTimeout)
    /\ \A s \in Sockets :
         /\ WF_vars(OnOpen(s))
         /\ WF_vars(readyState[s] = "CLOSING" /\ CloseEvent(s))
         /\ WF_vars(Pong(s))

FairSpec == Spec /\ Fairness

-----------------------------------------------------------------------------
\* While the application wants the connection there is one, or a timer that will
\* make one: no order of close events, pings and network events leaves the
\* client idle (websocket.ts:124-135, 158-175, 223-268).
KeepsTrying == wanted => conn # NoSocket \/ reconnectTimeout

\* The client never forgets a socket that is open or may still open: it would
\* deliver every event twice (websocket.ts:324-328, 405-414, 553-558).
NoForgottenSocket ==
    \A s \in Sockets : readyState[s] \in {"CONNECTING", "OPEN"} => conn = s

\* An open socket is always being watched by the ping interval, whatever was
\* stopped before it opened (websocket.ts:242-243, 290-334).
OpenIsWatched == IsOpen => pingInterval

\* When a connection is lost and regained, the listeners that bring the
\* application up to date run, not those of a first connection
\* (websocket.ts:277-287).
RegainedRunsReconnect ==
    opened /\ (conn # NoSocket => readyState[conn] = "CONNECTING") => connectFailCount > 0

\* A socket whose server has gone silent is given up (websocket.ts:296-334).
SilenceIsNoticed ==
    \A s \in Sockets :
        (conn = s /\ readyState[s] = "OPEN" /\ s \notin alive) ~> (conn # s)

\* Wanted, the client ends up connected once failures end (websocket.ts:223-268).
EventuallyConnected == wanted ~> (IsOpen \/ ~ wanted)

\* The client is the stream client that ReliableWebSocket is built from.
ImplementsStreamClient == Stream!ClientSpec

\* Once close() has taken effect -- no socket is left that was still connecting
\* or closing when it was called -- nothing connects again until the application
\* asks for it: no timer, late close event or network event brings the client
\* back (websocket.ts:546-568, websocket.test.ts:158-193).
ClosedStaysClosed ==
    [][~ wanted /\ conn = NoSocket /\ ~ reconnectTimeout /\ ~ wanted'
        => conn' = NoSocket /\ ~ reconnectTimeout']_vars
=============================================================================
