------------------------ MODULE EventStreamEnds_proofs ------------------------
(***************************************************************************)
(* Proofs about the two ends of the event stream, each by itself.          *)
(*                                                                         *)
(* WebSocketClient, for every number of sockets, ids, events and failures: *)
(* the client has one live socket at most, which is watched when it is     *)
(* open; it never sits idle while a connection is wanted, nor connects     *)
(* once it was closed; and it implements the client that the event stream  *)
(* is built from.                                                          *)
(*                                                                         *)
(* DeadQueueLog, for a buffer of any size above one and any number of      *)
(* events: the buffer holds the end of the log, and what is searched in it *)
(* and drained from it is what the log says.                               *)
(***************************************************************************)
EXTENDS DeadQueueLog, WebSocketClient, TLAPS

-----------------------------------------------------------------------------
(* WebSocketClient.                                                        *)

TypeOK ==
    /\ conn \in Sockets \cup {NoSocket}
    /\ connectionId \in ConnIds \cup {NoId}
    /\ serverSequence \in 0..MaxSequence
    /\ readyState \in [Sockets -> {"CONNECTING", "OPEN", "CLOSING", "CLOSED"}]
    /\ onclose \in [Sockets -> {"handler", "empty"}]
    /\ reconnectTimeout \in BOOLEAN /\ pingInterval \in BOOLEAN /\ waitingForPong \in BOOLEAN
    /\ connectFailCount \in {0, 1}
    /\ listening \in BOOLEAN
    /\ alive \subseteq Sockets /\ pinged \subseteq Sockets
    /\ faults \in 0..MaxFaults
    /\ wanted \in BOOLEAN /\ opened \in BOOLEAN

\* The client's socket has its handler, and its close event is still to come.
HasItsHandler == conn # NoSocket => onclose[conn] = "handler" /\ readyState[conn] # "CLOSED"

\* Any other socket is closed, or closing with nobody to be told of it: no late close
\* event takes the client's socket away.
OthersAreSilent ==
    \A s \in Sockets :
       s # conn => readyState[s] = "CLOSED" \/ (readyState[s] = "CLOSING" /\ onclose[s] = "empty")

\* Not wanted and with nothing under way, it does not listen to the network either.
TryingOrDeaf == wanted \/ listening => conn # NoSocket \/ reconnectTimeout

\* The inductive invariant.
Inv ==
    /\ TypeOK
    /\ HasItsHandler /\ OthersAreSilent
    /\ TryingOrDeaf /\ OpenIsWatched /\ RegainedRunsReconnect

-----------------------------------------------------------------------------
(* The types, step by step: first the pieces the callbacks share.          *)

SocketType ==
    /\ conn \in Sockets \cup {NoSocket}
    /\ connectionId \in ConnIds \cup {NoId}
    /\ serverSequence \in 0..MaxSequence
    /\ readyState \in [Sockets -> {"CONNECTING", "OPEN", "CLOSING", "CLOSED"}]
    /\ onclose \in [Sockets -> {"handler", "empty"}]

TimerType ==
    /\ reconnectTimeout \in BOOLEAN /\ pingInterval \in BOOLEAN /\ waitingForPong \in BOOLEAN
    /\ connectFailCount \in {0, 1}

EnvType ==
    /\ listening \in BOOLEAN
    /\ alive \subseteq Sockets /\ pinged \subseteq Sockets
    /\ faults \in 0..MaxFaults
    /\ wanted \in BOOLEAN /\ opened \in BOOLEAN

LEMMA TypeParts == (TypeOK <=> SocketType /\ TimerType /\ EnvType)
                   /\ (TypeOK <=> SocketType /\ TimerType /\ EnvType)'
BY DEF TypeOK, SocketType, TimerType, EnvType

LEMMA InvInit == ASSUME Init PROVE Inv
<1>1. conn = NoSocket /\ ~ wanted /\ ~ listening /\ ~ opened
  BY DEF Init, Stream!ClientInit
<1>2. TypeOK
  <2>1. SocketType
    <3>1. /\ readyState = [s \in Sockets |-> "CLOSED"]
          /\ onclose = [s \in Sockets |-> "empty"]
          /\ conn = NoSocket /\ connectionId = NoId /\ serverSequence = 0
      BY DEF Init, Stream!ClientInit
    <3> QED
      BY <3>1, ConstantsAssumption DEF SocketType
  <2>2. TimerType
    BY DEF Init, TimerType
  <2>3. EnvType
    <3>1. faults = 0 /\ alive = {} /\ pinged = {}
      BY DEF Init
    <3>2. faults \in 0..MaxFaults /\ alive \subseteq Sockets /\ pinged \subseteq Sockets
      BY <3>1, ConstantsAssumption
    <3>3. listening \in BOOLEAN /\ wanted \in BOOLEAN /\ opened \in BOOLEAN
      BY DEF Init
    <3> QED
      BY <3>2, <3>3 DEF EnvType
  <2> QED
    BY <2>1, <2>2, <2>3, TypeParts
<1>3. HasItsHandler /\ OthersAreSilent
  BY <1>1 DEF Init, HasItsHandler, OthersAreSilent
<1>4. TryingOrDeaf /\ OpenIsWatched /\ RegainedRunsReconnect
  BY <1>1 DEF TryingOrDeaf, OpenIsWatched, RegainedRunsReconnect, IsOpen
<1> QED
  BY <1>2, <1>3, <1>4 DEF Inv

\* An open socket is a socket, and so is whatever a ping is sent on.
LEMMA PingType ==
    ASSUME TypeOK, NEW sock \in Sockets \cup {NoSocket}, NEW open, open => sock \in Sockets,
           Ping(sock, open)
    PROVE  pinged' \subseteq Sockets
BY DEF Ping, TypeOK

LEMMA FaultType == ASSUME TypeOK, Fault PROVE faults' \in 0..MaxFaults
BY ConstantsAssumption DEF Fault, TypeOK

\* A message sets the position in the stream and may drop the connection.
LEMMA MessageEffect ==
    ASSUME TypeOK, Message
    PROVE  /\ conn \in Sockets /\ conn' \in {conn, NoSocket}
           /\ connectionId' \in ConnIds \cup {NoId}
           /\ serverSequence' \in 0..MaxSequence
<1>1. PICK seq \in {serverSequence, 0, serverSequence + 1} :
         /\ seq < MaxSequence
         /\ Stream!OnEvent(seq) \/ \E id \in ConnIds : Stream!OnHello(id, seq)
  BY DEF Message
<1>2. seq \in 0..MaxSequence /\ seq + 1 \in 0..MaxSequence
  BY <1>1, ConstantsAssumption DEF TypeOK
<1>3. PICK expected \in 0..MaxSequence : Stream!CheckSequence(seq, expected)
  BY <1>1, ConstantsAssumption DEF TypeOK, Stream!OnEvent, Stream!OnHello
<1>4. connectionId' \in ConnIds \cup {NoId}
  BY <1>1 DEF TypeOK, Stream!OnEvent, Stream!OnHello
<1>5. conn \in Sockets
  BY DEF Message, IsOpen, TypeOK
<1> QED
  BY <1>2, <1>3, <1>4, <1>5 DEF Stream!CheckSequence

LEMMA TypeStep == ASSUME TypeOK, OthersAreSilent, [Next]_vars PROVE TypeOK'
<1> USE DEF streamVars, socketVars, timerVars, stateVars, envVars, historyVars
<1>1. CASE AppInitialize
  <2>1. SocketType'
    BY <1>1 DEF AppInitialize, NewSocket, Stream!Initialize, TypeOK, SocketType
  <2>2. TimerType'
    BY <1>1 DEF AppInitialize, TypeOK, TimerType
  <2>3. EnvType'
    BY <1>1 DEF AppInitialize, NewSocket, TypeOK, EnvType
  <2> QED
    BY <2>1, <2>2, <2>3, TypeParts
<1>2. CASE AppClose
  <2>1. SocketType'
    BY <1>2 DEF AppClose, Stream!OnClose, TypeOK, SocketType
  <2>2. TimerType' /\ EnvType'
    BY <1>2 DEF AppClose, TypeOK, TimerType, EnvType
  <2> QED
    BY <2>1, <2>2, TypeParts
<1>3. CASE ReconnectTimer
  <2>1. SocketType'
    BY <1>3 DEF ReconnectTimer, NewSocket, Stream!Initialize, TypeOK, SocketType
  <2>2. TimerType' /\ EnvType'
    BY <1>3 DEF ReconnectTimer, NewSocket, TypeOK, TimerType, EnvType
  <2> QED
    BY <2>1, <2>2, TypeParts
<1>4. CASE PingAgain
  <2>1. pinged' \subseteq Sockets
    BY <1>4, PingType DEF PingAgain, IsOpen, TypeOK
  <2> QED
    BY <1>4, <2>1 DEF PingAgain, TypeOK
<1>5. CASE PingTimeout
  <2>1. SocketType'
    BY <1>5 DEF PingTimeout, Abandon, Stream!OnClose, TypeOK, SocketType
  <2>2. TimerType' /\ EnvType'
    BY <1>5 DEF PingTimeout, Abandon, CloseHandler, TypeOK, TimerType, EnvType
  <2> QED
    BY <2>1, <2>2, TypeParts
<1>6. ASSUME NEW s \in Sockets, OnOpen(s) PROVE TypeOK'
  BY <1>6 DEF OnOpen, Ping, TypeOK
<1>7. ASSUME NEW s \in Sockets, Closing(s) PROVE TypeOK'
  BY <1>7, FaultType DEF Closing, TypeOK
<1>8. ASSUME NEW s \in Sockets, CloseEvent(s) PROVE TypeOK'
  <2>1. SocketType'
    BY <1>8 DEF CloseEvent, TypeOK, SocketType
  <2>2. TimerType'
    BY <1>8 DEF CloseEvent, CloseHandler, TypeOK, TimerType
  <2>3. EnvType'
    BY <1>8, FaultType DEF CloseEvent, TypeOK, EnvType
  <2> QED
    BY <2>1, <2>2, <2>3, TypeParts
<1>9. ASSUME NEW s \in Sockets, Pong(s) PROVE TypeOK'
  BY <1>9 DEF Pong, TypeOK
<1>10. ASSUME NEW s \in Sockets, Silence(s) PROVE TypeOK'
  BY <1>10, FaultType DEF Silence, TypeOK
<1>11. CASE Message
  <2>1. SocketType'
    BY <1>11, MessageEffect DEF Message, Abandon, TypeOK, SocketType
  <2>2. TimerType'
    BY <1>11 DEF Message, Abandon, CloseHandler, TypeOK, TimerType
  <2>3. EnvType'
    BY <1>11, FaultType DEF Message, TypeOK, EnvType
  <2> QED
    BY <2>1, <2>2, <2>3, TypeParts
<1>12. CASE Online
  BY <1>12, FaultType DEF Online, TypeOK
<1>13. CASE Offline
  <2>1. pinged' \subseteq Sockets
    BY <1>13, PingType DEF Offline, IsOpen, TypeOK
  <2> QED
    BY <1>13, <2>1, FaultType DEF Offline, TypeOK
<1>14. CASE UNCHANGED vars
  BY <1>14 DEF vars, TypeOK
<1> QED
  BY <1>1, <1>2, <1>3, <1>4, <1>5, <1>6, <1>7, <1>8, <1>9, <1>10, <1>11, <1>12, <1>13, <1>14
     DEF Next

-----------------------------------------------------------------------------
(* The sockets.                                                            *)

\* What may become of the client's socket and the others in a step.
Unaffected == UNCHANGED <<conn, readyState, onclose>>

Makes(s) ==
    /\ conn = NoSocket /\ readyState[s] = "CLOSED"
    /\ conn' = s
    /\ readyState' = [readyState EXCEPT ![s] = "CONNECTING"]
    /\ onclose' = [onclose EXCEPT ![s] = "handler"]

GivesUp ==
    /\ conn # NoSocket /\ conn' = NoSocket
    /\ readyState' = [readyState EXCEPT ![conn] = "CLOSING"]
    /\ onclose' = [onclose EXCEPT ![conn] = "empty"]

Moves(s) ==
    /\ \/ readyState[s] = "CONNECTING" /\ readyState' = [readyState EXCEPT ![s] = "OPEN"]
       \/ readyState[s] = "OPEN" /\ readyState' = [readyState EXCEPT ![s] = "CLOSING"]
    /\ UNCHANGED <<conn, onclose>>

Closes(s) ==
    /\ readyState[s] # "CLOSED"
    /\ readyState' = [readyState EXCEPT ![s] = "CLOSED"]
    /\ \/ onclose[s] = "handler" /\ conn' = NoSocket
       \/ onclose[s] = "empty" /\ UNCHANGED conn
    /\ UNCHANGED onclose

\* Every step does one of these to the sockets.
LEMMA SocketEffect ==
    ASSUME TypeOK, [Next]_vars
    PROVE  \/ Unaffected \/ GivesUp
           \/ \E s \in Sockets : Makes(s) \/ Moves(s) \/ Closes(s)
<1> USE DEF streamVars, socketVars
<1>1. CASE AppInitialize \/ ReconnectTimer
  BY <1>1 DEF AppInitialize, ReconnectTimer, NewSocket, Stream!Initialize, Makes, Unaffected
<1>2. CASE AppClose \/ PingTimeout
  BY <1>2 DEF AppClose, PingTimeout, Abandon, Stream!OnClose, IsOpen, GivesUp, Unaffected
<1>3. CASE PingAgain \/ Online \/ Offline
  BY <1>3 DEF PingAgain, Online, Offline, Unaffected
<1>4. CASE \E s \in Sockets : OnOpen(s) \/ Closing(s)
  BY <1>4 DEF OnOpen, Closing, Moves
<1>5. CASE \E s \in Sockets : CloseEvent(s)
  BY <1>5 DEF CloseEvent, Closes
<1>6. CASE \E s \in Sockets : Pong(s) \/ Silence(s)
  BY <1>6 DEF Pong, Silence, Unaffected
<1>7. CASE Message
  <2>1. conn # NoSocket /\ conn' \in {conn, NoSocket}
    BY <1>7, MessageEffect, ConstantsAssumption
  <2>2. CASE conn' = conn
    BY <1>7, <2>2 DEF Message, Unaffected
  <2>3. CASE conn' # conn
    BY <1>7, <2>1, <2>3 DEF Message, Abandon, GivesUp
  <2> QED
    BY <2>2, <2>3
<1>8. CASE UNCHANGED vars
  BY <1>8 DEF vars, Unaffected
<1> QED
  BY <1>1, <1>2, <1>3, <1>4, <1>5, <1>6, <1>7, <1>8 DEF Next

LEMMA SocketStep ==
    ASSUME TypeOK, HasItsHandler, OthersAreSilent, [Next]_vars
    PROVE  HasItsHandler' /\ OthersAreSilent'
<1> USE ConstantsAssumption DEF TypeOK, HasItsHandler, OthersAreSilent
<1>1. CASE Unaffected
  BY <1>1 DEF Unaffected
<1>2. CASE GivesUp
  BY <1>2 DEF GivesUp
<1>3. ASSUME NEW s \in Sockets, Makes(s) PROVE HasItsHandler' /\ OthersAreSilent'
  BY <1>3 DEF Makes
<1>4. ASSUME NEW s \in Sockets, Moves(s) PROVE HasItsHandler' /\ OthersAreSilent'
  BY <1>4 DEF Moves
<1>5. ASSUME NEW s \in Sockets, Closes(s) PROVE HasItsHandler' /\ OthersAreSilent'
  BY <1>5 DEF Closes
<1> QED
  BY <1>1, <1>2, <1>3, <1>4, <1>5, SocketEffect

-----------------------------------------------------------------------------
(* The timers.                                                             *)

LEMMA TryingStep == ASSUME TypeOK, TryingOrDeaf, [Next]_vars PROVE TryingOrDeaf'
<1> USE ConstantsAssumption DEF TryingOrDeaf, streamVars, timerVars, stateVars, historyVars
<1>1. CASE AppInitialize
  BY <1>1 DEF AppInitialize, NewSocket, Stream!Initialize, TypeOK
<1>2. CASE AppClose
  BY <1>2 DEF AppClose
<1>3. CASE ReconnectTimer
  BY <1>3 DEF ReconnectTimer, NewSocket, Stream!Initialize, TypeOK
<1>4. CASE PingAgain
  BY <1>4 DEF PingAgain
<1>5. CASE PingTimeout
  BY <1>5 DEF PingTimeout, Abandon, CloseHandler
<1>6. ASSUME NEW s \in Sockets, OnOpen(s) PROVE TryingOrDeaf'
  BY <1>6 DEF OnOpen
<1>7. ASSUME NEW s \in Sockets, Closing(s) PROVE TryingOrDeaf'
  BY <1>7 DEF Closing
<1>8. ASSUME NEW s \in Sockets, CloseEvent(s) PROVE TryingOrDeaf'
  BY <1>8 DEF CloseEvent, CloseHandler
<1>9. ASSUME NEW s \in Sockets, Pong(s) \/ Silence(s) PROVE TryingOrDeaf'
  BY <1>9 DEF Pong, Silence
<1>10. CASE Message
  BY <1>10 DEF Message, Abandon, CloseHandler
<1>11. CASE Online \/ Offline
  BY <1>11 DEF Online, Offline
<1>12. CASE UNCHANGED vars
  BY <1>12 DEF vars
<1> QED
  BY <1>1, <1>2, <1>3, <1>4, <1>5, <1>6, <1>7, <1>8, <1>9, <1>10, <1>11, <1>12 DEF Next

LEMMA WatchedStep == ASSUME Inv, [Next]_vars PROVE OpenIsWatched'
<1> USE ConstantsAssumption
    DEF Inv, TypeOK, OpenIsWatched, IsOpen, streamVars, socketVars, timerVars
<1>1. CASE AppInitialize
  BY <1>1 DEF AppInitialize, NewSocket, Stream!Initialize
<1>2. CASE AppClose
  BY <1>2 DEF AppClose, Stream!OnClose
<1>3. CASE ReconnectTimer
  BY <1>3 DEF ReconnectTimer, NewSocket, Stream!Initialize
<1>4. CASE PingAgain
  BY <1>4 DEF PingAgain
<1>5. CASE PingTimeout
  BY <1>5 DEF PingTimeout, Stream!OnClose
<1>6. ASSUME NEW s \in Sockets, OnOpen(s) PROVE OpenIsWatched'
  BY <1>6 DEF OnOpen
<1>7. ASSUME NEW s \in Sockets, Closing(s) PROVE OpenIsWatched'
  BY <1>7 DEF Closing
<1>8. ASSUME NEW s \in Sockets, CloseEvent(s) PROVE OpenIsWatched'
  BY <1>8 DEF CloseEvent
<1>9. ASSUME NEW s \in Sockets, Pong(s) \/ Silence(s) PROVE OpenIsWatched'
  BY <1>9 DEF Pong, Silence
<1>10. CASE Message
  <2>1. conn' \in {conn, NoSocket}
    BY <1>10, MessageEffect DEF TypeOK
  <2>2. CASE conn' = conn
    BY <1>10, <2>2 DEF Message
  <2> QED
    BY <2>1, <2>2
<1>11. CASE Online \/ Offline
  BY <1>11 DEF Online, Offline
<1>12. CASE UNCHANGED vars
  BY <1>12 DEF vars
<1> QED
  BY <1>1, <1>2, <1>3, <1>4, <1>5, <1>6, <1>7, <1>8, <1>9, <1>10, <1>11, <1>12 DEF Next

LEMMA RegainedStep == ASSUME Inv, [Next]_vars PROVE RegainedRunsReconnect'
<1> USE ConstantsAssumption
    DEF Inv, TypeOK, RegainedRunsReconnect, streamVars, socketVars, stateVars, historyVars
<1>1. CASE AppInitialize
  BY <1>1 DEF AppInitialize, NewSocket, Stream!Initialize
<1>2. CASE AppClose
  BY <1>2 DEF AppClose
<1>3. CASE ReconnectTimer
  BY <1>3 DEF ReconnectTimer, NewSocket, Stream!Initialize
<1>4. CASE PingAgain
  BY <1>4 DEF PingAgain
<1>5. CASE PingTimeout
  BY <1>5 DEF PingTimeout, Abandon, CloseHandler
<1>6. ASSUME NEW s \in Sockets, OnOpen(s) PROVE RegainedRunsReconnect'
  <2>1. conn = s
    BY <1>6 DEF OnOpen, OthersAreSilent
  <2> QED
    BY <1>6, <2>1 DEF OnOpen
<1>7. ASSUME NEW s \in Sockets, Closing(s) PROVE RegainedRunsReconnect'
  <2>1. conn = s \/ readyState'[conn] = readyState[conn]
    BY <1>7 DEF Closing
  <2> QED
    BY <1>7, <2>1 DEF Closing, OthersAreSilent
<1>8. ASSUME NEW s \in Sockets, CloseEvent(s) PROVE RegainedRunsReconnect'
  BY <1>8 DEF CloseEvent, CloseHandler, HasItsHandler
<1>9. ASSUME NEW s \in Sockets, Pong(s) \/ Silence(s) PROVE RegainedRunsReconnect'
  BY <1>9 DEF Pong, Silence
<1>10. CASE Message
  BY <1>10 DEF Message, Abandon, CloseHandler
<1>11. CASE Online \/ Offline
  BY <1>11 DEF Online, Offline
<1>12. CASE UNCHANGED vars
  BY <1>12 DEF vars
<1> QED
  BY <1>1, <1>2, <1>3, <1>4, <1>5, <1>6, <1>7, <1>8, <1>9, <1>10, <1>11, <1>12 DEF Next

LEMMA Invariance == Spec => []Inv
<1>1. Init => Inv
  BY InvInit
<1>2. Inv /\ [Next]_vars => Inv'
  <2> SUFFICES ASSUME Inv, [Next]_vars PROVE Inv'
    OBVIOUS
  <2>1. TypeOK' /\ HasItsHandler' /\ OthersAreSilent'
    BY TypeStep, SocketStep DEF Inv
  <2>2. TryingOrDeaf' /\ OpenIsWatched' /\ RegainedRunsReconnect'
    BY TryingStep, WatchedStep, RegainedStep DEF Inv
  <2> QED
    BY <2>1, <2>2 DEF Inv
<1> QED
  BY <1>1, <1>2, PTL DEF Spec

-----------------------------------------------------------------------------
(* The theorems.                                                           *)

THEOREM TypeCorrect == Spec => []TypeOK
BY Invariance, PTL DEF Inv

\* Wanted, the client has a connection or a timer that will make one, in whatever order
\* sockets close, pings expire and the network comes and goes.
THEOREM NeverIdle == Spec => []KeepsTrying
<1>1. Inv => KeepsTrying
  BY DEF Inv, TryingOrDeaf, KeepsTrying
<1> QED
  BY <1>1, Invariance, PTL

\* No socket but the client's own is open or may still open, so that no event is
\* delivered twice.
THEOREM OneLiveSocket == Spec => []NoForgottenSocket
<1>1. Inv => NoForgottenSocket
  BY DEF Inv, OthersAreSilent, NoForgottenSocket
<1> QED
  BY <1>1, Invariance, PTL

\* An open socket is watched by the ping interval.
THEOREM Watched == Spec => []OpenIsWatched
BY Invariance, PTL DEF Inv

\* A connection that is lost and regained is never taken for a first one.
THEOREM Regained == Spec => []RegainedRunsReconnect
BY Invariance, PTL DEF Inv

\* Once closed, the client stays closed until it is asked for a connection again.
LEMMA ClosedStep ==
    ASSUME Inv, [Next]_vars, ~ wanted, conn = NoSocket, ~ reconnectTimeout, ~ wanted'
    PROVE  conn' = NoSocket /\ ~ reconnectTimeout'
<1> USE DEF Inv, streamVars, timerVars, historyVars
<1>1. ~ AppInitialize /\ ~ AppClose /\ ~ ReconnectTimer
  BY DEF AppInitialize, AppClose, ReconnectTimer
<1>2. ~ Online
  BY DEF TryingOrDeaf, Online
<1>3. ~ Message /\ ~ IsOpen
  BY DEF Message, IsOpen
<1>4. CASE PingAgain \/ Offline
  BY <1>4 DEF PingAgain, Offline
<1>5. CASE PingTimeout
  BY <1>3, <1>5 DEF PingTimeout
<1>6. ASSUME NEW s \in Sockets, OnOpen(s) \/ Closing(s) \/ Pong(s) \/ Silence(s)
      PROVE  UNCHANGED <<conn, reconnectTimeout>>
  <2>1. CASE OnOpen(s) \/ Pong(s)
    BY <2>1 DEF OnOpen, Pong
  <2>2. CASE Closing(s) \/ Silence(s)
    BY <2>2 DEF Closing, Silence
  <2> QED
    BY <1>6, <2>1, <2>2
<1>7. ASSUME NEW s \in Sockets, CloseEvent(s)
      PROVE  conn' = NoSocket /\ ~ reconnectTimeout'
  <2>1. onclose[s] = "empty"
    BY <1>7, ConstantsAssumption DEF CloseEvent, OthersAreSilent, TypeOK
  <2> QED
    BY <1>7, <2>1 DEF CloseEvent
<1>8. CASE UNCHANGED vars
  BY <1>8 DEF vars
<1> QED
  BY <1>1, <1>2, <1>3, <1>4, <1>5, <1>6, <1>7, <1>8 DEF Next

THEOREM StaysClosed == Spec => ClosedStaysClosed
<1>1. Inv /\ [Next]_vars
        => [~ wanted /\ conn = NoSocket /\ ~ reconnectTimeout /\ ~ wanted'
              => conn' = NoSocket /\ ~ reconnectTimeout']_vars
  BY ClosedStep
<1> QED
  BY <1>1, Invariance, PTL DEF Spec, ClosedStaysClosed

-----------------------------------------------------------------------------
(* The client implements StreamClient: every step initializes it, closes   *)
(* its connection, takes a message, or leaves it alone.                    *)

LEMMA ClientStep == ASSUME Inv, [Next]_vars PROVE [Stream!ClientNext]_(Stream!clientVars)
<1> USE DEF Inv, TypeOK, streamVars, Stream!clientVars, Stream!ClientNext
<1>1. CASE AppInitialize \/ ReconnectTimer
  <2>1. UNCHANGED streamVars \/ \E s \in Sockets : Stream!Initialize(s)
    BY <1>1 DEF AppInitialize, ReconnectTimer, NewSocket
  <2> QED
    BY <2>1
<1>2. CASE AppClose \/ PingTimeout
  <2>1. UNCHANGED streamVars \/ Stream!OnClose
    BY <1>2 DEF AppClose, PingTimeout
  <2> QED
    BY <2>1
<1>3. ASSUME NEW s \in Sockets, CloseEvent(s)
      PROVE  UNCHANGED streamVars \/ Stream!OnClose
  <2>1. CASE onclose[s] = "empty"
    BY <1>3, <2>1 DEF CloseEvent
  <2>2. CASE onclose[s] = "handler"
    <3>1. conn = s /\ conn # NoSocket
      BY <1>3, <2>2, ConstantsAssumption DEF CloseEvent, OthersAreSilent
    <3> QED
      BY <1>3, <2>2, <3>1 DEF CloseEvent, Stream!OnClose
  <2> QED
    BY <2>1, <2>2
<1>4. CASE Message
  <2>1. PICK seq \in {serverSequence, 0, serverSequence + 1} :
           /\ seq < MaxSequence
           /\ Stream!OnEvent(seq) \/ \E id \in ConnIds : Stream!OnHello(id, seq)
    BY <1>4 DEF Message
  <2>2. seq \in 0..MaxSequence
    BY <2>1, ConstantsAssumption
  <2> QED
    BY <2>1, <2>2
<1>5. CASE PingAgain \/ Online \/ Offline
  BY <1>5 DEF PingAgain, Online, Offline
<1>6. ASSUME NEW s \in Sockets, OnOpen(s) \/ Closing(s) \/ Pong(s) \/ Silence(s)
      PROVE  UNCHANGED streamVars
  BY <1>6 DEF OnOpen, Closing, Pong, Silence
<1>7. CASE UNCHANGED vars
  BY <1>7 DEF vars
<1> QED
  BY <1>1, <1>2, <1>3, <1>4, <1>5, <1>6, <1>7 DEF Next

\* The client, timers and all, is the client ReliableWebSocket is built from.
THEOREM Implements == Spec => ImplementsStreamClient
<1>1. Init => Stream!ClientInit
  BY DEF Init
<1>2. Inv /\ [Next]_vars => [Stream!ClientNext]_(Stream!clientVars)
  BY ClientStep
<1> QED
  BY <1>1, <1>2, Invariance, PTL DEF Spec, ImplementsStreamClient, Stream!ClientSpec

-----------------------------------------------------------------------------
(* DeadQueueLog.                                                           *)

USE DeadQueueSizeAssumption, NilAssumption

\* The pointer goes round the buffer.
LEMMA NextPointerValue ==
    ASSUME NEW p \in Slot
    PROVE  NextPointer(p) = IF p = deadQueueSize - 1 THEN 0 ELSE p + 1
<1>1. CASE p = deadQueueSize - 1
  BY <1>1 DEF NextPointer, Slot
<1>2. CASE p < deadQueueSize - 1
  BY <1>2 DEF NextPointer, Slot
<1> QED
  BY <1>1, <1>2 DEF Slot

\* The log grows by its last element.
LEMMA AppendEvent ==
    ASSUME NEW l \in Seq(Event), NEW e \in Event
    PROVE  /\ Append(l, e) \in Seq(Event)
           /\ Len(l) \in Nat
           /\ Len(Append(l, e)) = Len(l) + 1
           /\ Append(l, e)[Len(l) + 1] = e
           /\ \A i \in 1 .. Len(l) : Append(l, e)[i] = l[i] /\ l[i] \in Event
OBVIOUS

LEMMA EventNumber == \A l \in Seq(Event) : \A p \in 1 .. Len(l) : l[p].seq \in Nat
<1>1. \A e \in Event : e.seq \in Nat
  BY DEF Event
<1>2. \A l \in Seq(Event) : \A p \in 1 .. Len(l) : l[p] \in Event
  OBVIOUS
<1> QED BY <1>1, <1>2

LogInv == LogTypeOK /\ LogIncreasing /\ RingMatchesLog

LEMMA LogInvInit == LogInit => LogInv
BY DEF LogInit, LogInv, LogTypeOK, LogIncreasing, RingMatchesLog, EmptyQueue, Slot, Event

LEMMA WriteInv == LogInv /\ Write => LogInv'
<1> SUFFICES ASSUME LogTypeOK, LogIncreasing, RingMatchesLog, Write
             PROVE  LogTypeOK' /\ LogIncreasing' /\ RingMatchesLog'
  BY DEF LogInv
<1> DEFINE evt == [seq |-> Sequence]
           p == deadQueuePointer
<1>1. /\ evt \in Event
      /\ deadQueue' = [deadQueue EXCEPT ![p] = evt]
      /\ log' = Append(log, evt)
      /\ p' = NextPointer(p)
      /\ Sequence' = Sequence + 1
  BY DEF Write, LogTypeOK, Event, addToDeadQueue
<1>2. p \in Slot /\ Sequence \in Nat /\ log \in Seq(Event) /\ deadQueue \in [Slot -> Event \cup {Nil}]
  BY DEF LogTypeOK
<1>3. p' = IF p = deadQueueSize - 1 THEN 0 ELSE p + 1
  BY <1>1, <1>2, NextPointerValue
<1>4. /\ log' \in Seq(Event) /\ Len(log) \in Nat /\ Len(log') = Len(log) + 1
      /\ log'[Len(log) + 1] = evt
      /\ \A i \in 1 .. Len(log) : log'[i] = log[i] /\ log[i] \in Event
  BY <1>1, <1>2, AppendEvent
<1>5. LogTypeOK'
  BY <1>1, <1>2, <1>3, <1>4 DEF LogTypeOK, Slot
<1>6. LogIncreasing'
  <2>1. \A i \in 1 .. Len(log') : (i \in 1 .. Len(log) /\ log'[i] = log[i]) \/ i = Len(log) + 1
    BY <1>4
  <2>2. evt.seq = Sequence /\ \A i \in 1 .. Len(log) : log[i].seq \in Nat
    BY <1>4 DEF Event
  <2>3. /\ \A i \in 1 .. Len(log) : log[i].seq < Sequence
        /\ \A i, j \in 1 .. Len(log) : i < j => log[i].seq < log[j].seq
    BY DEF LogIncreasing
  <2> HIDE DEF evt, p
  <2>4. \A i \in 1 .. Len(log') : log'[i].seq < Sequence'
    BY <1>1, <1>2, <1>4, <2>1, <2>2, <2>3
  <2>5. ASSUME NEW i \in 1 .. Len(log'), NEW j \in 1 .. Len(log'), i < j
        PROVE  log'[i].seq < log'[j].seq
    BY <1>1, <1>2, <1>4, <2>1, <2>2, <2>3, <2>5
  <2> QED BY <2>4, <2>5 DEF LogIncreasing
<1>7. RingMatchesLog'
  <2>1. CASE Len(log) < deadQueueSize
    <3>1. /\ p = Len(log)
          /\ \A i \in Slot : deadQueue[i] = IF i < Len(log) THEN log[i + 1] ELSE Nil
      BY <1>4, <2>1 DEF RingMatchesLog
    <3>2. \A i \in Slot : deadQueue'[i] = IF i < Len(log') THEN log'[i + 1] ELSE Nil
      BY <1>1, <1>2, <1>4, <2>1, <3>1 DEF Slot
    <3>3. CASE p < deadQueueSize - 1
      <4>1. p' = Len(log') /\ Len(log') < deadQueueSize
        BY <1>3, <1>4, <3>1, <3>3
      <4> QED BY <3>2, <4>1 DEF RingMatchesLog
    <3>4. CASE p = deadQueueSize - 1
      <4>1. p' = 0 /\ Len(log') = deadQueueSize
        BY <1>3, <1>4, <3>1, <3>4
      <4>2. \A i \in Slot : deadQueue'[i] = log'[i + 1]
        BY <3>2, <4>1 DEF Slot
      <4>3. \A i \in Slot : ~ (i < p') /\ Len(log') - p' - deadQueueSize + i + 1 = i + 1
        BY <4>1 DEF Slot
      <4> QED BY <4>1, <4>2, <4>3 DEF RingMatchesLog
    <3> QED BY <1>2, <3>3, <3>4 DEF Slot
  <2>2. CASE Len(log) >= deadQueueSize
    <3>1. \A i \in Slot : deadQueue[i] = IF i < p THEN log[Len(log) - p + i + 1]
                                         ELSE log[Len(log) - p - deadQueueSize + i + 1]
      BY <1>4, <2>2 DEF RingMatchesLog
    <3>2. \A i \in Slot \ {p} : deadQueue'[i] = IF i < p THEN log'[Len(log) - p + i + 1]
                                                ELSE log'[Len(log) - p - deadQueueSize + i + 1]
      <4> SUFFICES ASSUME NEW i \in Slot \ {p}
                   PROVE  deadQueue'[i] = IF i < p THEN log'[Len(log) - p + i + 1]
                                          ELSE log'[Len(log) - p - deadQueueSize + i + 1]
        OBVIOUS
      <4>1. deadQueue'[i] = deadQueue[i]
        BY <1>1, <1>2
      <4>2. /\ i < p => Len(log) - p + i + 1 \in 1 .. Len(log)
            /\ ~ (i < p) => Len(log) - p - deadQueueSize + i + 1 \in 1 .. Len(log)
        BY <1>2, <1>4, <2>2 DEF Slot
      <4> QED BY <1>4, <3>1, <4>1, <4>2
    <3>3. deadQueue'[p] = log'[Len(log) + 1]
      BY <1>1, <1>2, <1>4
    <3>4. \A i \in Slot : deadQueue'[i] = IF i < p' THEN log'[Len(log') - p' + i + 1]
                                          ELSE log'[Len(log') - p' - deadQueueSize + i + 1]
      <4>1. CASE p = deadQueueSize - 1
        <5> SUFFICES ASSUME NEW i \in Slot
                     PROVE  deadQueue'[i] = log'[Len(log') - deadQueueSize + i + 1]
          BY <1>3, <4>1 DEF Slot
        <5>1. CASE i = p
          BY <1>4, <3>3, <4>1, <5>1
        <5>2. CASE i # p
          <6>1. i < p /\ Len(log) - p + i + 1 = Len(log') - deadQueueSize + i + 1
            BY <1>2, <1>4, <4>1, <5>2 DEF Slot
          <6> QED BY <3>2, <5>2, <6>1
        <5> QED BY <5>1, <5>2
      <4>2. CASE p < deadQueueSize - 1
        <5> SUFFICES ASSUME NEW i \in Slot
                     PROVE  deadQueue'[i] = IF i < p + 1 THEN log'[Len(log) - p + i + 1]
                                            ELSE log'[Len(log) - p - deadQueueSize + i + 1]
          <6>1. p' = p + 1 /\ p \in Nat
            BY <1>2, <1>3, <4>2 DEF Slot
          <6>2. \A i \in Slot : /\ Len(log') - p' + i + 1 = Len(log) - p + i + 1
                                /\ Len(log') - p' - deadQueueSize + i + 1
                                     = Len(log) - p - deadQueueSize + i + 1
            BY <1>4, <6>1 DEF Slot
          <6> QED BY <6>1, <6>2
        <5>1. CASE i = p
          BY <1>2, <1>4, <3>3, <5>1 DEF Slot
        <5>2. CASE i # p
          <6>1. i < p <=> i < p + 1
            BY <1>2, <5>2 DEF Slot
          <6> QED BY <3>2, <5>2, <6>1
        <5> QED BY <5>1, <5>2
      <4> QED BY <1>2, <4>1, <4>2 DEF Slot
    <3> QED BY <1>4, <2>2, <3>4 DEF RingMatchesLog
  <2> QED BY <1>4, <2>1, <2>2
<1> QED BY <1>5, <1>6, <1>7

LEMMA NextInv == LogInv /\ [LogNext]_logVars => LogInv'
<1> SUFFICES ASSUME LogInv, [LogNext]_logVars PROVE LogInv'
  OBVIOUS
<1>1. CASE Write
  BY <1>1, WriteInv
<1>2. CASE EncodeError
  <2>1. /\ Sequence \in Nat /\ Sequence' = Sequence + 1
        /\ log \in Seq(Event)
        /\ UNCHANGED <<deadQueue, deadQueuePointer, log>>
    BY <1>2 DEF EncodeError, LogInv, LogTypeOK
  <2>2. \A p \in 1 .. Len(log) : log[p].seq \in Nat
    BY <2>1, EventNumber
  <2>3. LogIncreasing'
    BY <2>1, <2>2 DEF LogInv, LogIncreasing
  <2>4. LogTypeOK' /\ RingMatchesLog'
    BY <2>1 DEF LogInv, LogTypeOK, RingMatchesLog
  <2> QED BY <2>3, <2>4 DEF LogInv
<1>3. CASE Clear
  BY <1>3 DEF Clear, LogInv, LogTypeOK, LogIncreasing, RingMatchesLog, EmptyQueue, Slot
<1>4. CASE UNCHANGED logVars
  BY <1>4 DEF logVars, LogInv, LogTypeOK, LogIncreasing, RingMatchesLog
<1> QED BY <1>1, <1>2, <1>3, <1>4 DEF LogNext

\* The buffer holds events or nothing, the pointer stays inside it, and the log
\* is a sequence of events (web_conn.go:88-149).
THEOREM LogTypeCorrect == LogSpec => []LogTypeOK
<1>1. LogInv => LogTypeOK
  BY DEF LogInv
<1> QED BY LogInvInit, NextInv, <1>1, PTL DEF LogSpec

\* Through any number of roll-overs the buffer holds the newest events of the
\* log, each in its place (web_conn.go:657-660).
THEOREM RingIsTheLogsEnd == LogSpec => []RingMatchesLog
<1>1. LogInv => RingMatchesLog
  BY DEF LogInv
<1> QED BY LogInvInit, NextInv, <1>1, PTL DEF LogSpec

-----------------------------------------------------------------------------
\* Where the events kept in the buffer are: slot and place in the log.
LEMMA SlotsAndPlaces ==
    ASSUME LogInv
    PROVE  /\ Len(log) \in Nat /\ deadQueuePointer \in Slot /\ OldestKept \in Nat \ {0}
           /\ \A i \in 1 .. Len(log) : log[i] \in Event /\ log[i] # Nil
           /\ \A i \in Slot : deadQueue[i] # Nil =>
                \E p \in OldestKept .. Len(log) : deadQueue[i] = log[p]
           /\ \A p \in OldestKept .. Len(log) : \E i \in Slot :
                deadQueue[i] = log[p] /\ \A j \in 0 .. i : deadQueue[j] # Nil
           /\ \A i, j \in Slot : i # j /\ deadQueue[i] # Nil /\ deadQueue[j] # Nil
                => deadQueue[i].seq # deadQueue[j].seq
           /\ log = <<>> <=> deadQueuePointer = 0 /\ deadQueue[0] = Nil
           /\ log # <<>> => deadQueue[LastSlot(deadQueuePointer)] = log[Len(log)]
<1>1. /\ log \in Seq(Event) /\ deadQueuePointer \in Slot
      /\ Len(log) \in Nat /\ \A i \in 1 .. Len(log) : log[i] \in Event /\ log[i] # Nil
      /\ log = <<>> <=> Len(log) = 0
  BY DEF LogInv, LogTypeOK
<1>0. \A p, q \in 1 .. Len(log) : p # q => log[p].seq # log[q].seq
  <2> SUFFICES ASSUME NEW p \in 1 .. Len(log), NEW q \in 1 .. Len(log), p < q
               PROVE  log[p].seq # log[q].seq
    BY <1>1
  <2> QED BY <1>1 DEF LogInv, LogIncreasing, Event
<1>2. CASE Len(log) < deadQueueSize
  <2>1. deadQueuePointer = Len(log) /\ \A i \in Slot : deadQueue[i] = IF i < Len(log) THEN log[i + 1] ELSE Nil
    BY <1>1, <1>2 DEF LogInv, RingMatchesLog
  <2>2. OldestKept = 1
    BY <1>2 DEF OldestKept
  <2>3. \A i \in Slot : deadQueue[i] # Nil => i + 1 \in 1 .. Len(log) /\ deadQueue[i] = log[i + 1]
    BY <1>1, <2>1 DEF Slot
  <2>4. ASSUME NEW p \in 1 .. Len(log)
        PROVE  /\ p - 1 \in Slot /\ deadQueue[p - 1] = log[p]
               /\ \A j \in 0 .. p - 1 : deadQueue[j] # Nil
    BY <1>1, <1>2, <2>1 DEF Slot
  <2>5. log = <<>> <=> deadQueuePointer = 0 /\ deadQueue[0] = Nil
    BY <1>1, <2>1 DEF Slot
  <2>6. log # <<>> => deadQueue[LastSlot(deadQueuePointer)] = log[Len(log)]
    BY <1>1, <2>1, <2>4 DEF LastSlot
  <2>7. \A i, j \in Slot : i # j /\ deadQueue[i] # Nil /\ deadQueue[j] # Nil
                => deadQueue[i].seq # deadQueue[j].seq
    BY <1>0, <2>3 DEF Slot
  <2>8. ASSUME NEW i \in Slot, deadQueue[i] # Nil
        PROVE  \E p \in OldestKept .. Len(log) : deadQueue[i] = log[p]
    BY <2>2, <2>3, <2>8
  <2>9. ASSUME NEW p \in OldestKept .. Len(log)
        PROVE  \E i \in Slot : deadQueue[i] = log[p] /\ \A j \in 0 .. i : deadQueue[j] # Nil
    <3>1. p \in 1 .. Len(log)
      BY <2>2
    <3> QED BY <2>4, <3>1
  <2>10. OldestKept \in Nat \ {0}
    BY <2>2
  <2> QED BY <1>1, <2>5, <2>6, <2>7, <2>8, <2>9, <2>10
<1>3. CASE Len(log) >= deadQueueSize
  <2> DEFINE ptr == deadQueuePointer
             Place(i) == IF i < ptr THEN Len(log) - ptr + i + 1 ELSE Len(log) - ptr - deadQueueSize + i + 1
             Where(p) == IF p > Len(log) - ptr THEN p - Len(log) + ptr - 1
                                               ELSE p - Len(log) + ptr + deadQueueSize - 1
  <2>1. \A i \in Slot : deadQueue[i] = log[Place(i)]
    BY <1>1, <1>3 DEF LogInv, RingMatchesLog
  <2>2. OldestKept = Len(log) - deadQueueSize + 1 /\ OldestKept \in Nat \ {0}
    BY <1>1, <1>3 DEF OldestKept
  <2>3. \A i \in Slot : Place(i) \in OldestKept .. Len(log) /\ Place(i) \in 1 .. Len(log)
    BY <1>1, <1>3, <2>2 DEF Slot
  <2>4. \A p \in OldestKept .. Len(log) : Where(p) \in Slot /\ Place(Where(p)) = p
    BY <1>1, <1>3, <2>2 DEF Slot
  <2>5. LastSlot(ptr) \in Slot /\ Place(LastSlot(ptr)) = Len(log)
    BY <1>1, <1>3 DEF LastSlot, Slot
  <2>6. \A i \in Slot : deadQueue[i] # Nil
    BY <1>1, <2>1, <2>3
  <2>7. log # <<>> /\ deadQueue[0] # Nil
    BY <1>1, <1>3, <2>6 DEF Slot
  <2>8. \A i \in Slot : \A j \in 0 .. i : j \in Slot
    BY DEF Slot
  <2>9. \A i, j \in Slot : i # j => Place(i) # Place(j)
    BY <1>1, <1>3 DEF Slot
  <2> HIDE DEF Place, Where
  <2>10. \A i, j \in Slot : i # j => deadQueue[i].seq # deadQueue[j].seq
    BY <1>0, <2>1, <2>3, <2>9
  <2> QED BY <1>1, <2>1, <2>2, <2>3, <2>4, <2>5, <2>6, <2>7, <2>8, <2>10
<1> QED BY <1>1, <1>2, <1>3

\* The number of an event in the buffer is found.
LEMMA KeptIsFound ==
    ASSUME LogInv, NEW p \in OldestKept .. Len(log)
    PROVE  isInDeadQueue(deadQueue, log[p].seq)
<1>1. PICK i \in Slot : deadQueue[i] = log[p] /\ \A j \in 0 .. i : deadQueue[j] # Nil
  BY SlotsAndPlaces
<1>2. ASSUME NEW j \in 0 .. i - 1 PROVE deadQueue[j].seq # log[p].seq
  <2>1. j \in Slot /\ j # i /\ j \in 0 .. i /\ i \in 0 .. i
    BY DEF Slot
  <2> QED BY <1>1, <2>1, SlotsAndPlaces
<1> QED BY <1>1, <1>2 DEF isInDeadQueue, IsSlotOf

\* isInDeadQueue finds exactly the numbers of the events the buffer still holds
\* (web_conn.go:702-716).
THEOREM SearchIsExact == LogSpec => []FindsExactlyTheKept
<1>1. LogInv => FindsExactlyTheKept
  <2> SUFFICES ASSUME LogInv, NEW seq \in 0 .. Sequence
               PROVE  isInDeadQueue(deadQueue, seq) <=>
                        \E p \in OldestKept .. Len(log) : log[p].seq = seq
    BY DEF FindsExactlyTheKept
  <2>1. ASSUME isInDeadQueue(deadQueue, seq)
        PROVE  \E p \in OldestKept .. Len(log) : log[p].seq = seq
    <3>1. PICK i \in Slot : IsSlotOf(deadQueue, seq, i)
      BY <2>1 DEF isInDeadQueue
    <3>2. i \in 0 .. i
      BY DEF Slot
    <3>3. deadQueue[i] # Nil /\ deadQueue[i].seq = seq
      BY <3>1, <3>2 DEF IsSlotOf
    <3> QED BY <3>3, SlotsAndPlaces
  <2>2. ASSUME NEW p \in OldestKept .. Len(log), log[p].seq = seq
        PROVE  isInDeadQueue(deadQueue, seq)
    BY <2>2, KeptIsFound
  <2> QED BY <2>1, <2>2
<1> QED BY LogInvInit, NextInv, <1>1, PTL DEF LogSpec

\* A reconnecting client that is told nothing was lost has been sent every event
\* there is (web_conn.go:664-697).
THEOREM NoLossMeansUpToDate == LogSpec => []LosslessMeansUpToDate
<1>1. LogInv => LosslessMeansUpToDate
  <2> SUFFICES ASSUME LogInv, NEW seq \in 0 .. Sequence,
                      ~ hasMsgLoss(deadQueue, deadQueuePointer, seq), NEW p \in 1 .. Len(log)
               PROVE  log[p].seq < seq
    BY DEF LosslessMeansUpToDate
  <2>1. log # <<>> /\ Len(log) \in Nat /\ log[p] \in Event /\ log[Len(log)] \in Event
    BY SlotsAndPlaces DEF LogInv, LogTypeOK
  <2>2. log[Len(log)].seq = seq - 1
    BY <2>1, SlotsAndPlaces DEF hasMsgLoss
  <2>3. p < Len(log) => log[p].seq < log[Len(log)].seq
    BY <2>1 DEF LogInv, LogIncreasing
  <2> QED BY <2>1, <2>2, <2>3 DEF Event
<1> QED BY LogInvInit, NextInv, <1>1, PTL DEF LogSpec
-----------------------------------------------------------------------------
(* Draining *)

LEMMA ModuloOnce ==
    ASSUME NEW k \in 0 .. 2 * deadQueueSize - 1
    PROVE  k % deadQueueSize = IF k < deadQueueSize THEN k ELSE k - deadQueueSize
<1>1. CASE k < deadQueueSize
  BY <1>1
<1>2. CASE k >= deadQueueSize
  <2>1. k - deadQueueSize \in 0 .. deadQueueSize - 1
    BY <1>2
  <2> QED BY <1>2, <2>1
<1> QED BY <1>1, <1>2

LEMMA ModuloSum ==
    \A i, m \in Nat :
        i + m \in 0 .. 2 * deadQueueSize - 1
        => (i + m) % deadQueueSize = IF i + m < deadQueueSize THEN i + m ELSE i + m - deadQueueSize
<1>1. \A k \in 0 .. 2 * deadQueueSize - 1 :
        k % deadQueueSize = IF k < deadQueueSize THEN k ELSE k - deadQueueSize
  BY ModuloOnce
<1> SUFFICES ASSUME NEW i \in Nat, NEW m \in Nat, NEW k \in 0 .. 2 * deadQueueSize - 1, k = i + m
             PROVE  k % deadQueueSize = IF k < deadQueueSize THEN k ELSE k - deadQueueSize
  OBVIOUS
<1> QED BY <1>1

LEMMA RolledOverIsFull ==
    ASSUME LogInv, Len(log) >= deadQueueSize
    PROVE  \A i \in Slot : deadQueue[i] # Nil
<1>1. /\ log \in Seq(Event) /\ deadQueuePointer \in Slot
      /\ Len(log) \in Nat /\ \A i \in 1 .. Len(log) : log[i] \in Event /\ log[i] # Nil
  BY DEF LogInv, LogTypeOK
<1> DEFINE ptr == deadQueuePointer
           Place(i) == IF i < ptr THEN Len(log) - ptr + i + 1 ELSE Len(log) - ptr - deadQueueSize + i + 1
<1>2. \A i \in Slot : deadQueue[i] = log[Place(i)]
  BY <1>1 DEF LogInv, RingMatchesLog
<1>3. \A i \in Slot : Place(i) \in 1 .. Len(log)
  BY <1>1 DEF Slot
<1> QED BY <1>1, <1>2, <1>3

LEMMA LogIsInjective ==
    ASSUME LogInv
    PROVE  \A p, q \in 1 .. Len(log) : log[p] = log[q] => p = q
<1>1. Len(log) \in Nat /\ \A p \in 1 .. Len(log) : log[p].seq \in Nat
  BY EventNumber DEF LogInv, LogTypeOK
<1> SUFFICES ASSUME NEW p \in 1 .. Len(log), NEW q \in 1 .. Len(log), p < q
             PROVE  log[p].seq # log[q].seq
  BY <1>1
<1> QED BY <1>1 DEF LogInv, LogIncreasing

\* The slot found for a number kept is that of its event, and every slot up to it
\* is filled.
LEMMA IndexFound ==
    ASSUME LogInv, NEW p \in OldestKept .. Len(log)
    PROVE  LET index == IndexInDeadQueue(deadQueue, log[p].seq)
           IN  index \in Slot /\ deadQueue[index] = log[p]
<1> DEFINE index == IndexInDeadQueue(deadQueue, log[p].seq)
<1>1. isInDeadQueue(deadQueue, log[p].seq)
  BY KeptIsFound
<1>2. index \in Slot /\ IsSlotOf(deadQueue, log[p].seq, index)
  BY <1>1 DEF isInDeadQueue, IndexInDeadQueue
<1>3. index \in 0 .. index
  BY <1>2 DEF Slot
<1>4. deadQueue[index] # Nil /\ deadQueue[index].seq = log[p].seq
  BY <1>2, <1>3 DEF IsSlotOf
<1>5. PICK i \in Slot : deadQueue[i] = log[p] /\ \A j \in 0 .. i : deadQueue[j] # Nil
  BY SlotsAndPlaces
<1>6. i \in 0 .. i
  BY DEF Slot
<1>7. i = index
  BY <1>2, <1>4, <1>5, <1>6, SlotsAndPlaces
<1> QED BY <1>2, <1>5, <1>7
\* From the slot of the p-th event on, the buffer holds the events p, p+1, ...;
\* after the newest one it goes on with the oldest, if it has rolled over.
LEMMA SlotsAhead ==
    ASSUME LogInv, NEW p \in OldestKept .. Len(log),
           NEW index \in Slot, deadQueue[index] = log[p]
    PROVE  /\ Len(log) \in Nat /\ p \in 1 .. Len(log)
           /\ \A m \in 0 .. Len(log) - p : deadQueue[(index + m) % deadQueueSize] = log[p + m]
           /\ Len(log) < deadQueueSize => deadQueuePointer = Len(log) /\ index = p - 1
           /\ Len(log) >= deadQueueSize =>
                /\ deadQueue[(index + Len(log) - p + 1) % deadQueueSize] = log[Len(log) - deadQueueSize + 1]
                /\ Len(log) - p + 1 \in 1 .. deadQueueSize
                /\ Len(log) - deadQueueSize + 1 \in 1 .. Len(log) - 1
<1>1. /\ Len(log) \in Nat /\ OldestKept \in Nat \ {0} /\ deadQueuePointer \in Slot
      /\ p \in 1 .. Len(log)
      /\ \A i \in 1 .. Len(log) : log[i] # Nil
  BY SlotsAndPlaces
<1>0. \A q, r \in 1 .. Len(log) : log[q] = log[r] => q = r
  BY <1>1, LogIsInjective
<1>2. CASE Len(log) < deadQueueSize
  <2>1. deadQueuePointer = Len(log) /\ \A i \in Slot : deadQueue[i] = IF i < Len(log) THEN log[i + 1] ELSE Nil
    BY <1>1, <1>2 DEF LogInv, RingMatchesLog
  <2>2. index < Len(log)
    BY <1>1, <2>1
  <2>3. index + 1 \in 1 .. Len(log) /\ deadQueue[index] = log[index + 1]
    BY <1>1, <2>1, <2>2 DEF Slot
  <2>4. index + 1 = p
    BY <1>0, <1>1, <2>3
  <2>5. ASSUME NEW m \in 0 .. Len(log) - p PROVE deadQueue[(index + m) % deadQueueSize] = log[p + m]
    <3>1. /\ index + m \in 0 .. 2 * deadQueueSize - 1 /\ index + m < deadQueueSize
          /\ index + m \in Slot /\ index + m < Len(log) /\ index + m + 1 = p + m
      BY <1>1, <1>2, <2>4 DEF Slot
    <3>2. (index + m) % deadQueueSize = index + m
      BY <3>1, ModuloOnce
    <3> QED BY <2>1, <3>1, <3>2
  <2> QED BY <1>1, <1>2, <2>1, <2>4, <2>5 DEF Slot
<1>3. CASE Len(log) >= deadQueueSize
  <2> DEFINE ptr == deadQueuePointer
             Place(i) == IF i < ptr THEN Len(log) - ptr + i + 1 ELSE Len(log) - ptr - deadQueueSize + i + 1
             At(m) == IF index + m < deadQueueSize THEN index + m ELSE index + m - deadQueueSize
  <2>1. \A i \in Slot : deadQueue[i] = log[Place(i)]
    BY <1>1, <1>3 DEF LogInv, RingMatchesLog
  <2>2. OldestKept = Len(log) - deadQueueSize + 1
    BY <1>1, <1>3 DEF OldestKept
  <2>3. \A i \in Slot : Place(i) \in 1 .. Len(log)
    BY <1>1, <1>3 DEF Slot
  <2>4. Place(index) = p
    BY <1>0, <1>1, <2>1, <2>3
  <2>5. /\ Len(log) - p + 1 \in 1 .. deadQueueSize
        /\ Len(log) - deadQueueSize + 1 \in 1 .. Len(log) - 1
    BY <1>1, <1>3, <2>2
  <2>6. ASSUME NEW m \in 0 .. deadQueueSize
        PROVE  (index + m) % deadQueueSize = At(m) /\ At(m) \in Slot
    <3>1. index + m \in 0 .. 2 * deadQueueSize - 1
      BY DEF Slot
    <3>2. (index + m) % deadQueueSize = At(m)
      BY <3>1, ModuloSum DEF Slot
    <3>3. At(m) \in Slot
      BY <3>1 DEF Slot
    <3> QED BY <3>2, <3>3
  <2>7. ASSUME NEW m \in 0 .. Len(log) - p PROVE deadQueue[(index + m) % deadQueueSize] = log[p + m]
    <3>1. m \in 0 .. deadQueueSize
      BY <1>1, <2>5
    <3>0. Len(log) \in Nat /\ p \in Int /\ index \in Slot /\ ptr \in Slot /\ m <= Len(log) - p
      BY <1>1
    <3>2. Place(At(m)) = p + m
      <4>1. CASE index < ptr
        <5>1. p = Len(log) - ptr + index + 1 /\ index + m < ptr
          BY <2>4, <3>0, <4>1 DEF Slot
        <5> QED BY <3>0, <5>1 DEF Slot
      <4>2. CASE ~ (index < ptr)
        <5>1. p = Len(log) - ptr - deadQueueSize + index + 1 /\ index + m < ptr + deadQueueSize
          BY <2>4, <3>0, <4>2 DEF Slot
        <5> QED BY <3>0, <3>1, <4>2, <5>1 DEF Slot
      <4> QED BY <4>1, <4>2
    <3> QED BY <2>1, <2>6, <3>1, <3>2
  <2>8. deadQueue[(index + Len(log) - p + 1) % deadQueueSize] = log[Len(log) - deadQueueSize + 1]
    <3> DEFINE m == Len(log) - p + 1
    <3>1. m \in 0 .. deadQueueSize
      BY <2>5
    <3>0. Len(log) \in Nat /\ p \in Int /\ index \in Slot /\ ptr \in Slot
      BY <1>1
    <3>2. At(m) = ptr
      <4>1. CASE index < ptr
        <5>1. index + m = ptr
          BY <2>4, <3>0, <4>1 DEF Slot
        <5> QED BY <3>0, <5>1 DEF Slot
      <4>2. CASE ~ (index < ptr)
        <5>1. index + m = ptr + deadQueueSize
          BY <2>4, <3>0, <4>2 DEF Slot
        <5> QED BY <3>0, <5>1 DEF Slot
      <4> QED BY <4>1, <4>2
    <3>4. Place(ptr) = Len(log) - deadQueueSize + 1
      BY <3>0 DEF Slot
    <3>3. index + Len(log) - p + 1 = index + m
      BY <1>1 DEF Slot
    <3> HIDE DEF m, At, Place
    <3> QED BY <2>1, <2>6, <3>0, <3>1, <3>2, <3>3, <3>4
  <2> QED BY <1>1, <1>3, <2>5, <2>7, <2>8
<1> QED BY <1>1, <1>2, <1>3

\* drainDeadQueue writes exactly the events from the wanted one to the newest
\* (web_conn.go:731-763).
THEOREM DrainIsExact == LogSpec => []DrainsTheRest
<1>1. LogInv => DrainsTheRest
  <2> SUFFICES ASSUME LogInv, NEW p \in OldestKept .. Len(log)
               PROVE  drainDeadQueue(deadQueue, deadQueuePointer,
                                     IndexInDeadQueue(deadQueue, log[p].seq)) = Rest(p)
    BY DEF DrainsTheRest
  <2> DEFINE index == IndexInDeadQueue(deadQueue, log[p].seq)
             rest == Len(log) - p + 1
  <2>1. index \in Slot /\ deadQueue[index] = log[p]
    BY IndexFound
  <2> HIDE DEF index
  <2>2. /\ Len(log) \in Nat /\ p \in 1 .. Len(log)
        /\ \A m \in 0 .. Len(log) - p : deadQueue[(index + m) % deadQueueSize] = log[p + m]
    BY <2>1, SlotsAhead
  <2>3. /\ log # <<>>
        /\ \A i \in 1 .. Len(log) : log[i] # Nil /\ log[i].seq \in Nat
        /\ \A q, r \in 1 .. Len(log) : q < r => log[q].seq < log[r].seq
    BY <2>2, SlotsAndPlaces, EventNumber DEF LogInv, LogTypeOK, LogIncreasing
  <2>4. DrainLength(deadQueue, deadQueuePointer, index) = rest
    <3>1. CASE Len(log) < deadQueueSize
      <4>1. deadQueuePointer = Len(log) /\ index = p - 1
        BY <2>1, <3>1, SlotsAhead
      <4>2. deadQueue[0] # Nil /\ deadQueue[deadQueuePointer] = Nil
        BY <2>2, <2>3, <3>1, <4>1 DEF LogInv, RingMatchesLog, Slot
      <4> QED BY <2>2, <4>1, <4>2 DEF DrainLength
    <3>2. CASE Len(log) >= deadQueueSize
      <4> DEFINE Drop(n) == deadQueue[(index + n - 1) % deadQueueSize].seq
                              > deadQueue[(index + n) % deadQueueSize].seq
      <4>1. /\ deadQueue[(index + Len(log) - p + 1) % deadQueueSize] = log[Len(log) - deadQueueSize + 1]
            /\ rest \in 1 .. deadQueueSize
            /\ Len(log) - deadQueueSize + 1 \in 1 .. Len(log) - 1
        BY <2>1, <3>2, SlotsAhead
      <4>2. deadQueue[0] # Nil /\ deadQueue[deadQueuePointer] # Nil
        <5>1. \A i \in Slot : deadQueue[i] # Nil
          BY <2>2, <3>2, RolledOverIsFull
        <5> QED BY <5>1 DEF LogInv, LogTypeOK, Slot
      <4>3. \A m \in 1 .. rest - 1 :
              /\ deadQueue[(index + m - 1) % deadQueueSize] = log[p + m - 1]
              /\ deadQueue[(index + m) % deadQueueSize] = log[p + m]
        <5> SUFFICES ASSUME NEW m \in 1 .. rest - 1
                     PROVE  /\ deadQueue[(index + m - 1) % deadQueueSize] = log[p + m - 1]
                            /\ deadQueue[(index + m) % deadQueueSize] = log[p + m]
          OBVIOUS
        <5>1. m \in 0 .. Len(log) - p /\ m - 1 \in 0 .. Len(log) - p
          BY <2>2
        <5>2. index + (m - 1) = index + m - 1 /\ p + (m - 1) = p + m - 1
          BY <2>1, <2>2 DEF Slot
        <5>3. deadQueue[(index + (m - 1)) % deadQueueSize] = log[p + (m - 1)]
          BY <2>2, <5>1
        <5> QED BY <2>2, <5>1, <5>2, <5>3
      <4>4. \A m \in 1 .. rest - 1 :
              deadQueue[(index + m - 1) % deadQueueSize].seq <= deadQueue[(index + m) % deadQueueSize].seq
        <5> SUFFICES ASSUME NEW m \in 1 .. rest - 1 PROVE log[p + m - 1].seq <= log[p + m].seq
          BY <4>3
        <5>1. p + m - 1 \in 1 .. Len(log) /\ p + m \in 1 .. Len(log) /\ p + m - 1 < p + m
          BY <2>2
        <5> QED BY <2>3, <5>1
      <4>5. Drop(rest)
        <5>1. deadQueue[(index + (Len(log) - p)) % deadQueueSize] = log[p + (Len(log) - p)]
          BY <2>2
        <5>2. /\ index + (Len(log) - p) = index + rest - 1 /\ p + (Len(log) - p) = Len(log)
              /\ index + rest = index + Len(log) - p + 1
          BY <2>1, <2>2 DEF Slot
        <5>3. log[Len(log)].seq > log[Len(log) - deadQueueSize + 1].seq
          <6>1. /\ Len(log) \in 1 .. Len(log) /\ Len(log) - deadQueueSize + 1 \in 1 .. Len(log)
                /\ Len(log) - deadQueueSize + 1 < Len(log)
            BY <2>2, <4>1
          <6>2. /\ log[Len(log)].seq \in Nat /\ log[Len(log) - deadQueueSize + 1].seq \in Nat
                /\ log[Len(log) - deadQueueSize + 1].seq < log[Len(log)].seq
            BY <2>3, <6>1
          <6> QED BY <6>2
        <5> QED BY <4>1, <5>1, <5>2, <5>3
      <4>6. ASSUME NEW n \in 1 .. deadQueueSize, Drop(n),
                   \A m \in 1 .. n - 1 : deadQueue[(index + m - 1) % deadQueueSize].seq
                                           <= deadQueue[(index + m) % deadQueueSize].seq
            PROVE  n = rest
        <5>1. n < rest => log[p + n - 1].seq > log[p + n].seq /\ log[p + n - 1].seq < log[p + n].seq
          <6> SUFFICES ASSUME n < rest
                       PROVE  log[p + n - 1].seq > log[p + n].seq /\ log[p + n - 1].seq < log[p + n].seq
            OBVIOUS
          <6>1. n \in 1 .. rest - 1 /\ p + n - 1 \in 1 .. Len(log) /\ p + n \in 1 .. Len(log) /\ p + n - 1 < p + n
            BY <2>2
          <6> QED BY <2>3, <4>3, <4>6, <6>1
        <5>2. ~ (n < rest)
          <6> SUFFICES ASSUME n < rest PROVE FALSE
            OBVIOUS
          <6>1. p + n - 1 \in 1 .. Len(log) /\ p + n \in 1 .. Len(log)
            BY <2>2
          <6> QED BY <2>3, <5>1, <6>1
        <5>3. ~ (rest < n)
          <6> SUFFICES ASSUME rest < n PROVE FALSE
            OBVIOUS
          <6>1. rest \in 1 .. n - 1
            BY <4>1
          <6>2. deadQueue[(index + rest - 1) % deadQueueSize].seq <= deadQueue[(index + rest) % deadQueueSize].seq
            BY <4>6, <6>1
          <6>3. /\ deadQueue[(index + rest - 1) % deadQueueSize].seq \in Nat
                /\ deadQueue[(index + rest) % deadQueueSize].seq \in Nat
            <7>1. deadQueue[(index + (Len(log) - p)) % deadQueueSize] = log[Len(log)]
              <8>1. Len(log) - p \in 0 .. Len(log) - p /\ p + (Len(log) - p) = Len(log)
                BY <2>2
              <8> QED BY <2>2, <8>1
            <7>2. index + (Len(log) - p) = index + rest - 1 /\ index + rest = index + Len(log) - p + 1
              BY <2>1, <2>2 DEF Slot
            <7>3. Len(log) \in 1 .. Len(log) /\ Len(log) - deadQueueSize + 1 \in 1 .. Len(log)
              BY <2>2, <4>1
            <7> QED BY <2>3, <4>1, <7>1, <7>2, <7>3
          <6> QED BY <4>5, <6>2, <6>3
        <5>4. n \in Int /\ rest \in Int
          BY <2>2, <4>1, <4>6
        <5> QED BY <5>2, <5>3, <5>4
      <4>7. RolledOverLength(deadQueue, index) = rest
        BY <4>1, <4>4, <4>5, <4>6 DEF RolledOverLength
      <4> QED BY <4>2, <4>7 DEF DrainLength
    <3> QED BY <2>2, <3>1, <3>2
  <2>5. \A i \in 1 .. rest : deadQueue[(index + i - 1) % deadQueueSize] = log[p + i - 1]
    <3> SUFFICES ASSUME NEW i \in 1 .. rest
                 PROVE  deadQueue[(index + i - 1) % deadQueueSize] = log[p + i - 1]
      OBVIOUS
    <3>1. i - 1 \in 0 .. Len(log) - p /\ index + (i - 1) = index + i - 1 /\ p + (i - 1) = p + i - 1
      BY <2>1, <2>2 DEF Slot
    <3> QED BY <2>2, <3>1
  <2>6. drainDeadQueue(deadQueue, deadQueuePointer, index) = Rest(p)
    BY <2>4, <2>5 DEF drainDeadQueue, Rest
  <2> QED BY <2>6 DEF index
<1> QED BY LogInvInit, NextInv, <1>1, PTL DEF LogSpec
=============================================================================
