---------------------------- MODULE StreamClient ----------------------------
(***************************************************************************)
(* The browser's WebSocketClient as the event stream sees it               *)
(* (webapp/platform/client/src/websocket.ts): which connection it has, the *)
(* id the server gave that stream, and the number of the event it expects  *)
(* next.  When it connects, and when it gives a connection up, is left     *)
(* open here; its timers are the subject of WebSocketClient.               *)
(***************************************************************************)
EXTENDS Naturals

CONSTANTS
    Conns, NoConn,      \* websocket connections
    ConnIds, NoId,      \* ids of event streams; NoId is the empty id
    MaxSequence         \* bound on the sequence numbers of ClientNext

VARIABLES
    conn,               \* this.conn
    connectionId,       \* this.connectionId
    serverSequence      \* this.serverSequence

clientVars == <<conn, connectionId, serverSequence>>

ClientInit ==
    /\ conn = NoConn
    /\ connectionId = NoId
    /\ serverSequence = 0

\* initialize: nothing happens while there is a connection.
Initialize(c) ==
    /\ conn = NoConn
    /\ conn' = c
    /\ UNCHANGED <<connectionId, serverSequence>>

\* Seeded bug: the closed connection is kept, so that initialize returns early.
BugOnClose == conn # NoConn /\ UNCHANGED clientVars

\* onclose, however it comes about: the stream's id and position are kept.
OnClose ==
    /\ conn # NoConn
    /\ conn' = NoConn
    /\ UNCHANGED <<connectionId, serverSequence>>

\* A hello that names another stream than the one known: the missed-message
\* listeners run and the count starts over.
IsRestart(id) == connectionId # NoId /\ connectionId # id

\* onmessage: a number other than the expected one makes the client close the
\* connection, and the message is not passed on.
CheckSequence(seq, expected) ==
    \/ /\ seq = expected
       /\ serverSequence' = seq + 1
       /\ UNCHANGED conn
    \/ /\ seq # expected
       /\ serverSequence' = expected
       /\ conn' = NoConn

OnHello(id, seq) ==
    /\ conn # NoConn
    /\ connectionId' = id
    /\ CheckSequence(seq, IF IsRestart(id) THEN 0 ELSE serverSequence)

OnEvent(seq) ==
    /\ conn # NoConn
    /\ UNCHANGED connectionId
    /\ CheckSequence(seq, serverSequence)

ClientNext ==
    \/ \E c \in Conns : Initialize(c)
    \/ OnClose
    \/ \E id \in ConnIds, seq \in 0 .. MaxSequence : OnHello(id, seq)
    \/ \E seq \in 0 .. MaxSequence : OnEvent(seq)

ClientSpec == ClientInit /\ [][ClientNext]_clientVars
=============================================================================
