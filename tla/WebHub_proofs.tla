---------------------------- MODULE WebHub_proofs ----------------------------
(***************************************************************************)
(* Proofs about the hub, for any number of connections, users, ids and     *)
(* channels and any capacity of the channels.  All but the types is proved *)
(* up to a second challenge of a connection whose session has lapsed.      *)
(***************************************************************************)
EXTENDS WebHub, TLAPS

\* A connection in use has an id and a channel.
Complete ==
    \A c \in Conns : phase[c] # "free" => connectionID[c] \in ConnIds /\ send[c] \in Channels

\* A connection in the index has been registered, for a user.
Registered ==
    \A c \in byConnection : phase[c] \notin {"free", "built"} /\ UserId[c] # NoUser

Typed == TypeOK /\ Complete /\ Registered /\ IndexesAgree

\* What a step does to a sequence of messages keeps its type.
LEMMA MessageSequences ==
    /\ \A s \in Seq(Messages), m \in Messages : Append(s, m) \in Seq(Messages)
    /\ \A s \in Seq(Messages) : s # <<>> => Tail(s) \in Seq(Messages)
    /\ <<>> \in Seq(Messages)
OBVIOUS

\* The messages the actions use are messages.
LEMMA MessagesOK ==
    /\ \A id \in ConnIds : Hello(id) \in Messages
    /\ Response \in Messages
    /\ \A m \in Broadcasts : m \in Messages
BY DEF Messages

\* The model goes on only while no connection has been challenged again.
LEMMA Unchallenged ==
    /\ Next => ~ rechallenged
    /\ [Next]_vars /\ ~ rechallenged' => ~ rechallenged
BY DEF Next, vars, hubVars

LEMMA InitTyped == Init => Typed
<1> SUFFICES ASSUME Init
             PROVE  Typed
  OBVIOUS
<1>1. queue \in [Channels -> Seq(Messages)]
  <2>1. queue = [ch \in Channels |-> <<>>]
    BY DEF Init
  <2> QED BY <2>1, MessageSequences
<1>2. TypeOK
  <2>1. phase \in [Conns -> {"free", "built", "registered", "pumping", "readDone", "finished"}]
    BY DEF Init
  <2>2. writer \in [Conns -> {"idle", "start", "loop", "done"}]
    BY DEF Init
  <2>3. /\ hub \in {"running", "stopRequested", "stopping", "stopped", "blocked", "panicked"}
        /\ toClose \in SUBSET Conns /\ closing \in {{}} \cup {{c} : c \in Conns}
        /\ closed \in SUBSET Channels /\ lapsed \in SUBSET Conns /\ rechallenged \in BOOLEAN
    BY DEF Init
  <2>4. /\ byUserId \in [Users -> SUBSET Conns]
        /\ byConnection \in SUBSET Conns
        /\ byConnectionId \in [ConnIds -> Conns \cup {NoConn}]
    BY DEF Init
  <2>5. /\ sockOpen \in [Conns -> BOOLEAN] /\ Active \in [Conns -> BOOLEAN]
        /\ UserId \in [Conns -> Users \cup {NoUser}]
        /\ connectionID \in [Conns -> ConnIds \cup {NoId}]
        /\ send \in [Conns -> Channels \cup {NoChannel}]
        /\ reuseCount \in [Conns -> {0, 1}]
    BY DEF Init
  <2> QED BY <1>1, <2>1, <2>2, <2>3, <2>4, <2>5 DEF TypeOK
<1>3. Complete
  BY DEF Init, Complete
<1>4. Registered
  BY DEF Init, Registered
<1>5. IndexesAgree
  BY DEF Init, IndexesAgree
<1> QED BY <1>2, <1>3, <1>4, <1>5 DEF Typed

LEMMA NextTyped == Typed /\ [Next]_vars => Typed'
<1>0. CASE UNCHANGED vars
  <2>1. Typed => Typed'
    BY <1>0 DEF vars, hubVars, indexVars, pumpVars, identVars, chanVars, Typed, TypeOK, Complete,
                Registered, IndexesAgree
  <2> QED BY <2>1
<1> SUFFICES ASSUME TypeOK, Complete, Registered, IndexesAgree, Next, ~ rechallenged
             PROVE  TypeOK' /\ Complete' /\ Registered' /\ IndexesAgree'
  BY <1>0, Unchallenged DEF Typed
<1> DEFINE Good == TypeOK' /\ Complete' /\ Registered' /\ IndexesAgree'
<1> USE HubAssumption DEF TypeOK, Complete, Registered, IndexesAgree, hubVars, indexVars, pumpVars, identVars, chanVars
<1> DEFINE Added(c, u) ==
              /\ Active' \in [Conns -> BOOLEAN]
              /\ byUserId' = [byUserId EXCEPT ![u] = @ \cup {c}]
              /\ byConnection' = byConnection \cup {c}
              /\ byConnectionId' \in [ConnIds -> Conns \cup {NoConn}]
              /\ queue' \in [Channels -> Seq(Messages)]
              /\ hub' \in {hub, "blocked", "panicked"}
              /\ lapsed' \in SUBSET Conns
              /\ UNCHANGED <<toClose, closing, closed>>
<1>1. ASSUME NEW c \in Conns, NEW u \in Users \cup {NoUser}, NEW id \in ConnIds, ConnectFresh(c, u, id)
      PROVE  Good
  BY <1>1, MessageSequences DEF ConnectFresh, Build, NewIds, NewChannels
<1>2. ASSUME NEW c \in Conns, NEW u \in Users, NEW id \in ConnIds, ConnectReuse(c, u, id)
      PROVE  Good
  <2>1. PICK old \in Inactive(u, id) : IndexRemove({old}) /\ Build(c, u, id, send[old], FALSE, 1)
    BY <1>2 DEF ConnectReuse
  <2>2. old \in Conns /\ phase[old] # "free" /\ phase[c] = "free"
    BY <1>2 DEF ConnectReuse, Inactive, ForUser
  <2>3. TypeOK' /\ Complete'
    BY <1>2, <2>1, <2>2 DEF ConnectReuse, Build, IndexRemove
  <2>4. Registered' /\ IndexesAgree'
    BY <1>2, <2>1, <2>2 DEF ConnectReuse, Build, IndexRemove
  <2> QED BY <2>3, <2>4
<1>3. ASSUME NEW c \in Conns, NEW u \in Users, Register(c, u), phase[c] # "free"
      PROVE  Added(c, u)
  <2>1. CASE Greet(c)
    <3>1. send[c] \in Channels /\ Hello(connectionID[c]) \in Messages
      BY <1>3, MessagesOK
    <3>2. /\ hub' \in {hub, "blocked", "panicked"}
          /\ queue' \in {queue, [queue EXCEPT ![send[c]] = Append(@, Hello(connectionID[c]))]}
      BY <2>1 DEF Greet
    <3>3. queue' \in [Channels -> Seq(Messages)]
      <4>1. Append(queue[send[c]], Hello(connectionID[c])) \in Seq(Messages)
        BY <3>1, MessageSequences
      <4>2. [queue EXCEPT ![send[c]] = Append(@, Hello(connectionID[c]))] \in [Channels -> Seq(Messages)]
        BY <4>1
      <4> QED BY <3>2, <4>2
    <3> QED BY <1>3, <3>2, <3>3 DEF Register, IndexAdd
  <2>2. CASE UNCHANGED <<hub, queue>>
    BY <1>3, <2>2 DEF Register, IndexAdd
  <2> QED BY <1>3, <2>1, <2>2 DEF Register
<1>4. ASSUME NEW T \in SUBSET Conns, NEW m \in Messages, Enqueue(T, m)
      PROVE  /\ \E S \in SUBSET Conns : IndexRemove(S)
             /\ queue' \in [Channels -> Seq(Messages)]
             /\ closed' \in SUBSET Channels
  BY <1>4, MessageSequences DEF Enqueue
<1>5. ASSUME NEW S \in SUBSET Conns, IndexRemove(S), UNCHANGED <<phase, UserId>>
      PROVE  /\ byUserId' \in [Users -> SUBSET Conns]
             /\ byConnection' \in SUBSET Conns
             /\ byConnectionId' \in [ConnIds -> Conns \cup {NoConn}]
             /\ Registered' /\ IndexesAgree'
  BY <1>5 DEF IndexRemove
<1>6. ASSUME NEW c \in Conns, HandlerRegister(c) PROVE Good
  <2>1. /\ phase[c] = "built" /\ UserId[c] \in Users /\ Register(c, UserId[c])
        /\ phase' = [phase EXCEPT ![c] = "registered"]
        /\ UNCHANGED <<rechallenged, writer, sockOpen, UserId, connectionID, send, reuseCount>>
    BY <1>6 DEF HandlerRegister
  <2>2. Added(c, UserId[c])
    BY <2>1, <1>3
  <2>3. TypeOK'
    BY <2>1, <2>2
  <2>4. Complete' /\ Registered'
    BY <2>1, <2>2
  <2>5. IndexesAgree'
    BY <2>1, <2>2
  <2> QED BY <2>3, <2>4, <2>5
<1>7. ASSUME NEW c \in Conns, NEW u \in Users, AuthChallenge(c, u) PROVE Good
  <2>1. /\ phase[c] = "pumping" /\ NoToken(c) /\ Register(c, u)
        /\ UserId' = [UserId EXCEPT ![c] = u]
        /\ rechallenged' = (c \in lapsed)
        /\ UNCHANGED <<pumpVars, connectionID, send, reuseCount>>
    BY <1>7 DEF AuthChallenge, Request
  <2>2. Added(c, u)
    BY <2>1, <1>3
  <2>3. TypeOK'
    <3>1. rechallenged' \in BOOLEAN
      BY <2>1
    <3>2. UserId' \in [Conns -> Users \cup {NoUser}]
      BY <2>1
    <3> QED BY <2>1, <2>2, <3>1, <3>2
  <2>4. Complete' /\ Registered'
    BY <2>1, <2>2
  <2>5. ASSUME ~ rechallenged' PROVE IndexesAgree'
    <3>1. UserId[c] = NoUser
      BY <2>1, <2>5 DEF NoToken
    <3> QED BY <2>1, <2>2, <3>1
  <2>6. IndexesAgree'
    BY <2>5
  <2> QED BY <2>3, <2>4, <2>6
<1>8. ASSUME NEW c \in Conns,
             HandlerRegisterFails(c) \/ HandlerSkipsRegister(c) \/ Pump(c) \/ ReadPumpEnds(c) \/ Unregister(c)
      PROVE  Good
  <2>1. CASE HandlerRegisterFails(c)
    BY <2>1 DEF HandlerRegisterFails
  <2>2. CASE HandlerSkipsRegister(c)
    BY <2>2 DEF HandlerSkipsRegister
  <2>3. CASE Pump(c)
    BY <2>3 DEF Pump
  <2>4. CASE ReadPumpEnds(c)
    BY <2>4 DEF ReadPumpEnds
  <2>5. CASE Unregister(c)
    BY <2>5 DEF Unregister
  <2> QED BY <1>8, <2>1, <2>2, <2>3, <2>4, <2>5
<1>9. ASSUME NEW c \in Conns, NEW u \in Users, AuthChallengeUnindexed(c, u) PROVE Good
  <2>1. /\ phase[c] = "pumping" /\ NoToken(c)
        /\ UserId' = [UserId EXCEPT ![c] = u]
        /\ lapsed' = lapsed \ {c}
        /\ rechallenged' = (c \in lapsed)
        /\ UNCHANGED <<hub, toClose, closing, indexVars, phase, writer, connectionID, send, reuseCount, chanVars>>
    BY <1>9 DEF AuthChallengeUnindexed, Request
  <2>2. rechallenged' \in BOOLEAN
    BY <2>1
  <2>3. sockOpen' \in [Conns -> BOOLEAN] /\ Active' \in [Conns -> BOOLEAN]
    BY <1>9 DEF AuthChallengeUnindexed
  <2>4. TypeOK'
    BY <2>1, <2>2, <2>3
  <2>5. Complete' /\ Registered'
    BY <2>1
  <2>6. ASSUME ~ rechallenged' PROVE IndexesAgree'
    <3>1. UserId[c] = NoUser
      BY <2>1, <2>6 DEF NoToken
    <3> QED BY <2>1, <3>1
  <2>7. IndexesAgree'
    BY <2>6
  <2> QED BY <2>4, <2>5, <2>7
<1>9b. ASSUME NEW c \in Conns, SessionLapses(c) PROVE Good
  BY <1>9b DEF SessionLapses
<1>10. ASSUME NEW c \in Conns, WriterResumes(c) \/ WriterRestarts(c) \/ WriterSeesClosed(c) \/ WriterStops(c)
       PROVE  Good
  <2>1. CASE WriterResumes(c)
    BY <2>1 DEF WriterResumes
  <2>2. CASE WriterRestarts(c)
    <3>1. /\ connectionID' \in [Conns -> ConnIds \cup {NoId}]
          /\ Complete'
      BY <2>2 DEF WriterRestarts, WriterDone, NewIds
    <3>2. /\ writer' \in [Conns -> {"idle", "start", "loop", "done"}]
          /\ sockOpen' \in [Conns -> BOOLEAN]
          /\ UNCHANGED phase
      <4>1. CASE WriterDone(c)
        BY <4>1 DEF WriterDone
      <4>2. CASE writer' = [writer EXCEPT ![c] = "loop"] /\ UNCHANGED <<phase, sockOpen>>
        BY <4>2
      <4> QED BY <2>2, <4>1, <4>2 DEF WriterRestarts
    <3> QED BY <2>2, <3>1, <3>2 DEF WriterRestarts
  <2>3. CASE WriterSeesClosed(c)
    BY <2>3 DEF WriterSeesClosed, WriterDone
  <2>4. CASE WriterStops(c)
    BY <2>4 DEF WriterStops, WriterDone
  <2> QED BY <1>10, <2>1, <2>2, <2>3, <2>4
<1>11. ASSUME NEW c \in Conns, WriterSends(c) \/ WriterSkips(c) PROVE Good
  <2>1. ASSUME NEW ch \in Channels, queue[ch] # <<>>, queue' = [queue EXCEPT ![ch] = Tail(@)]
        PROVE  queue' \in [Channels -> Seq(Messages)]
    BY <2>1, MessageSequences
  <2>2. queue' \in [Channels -> Seq(Messages)]
    BY <1>11, <2>1 DEF WriterSends, WriterSkips
  <2>3. CASE WriterSends(c)
    <3>1. /\ writer' \in [Conns -> {"idle", "start", "loop", "done"}]
          /\ sockOpen' \in [Conns -> BOOLEAN]
          /\ UNCHANGED phase
      <4>1. CASE WriterDone(c)
        BY <4>1 DEF WriterDone
      <4>2. CASE UNCHANGED pumpVars
        BY <4>2
      <4> QED BY <2>3, <4>1, <4>2 DEF WriterSends
    <3> QED BY <2>2, <2>3, <3>1 DEF WriterSends
  <2>4. CASE WriterSkips(c)
    BY <2>2, <2>4 DEF WriterSkips
  <2> QED BY <1>11, <2>3, <2>4
<1>12. ASSUME NEW c \in Conns, SendMessage(c, Response) PROVE Good
  BY <1>12, <1>4, <1>5, MessagesOK DEF SendMessage
<1>13. ASSUME NEW T \in SUBSET Conns, NEW F, NEW m \in Broadcasts, Broadcast(T, F, m) PROVE Good
  BY <1>13, <1>4, <1>5, MessagesOK DEF Broadcast
<1>14. ASSUME NEW S \in SUBSET byConnection, Reap(S) PROVE Good
  BY <1>14, <1>5 DEF Reap
<1>15. ASSUME NEW u \in Users, InvalidateUserFails(u) PROVE Good
  BY <1>15, <1>5 DEF InvalidateUserFails, ForUser
<1>16. CASE Recover
  BY <1>16 DEF Recover
<1>17. CASE Stopping
  <2>1. CASE Stop \/ StopCase \/ Stopped
    BY <2>1 DEF Stop, StopCase, Stopped
  <2>2. ASSUME NEW c \in Conns, CloseConn(c) PROVE Good
    BY <2>2 DEF CloseConn
  <2>3. CASE ConnClosed
    BY <2>3 DEF ConnClosed
  <2> QED BY <1>17, <2>1, <2>2, <2>3 DEF Stopping
<1>18. ASSUME NEW c \in Conns, Collect(c) PROVE Good
  BY <1>18 DEF Collect, Release
<1>20. ASSUME NEW c \in Conns, Handler(c) PROVE Good
  BY <1>20, <1>1, <1>2, <1>6, <1>7, <1>8, <1>9, <1>9b, <1>12 DEF Handler, ConnectNotFound
<1>21. ASSUME NEW c \in Conns, Writer(c) PROVE Good
  BY <1>21, <1>10, <1>11 DEF Writer
<1>22. CASE HubCase
  <2>1. EventTargets \subseteq SUBSET Conns
    BY DEF EventTargets, ForUser, ForConnection, ConnectionTargets
  <2> QED BY <1>22, <2>1, <1>13, <1>14, <1>15, <1>16 DEF HubCase
<1> QED
  BY <1>17, <1>18, <1>20, <1>21, <1>22 DEF Next

\* Every variable keeps its type.
THEOREM TypeCorrect == Spec => []TypeOK
<1>1. Typed => TypeOK
  BY DEF Typed
<1> QED
  BY InitTyped, NextTyped, <1>1, PTL DEF Spec

\* Until a connection whose session has lapsed is challenged again, the set of
\* connections of each user agrees with the set of all connections
\* (web_hub.go:836-889).
THEOREM IndexMapsAgree == Spec => []IndexesAgree
<1>1. Typed => IndexesAgree
  BY DEF Typed
<1> QED
  BY InitTyped, NextTyped, <1>1, PTL DEF Spec

-----------------------------------------------------------------------------
(* One owner per channel *)

\* What holds of the goroutines of a connection in the index, and of channels.
Owned == SoleOwner /\ InactiveMeansFinished

LEMMA InitOwned == Init => Owned
BY DEF Init, Owned, SoleOwner, InactiveMeansFinished, Owners

\* A step that hands no channel over cannot give it a second owner.
LEMMA OwnersShrink ==
    ASSUME ~ rechallenged, SoleOwner, Owners' \subseteq Owners, \A c \in Owners' : send'[c] = send[c]
    PROVE  SoleOwner'
BY DEF SoleOwner

LEMMA NextOwned == Typed /\ Owned /\ [Next]_vars => Owned'
<1> SUFFICES ASSUME Typed, SoleOwner, InactiveMeansFinished, [Next]_vars, ~ rechallenged, ~ rechallenged'
             PROVE  SoleOwner' /\ InactiveMeansFinished'
  BY Unchallenged DEF Owned, SoleOwner, InactiveMeansFinished
<1> DEFINE Good == SoleOwner' /\ InactiveMeansFinished'
<1> USE DEF hubVars, indexVars, pumpVars, identVars, chanVars
<1>0. /\ phase \in [Conns -> {"free", "built", "registered", "pumping", "readDone", "finished"}]
      /\ writer \in [Conns -> {"idle", "start", "loop", "done"}]
      /\ Active \in [Conns -> BOOLEAN]
      /\ send \in [Conns -> Channels \cup {NoChannel}]
      /\ byConnection \in SUBSET Conns
      /\ Registered
  BY DEF Typed, TypeOK
<1>1. ASSUME NEW c \in Conns, NEW u \in Users \cup {NoUser}, NEW id \in ConnIds, ConnectFresh(c, u, id)
      PROVE  Good
  <2>1. PICK ch \in NewChannels : Build(c, u, id, ch, TRUE, 0)
    BY <1>1 DEF ConnectFresh
  <2>2. /\ phase' = [phase EXCEPT ![c] = "built"]
        /\ send' = [send EXCEPT ![c] = ch]
        /\ Active' = [Active EXCEPT ![c] = TRUE]
        /\ phase[c] = "free"
        /\ UNCHANGED <<writer, byConnection>>
    BY <1>1, <2>1 DEF ConnectFresh, Build
  <2>3. \A d \in Owners : d # c /\ send[d] # ch
    BY <1>0, <2>1, <2>2 DEF Owners, NewChannels, Registered
  <2>4. Owners' = Owners \cup {c}
    BY <1>0, <2>2 DEF Owners
  <2>5. SoleOwner'
    BY <1>0, <2>2, <2>3, <2>4 DEF SoleOwner, Owners
  <2>6. InactiveMeansFinished'
    BY <1>0, <2>2 DEF InactiveMeansFinished, Registered
  <2> QED BY <2>5, <2>6
<1>2. ASSUME NEW c \in Conns, NEW u \in Users, NEW id \in ConnIds, ConnectReuse(c, u, id)
      PROVE  Good
  <2>1. PICK old \in Inactive(u, id) : IndexRemove({old}) /\ Build(c, u, id, send[old], FALSE, 1)
    BY <1>2 DEF ConnectReuse
  <2>2. old \in byConnection /\ ~ Active[old]
    BY DEF Typed, IndexesAgree, Inactive, ForUser
  <2>3. phase[old] = "finished"
    BY <2>2 DEF InactiveMeansFinished
  <2>4. /\ phase' = [phase EXCEPT ![c] = "built"]
        /\ send' = [send EXCEPT ![c] = send[old]]
        /\ Active' = [Active EXCEPT ![c] = FALSE]
        /\ byConnection' = byConnection \ {old}
        /\ phase[c] = "free"
        /\ UNCHANGED writer
    BY <1>2, <2>1, <2>2 DEF ConnectReuse, Build, IndexRemove
  <2>5. Owners' = (Owners \ {old}) \cup {c}
    BY <1>0, <2>3, <2>4 DEF Owners
  <2>6. old \in Owners /\ c \notin Owners
    BY <1>0, <2>2, <2>4 DEF Owners, Registered
  <2>7. SoleOwner'
    BY <1>0, <2>4, <2>5, <2>6 DEF SoleOwner, Owners
  <2>8. InactiveMeansFinished'
    BY <1>0, <2>4 DEF InactiveMeansFinished, Registered
  <2> QED BY <2>7, <2>8
<1>3. ASSUME NEW c \in Conns, NEW u \in Users, Register(c, u), phase[c] \notin {"free", "finished"},
             phase'[c] \notin {"free", "finished"}, \A d \in Conns \ {c} : phase'[d] = phase[d],
             UNCHANGED <<send, writer>>
      PROVE  Good
  <2>1. byConnection' = byConnection \cup {c} /\ Active' = [Active EXCEPT ![c] = TRUE]
    BY <1>3 DEF Register, IndexAdd
  <2>2. Owners' = Owners
    BY <1>0, <1>3, <2>1 DEF Owners
  <2>3. SoleOwner'
    BY <1>3, <2>2 DEF SoleOwner
  <2>4. InactiveMeansFinished'
    BY <1>0, <1>3, <2>1 DEF InactiveMeansFinished
  <2> QED BY <2>3, <2>4
<1>4. ASSUME NEW c \in Conns, HandlerRegister(c) PROVE Good
  <2>1. UserId[c] \in Users
    BY <1>4 DEF HandlerRegister, Typed, TypeOK
  <2> QED BY <1>0, <1>3, <1>4, <2>1 DEF HandlerRegister
<1>5. ASSUME NEW c \in Conns, NEW u \in Users, AuthChallenge(c, u) PROVE Good
  BY <1>0, <1>3, <1>5 DEF AuthChallenge, Request
<1>5b. ASSUME NEW c \in Conns, SessionLapses(c) PROVE Good
  BY <1>5b DEF SessionLapses, SoleOwner, InactiveMeansFinished, Owners
<1>6. ASSUME byConnection' \subseteq byConnection,
             \A d \in Conns : phase'[d] \notin {"free", "finished"} => phase[d] \notin {"free", "finished"},
             UNCHANGED send
      PROVE  SoleOwner'
  <2>1. Owners' \subseteq Owners
    BY <1>6 DEF Owners
  <2> QED BY <1>6, <2>1, OwnersShrink
<1>7. ASSUME byConnection' \subseteq byConnection, UNCHANGED <<phase, send, Active>>,
             \A d \in Conns : writer[d] = "done" => writer'[d] = "done"
      PROVE  Good
  BY <1>0, <1>6, <1>7 DEF InactiveMeansFinished
<1>8. ASSUME NEW c \in Conns, HandlerRegisterFails(c) PROVE Good
  <2>1. SoleOwner'
    BY <1>0, <1>6, <1>8 DEF HandlerRegisterFails
  <2>2. InactiveMeansFinished'
    BY <1>0, <1>8 DEF HandlerRegisterFails, InactiveMeansFinished
  <2> QED BY <2>1, <2>2
<1>9. ASSUME NEW c \in Conns, HandlerSkipsRegister(c) \/ Pump(c) \/ ReadPumpEnds(c) PROVE Good
  <2>1. /\ phase[c] \notin {"free", "finished"}
        /\ \A d \in Conns \ {c} : phase'[d] = phase[d] /\ writer'[d] = writer[d]
        /\ UNCHANGED <<byConnection, send, Active>>
    BY <1>0, <1>9 DEF HandlerSkipsRegister, Pump, ReadPumpEnds
  <2>2. SoleOwner'
    BY <1>0, <1>6, <2>1
  <2>3. InactiveMeansFinished'
    BY <1>0, <2>1 DEF InactiveMeansFinished
  <2> QED BY <2>2, <2>3
<1>10. ASSUME NEW c \in Conns, Unregister(c) PROVE Good
  <2>1. SoleOwner'
    BY <1>0, <1>6, <1>10 DEF Unregister
  <2>2. InactiveMeansFinished'
    BY <1>0, <1>10 DEF Unregister, InactiveMeansFinished
  <2> QED BY <2>1, <2>2
<1>11. ASSUME NEW c \in Conns, NEW u \in Users, AuthChallengeUnindexed(c, u) PROVE Good
  <2>1. Active' \in {Active, [Active EXCEPT ![c] = TRUE]} /\ UNCHANGED <<byConnection, phase, writer, send>>
    BY <1>11 DEF AuthChallengeUnindexed
  <2>2. SoleOwner'
    BY <1>6, <2>1
  <2>3. InactiveMeansFinished'
    BY <1>0, <2>1 DEF InactiveMeansFinished
  <2> QED BY <2>2, <2>3
<1>12. ASSUME NEW c \in Conns, Writer(c) PROVE Good
  <2>1. /\ UNCHANGED <<byConnection, phase, send, Active>>
        /\ \A d \in Conns : writer[d] = "done" => writer'[d] = "done"
    <3>1. CASE WriterResumes(c)
      BY <1>0, <3>1 DEF WriterResumes
    <3>2. CASE WriterRestarts(c)
      BY <1>0, <3>2 DEF WriterRestarts, WriterDone
    <3>3. CASE WriterSends(c)
      BY <1>0, <3>3 DEF WriterSends, WriterDone
    <3>4. CASE WriterSkips(c)
      BY <1>0, <3>4 DEF WriterSkips
    <3>5. CASE WriterSeesClosed(c)
      BY <1>0, <3>5 DEF WriterSeesClosed, WriterDone
    <3>6. CASE WriterStops(c)
      BY <1>0, <3>6 DEF WriterStops, WriterDone
    <3> QED BY <1>12, <3>1, <3>2, <3>3, <3>4, <3>5, <3>6 DEF Writer
  <2> QED BY <1>7, <2>1
<1>13. ASSUME NEW S, IndexRemove(S), UNCHANGED <<pumpVars, send, Active>> PROVE Good
  BY <1>7, <1>13 DEF IndexRemove
<1>14. ASSUME NEW c \in Conns, SendMessage(c, Response) PROVE Good
  BY <1>13, <1>14 DEF SendMessage, Enqueue
<1>15. CASE HubCase
  <2>1. ASSUME NEW T, NEW F, NEW msg, Broadcast(T, F, msg) PROVE Good
    BY <1>13, <2>1 DEF Broadcast, Enqueue
  <2>2. ASSUME NEW S, Reap(S) PROVE Good
    BY <1>13, <2>2 DEF Reap
  <2>3. ASSUME NEW u \in Users, InvalidateUserFails(u) PROVE Good
    BY <1>13, <2>3 DEF InvalidateUserFails
  <2>4. CASE Recover
    BY <1>7, <2>4 DEF Recover
  <2> QED
    BY <1>15, <2>1, <2>2, <2>3, <2>4 DEF HubCase
<1>16. CASE Stopping
  <2>1. UNCHANGED <<byConnection, phase, writer, send, Active>>
    BY <1>16 DEF Stopping, Stop, StopCase, CloseConn, ConnClosed, Stopped
  <2> QED BY <1>7, <2>1
<1>17. ASSUME NEW c \in Conns, Collect(c) PROVE Good
  <2>1. /\ phase' = [phase EXCEPT ![c] = "free"]
        /\ \A d \in Conns \ {c} : UNCHANGED <<writer[d], send[d], Active[d]>>
        /\ c \notin byConnection
        /\ UNCHANGED byConnection
    BY <1>0, <1>17 DEF Collect, Release
  <2>2. Owners' \subseteq Owners /\ c \notin Owners'
    BY <1>0, <2>1 DEF Owners
  <2>3. \A d \in Owners' : send'[d] = send[d]
    BY <1>0, <2>1, <2>2 DEF Owners
  <2>5. SoleOwner'
    BY <2>2, <2>3, OwnersShrink
  <2>4. InactiveMeansFinished'
    BY <1>0, <2>1 DEF InactiveMeansFinished
  <2> QED BY <2>4, <2>5
<1>18. CASE UNCHANGED vars
  BY <1>7, <1>18 DEF vars
<1>19. ASSUME NEW c \in Conns, Handler(c) PROVE Good
  BY <1>19, <1>1, <1>2, <1>4, <1>5, <1>5b, <1>8, <1>9, <1>10, <1>11, <1>14 DEF Handler, ConnectNotFound
<1> QED
  BY <1>12, <1>15, <1>16, <1>17, <1>18, <1>19 DEF Next

\* After any number of hand-overs, evictions, panics and failures, but for a second
\* challenge after a lapsed session, two connections that may use a channel never
\* share it (web_hub.go:545-558).
THEOREM ChannelsHaveOneOwner == Spec => []SoleOwner
<1>1. Typed /\ Owned /\ [Next]_vars => (Typed /\ Owned)'
  BY NextTyped, NextOwned
<1>2. Owned => SoleOwner
  BY DEF Owned
<1> QED
  BY InitTyped, InitOwned, <1>1, <1>2, PTL DEF Spec

\* An inactive connection of the index has no goroutine left: what CheckConn
\* hands over is nobody's, until a connection whose session has lapsed is
\* challenged again (web_conn.go:422-427).
THEOREM InactiveAreFinished == Spec => []InactiveMeansFinished
<1>1. Typed /\ Owned /\ [Next]_vars => (Typed /\ Owned)'
  BY NextTyped, NextOwned
<1>2. Owned => InactiveMeansFinished
  BY DEF Owned
<1> QED
  BY InitTyped, InitOwned, <1>1, <1>2, PTL DEF Spec

-----------------------------------------------------------------------------
(* No send on a closed channel *)

\* A connection that may still be registered: its channel must be open by then.
Pending(c) ==
    \/ phase[c] = "built"
    \/ phase[c] \in {"registered", "pumping"} /\ UserId[c] = NoUser

Senders == byConnection \cup {c \in Conns : Pending(c)}

SendersOpen == ~ rechallenged => \A c \in Senders : send[c] \notin closed

LEMMA InitOpen == Init => SendersOpen
BY DEF Init, SendersOpen, Senders, Pending

\* Connections that are not in the index yet, and those in it, are owners.
LEMMA SendersOwn == Typed => Senders \subseteq Owners
BY DEF Typed, TypeOK, Senders, Owners, Pending

\* Closing the channels of connections that leave the index hurts no other.
LEMMA EvictionIsLocal ==
    ASSUME Typed, SoleOwner, SendersOpen, ~ rechallenged,
           NEW S \in SUBSET byConnection,
           byConnection' = byConnection \ S,
           closed' = closed \cup {send[c] : c \in S},
           UNCHANGED <<phase, UserId, send>>
    PROVE  SendersOpen'
<1>1. Senders' = Senders \ S
  BY DEF Senders, Pending, Typed, TypeOK, Registered
<1>2. \A c \in Senders \ S, d \in S : send[c] # send[d]
  BY SendersOwn DEF SoleOwner, Senders
<1> QED
  BY <1>1, <1>2 DEF SendersOpen

LEMMA NextOpen == Typed /\ Owned /\ SendersOpen /\ [Next]_vars => SendersOpen'
<1> SUFFICES ASSUME Typed, SoleOwner, SendersOpen, [Next]_vars, ~ rechallenged, ~ rechallenged'
             PROVE  SendersOpen'
  BY Unchallenged DEF Owned, SendersOpen
<1> USE DEF hubVars, indexVars, pumpVars, identVars, chanVars
<1>0. /\ phase \in [Conns -> {"free", "built", "registered", "pumping", "readDone", "finished"}]
      /\ UserId \in [Conns -> Users \cup {NoUser}]
      /\ send \in [Conns -> Channels \cup {NoChannel}]
      /\ byConnection \in SUBSET Conns
      /\ byUserId \in [Users -> SUBSET byConnection]
      /\ Registered
      /\ NoUser \notin Users
  BY HubAssumption DEF Typed, TypeOK, IndexesAgree
<1>1. ASSUME NEW c \in Conns, NEW u \in Users \cup {NoUser}, NEW id \in ConnIds, ConnectFresh(c, u, id)
      PROVE  SendersOpen'
  <2>1. PICK ch \in NewChannels : Build(c, u, id, ch, TRUE, 0) /\ closed' = closed \ {ch}
    BY <1>1 DEF ConnectFresh
  <2>2. /\ phase' = [phase EXCEPT ![c] = "built"]
        /\ send' = [send EXCEPT ![c] = ch]
        /\ UserId' = [UserId EXCEPT ![c] = u]
        /\ phase[c] = "free"
        /\ UNCHANGED byConnection
    BY <1>1, <2>1 DEF ConnectFresh, Build
  <2>3. Senders' = Senders \cup {c} /\ c \notin Senders
    BY <1>0, <2>2 DEF Senders, Pending, Registered
  <2> QED BY <1>0, <2>1, <2>2, <2>3 DEF SendersOpen, Senders
<1>2. ASSUME NEW c \in Conns, NEW u \in Users, NEW id \in ConnIds, ConnectReuse(c, u, id)
      PROVE  SendersOpen'
  <2>1. PICK old \in Inactive(u, id) : IndexRemove({old}) /\ Build(c, u, id, send[old], FALSE, 1)
    BY <1>2 DEF ConnectReuse
  <2>2. old \in byConnection
    BY <1>0 DEF Inactive, ForUser
  <2>3. /\ phase' = [phase EXCEPT ![c] = "built"]
        /\ send' = [send EXCEPT ![c] = send[old]]
        /\ UserId' = [UserId EXCEPT ![c] = u]
        /\ byConnection' = byConnection \ {old}
        /\ phase[c] = "free"
        /\ UNCHANGED closed
    BY <1>2, <2>1, <2>2 DEF ConnectReuse, Build, IndexRemove
  <2>4. Senders' \subseteq Senders \cup {c} /\ c \notin Senders
    BY <1>0, <2>3 DEF Senders, Pending, Registered
  <2> QED BY <1>0, <2>2, <2>3, <2>4 DEF SendersOpen, Senders
<1>3. ASSUME Senders' \subseteq Senders, \A c \in Senders' : send'[c] = send[c], UNCHANGED closed
      PROVE  SendersOpen'
  BY <1>3 DEF SendersOpen
<1>4. ASSUME byConnection' \subseteq byConnection, UNCHANGED <<phase, UserId, send, closed>>
      PROVE  SendersOpen'
  <2>1. Senders' \subseteq Senders
    BY <1>4 DEF Senders, Pending
  <2> QED BY <1>0, <1>3, <1>4, <2>1 DEF Senders
<1>5. ASSUME NEW c \in Conns, HandlerRegister(c) PROVE SendersOpen'
  <2>1. Senders' \subseteq Senders /\ UNCHANGED <<send, closed>>
    BY <1>0, <1>5 DEF HandlerRegister, Register, IndexAdd, Senders, Pending
  <2> QED BY <1>3, <2>1
<1>6. ASSUME NEW c \in Conns, NEW u \in Users, AuthChallenge(c, u) PROVE SendersOpen'
  <2>1. Senders' \subseteq Senders /\ UNCHANGED <<send, closed>>
    BY <1>0, <1>6 DEF AuthChallenge, Request, NoToken, Register, IndexAdd, Senders, Pending
  <2> QED BY <1>3, <2>1
<1>7. ASSUME NEW c \in Conns,
             HandlerRegisterFails(c) \/ HandlerSkipsRegister(c) \/ Pump(c) \/ ReadPumpEnds(c) \/ Unregister(c)
      PROVE  SendersOpen'
  <2> DEFINE Onward(p) ==
         /\ phase' = [phase EXCEPT ![c] = p]
         /\ \/ p \in {"readDone", "finished"}
            \/ phase[c] = "built" /\ p = "registered"
            \/ phase[c] = "registered" /\ p = "pumping"
         /\ UNCHANGED <<byConnection, UserId, send, closed>>
  <2>1. \E p \in {"registered", "pumping", "readDone", "finished"} : Onward(p)
    <3>1. CASE HandlerRegisterFails(c)
      BY <3>1 DEF HandlerRegisterFails
    <3>2. CASE HandlerSkipsRegister(c)
      BY <3>2 DEF HandlerSkipsRegister
    <3>3. CASE Pump(c)
      BY <3>3 DEF Pump
    <3>4. CASE ReadPumpEnds(c)
      BY <3>4 DEF ReadPumpEnds
    <3>5. CASE Unregister(c)
      BY <3>5 DEF Unregister
    <3> QED BY <1>7, <3>1, <3>2, <3>3, <3>4, <3>5
  <2>2. Senders' \subseteq Senders
    BY <1>0, <2>1 DEF Senders, Pending
  <2> QED BY <1>3, <2>1, <2>2
<1>8. ASSUME NEW c \in Conns, NEW u \in Users, AuthChallengeUnindexed(c, u) PROVE SendersOpen'
  <2>1. Senders' \subseteq Senders /\ UNCHANGED <<send, closed>>
    BY <1>0, <1>8 DEF AuthChallengeUnindexed, Request, Senders, Pending
  <2> QED BY <1>3, <2>1
<1>8b. ASSUME NEW c \in Conns, SessionLapses(c) PROVE SendersOpen'
  BY <1>4, <1>8b DEF SessionLapses
<1>9. ASSUME NEW c \in Conns, Writer(c) PROVE SendersOpen'
  <2>1. UNCHANGED <<byConnection, phase, UserId, send, closed>>
    BY <1>9 DEF Writer, WriterResumes, WriterRestarts, WriterSends, WriterSkips, WriterSeesClosed,
                WriterStops, WriterDone
  <2> QED BY <1>4, <2>1
<1>10. ASSUME NEW T, NEW msg, Enqueue(T, msg), UNCHANGED <<phase, UserId, send>>
       PROVE  SendersOpen'
  <2>1. PICK S \in SUBSET byConnection :
          closed' = closed \cup {send[c] : c \in S} /\ IndexRemove(S)
    BY <1>10 DEF Enqueue
  <2> QED BY <1>10, <2>1, EvictionIsLocal DEF IndexRemove
<1>11. ASSUME NEW c \in Conns, SendMessage(c, Response) PROVE SendersOpen'
  BY <1>10, <1>11 DEF SendMessage
<1>12. CASE HubCase
  <2>1. ASSUME NEW T, NEW F, NEW msg, Broadcast(T, F, msg) PROVE SendersOpen'
    BY <1>10, <2>1 DEF Broadcast
  <2>2. ASSUME NEW S, Reap(S) PROVE SendersOpen'
    BY <1>4, <2>2 DEF Reap, IndexRemove
  <2>3. ASSUME NEW u \in Users, InvalidateUserFails(u) PROVE SendersOpen'
    <3>1. ForUser(u) \in SUBSET byConnection
      BY <1>0 DEF ForUser
    <3> QED BY <2>3, <3>1, EvictionIsLocal DEF InvalidateUserFails, IndexRemove
  <2>4. CASE Recover
    BY <1>4, <2>4 DEF Recover
  <2> QED
    BY <1>12, <2>1, <2>2, <2>3, <2>4 DEF HubCase
<1>13. CASE Stopping
  <2>1. UNCHANGED <<byConnection, phase, UserId, send, closed>>
    BY <1>13 DEF Stopping, Stop, StopCase, CloseConn, ConnClosed, Stopped
  <2> QED BY <1>4, <2>1
<1>14. ASSUME NEW c \in Conns, Collect(c) PROVE SendersOpen'
  <2>1. /\ phase'[c] = "free"
        /\ \A d \in Conns \ {c} : phase'[d] = phase[d] /\ UserId'[d] = UserId[d] /\ send'[d] = send[d]
        /\ c \notin byConnection
        /\ UNCHANGED <<byConnection, closed>>
    BY <1>0, <1>14 DEF Collect, Release
  <2>2. Senders' \subseteq Senders \ {c}
    BY <1>0, <2>1 DEF Senders, Pending
  <2>3. \A d \in Senders' : send'[d] = send[d]
    BY <1>0, <2>1, <2>2 DEF Senders
  <2> QED BY <1>3, <2>1, <2>2, <2>3
<1>15. CASE UNCHANGED vars
  BY <1>4, <1>15 DEF vars
<1>16. ASSUME NEW c \in Conns, Handler(c) PROVE SendersOpen'
  BY <1>16, <1>1, <1>2, <1>5, <1>6, <1>7, <1>8, <1>8b, <1>11 DEF Handler, ConnectNotFound
<1> QED
  BY <1>9, <1>12, <1>13, <1>14, <1>15, <1>16 DEF Next

\* The hub never sends on, and never closes, a channel that has been closed: no
\* order of evictions, hand-overs and registrations panics, but for a second
\* challenge after a lapsed session (web_hub.go:671-677, 696-704, 790-793).
THEOREM NoSendOnClosedChannel == Spec => []IndexedChannelsOpen
<1>1. Typed /\ Owned /\ SendersOpen /\ [Next]_vars => (Typed /\ Owned /\ SendersOpen)'
  BY NextTyped, NextOwned, NextOpen
<1>2. SendersOpen => IndexedChannelsOpen
  BY DEF SendersOpen, Senders, IndexedChannelsOpen
<1> QED
  BY InitTyped, InitOwned, InitOpen, <1>1, <1>2, PTL DEF Spec

-----------------------------------------------------------------------------
(* The hello finds room *)

\* The channel of a new connection is empty until the connection is registered.
PendingEmpty ==
    ~ rechallenged => \A c \in Conns : Pending(c) /\ reuseCount[c] = 0 => queue[send[c]] = <<>>

Fits == GreetingFindsRoom /\ PendingEmpty

LEMMA InitFits == Init => Fits
BY DEF Init, Fits, GreetingFindsRoom, PendingEmpty, Pending

LEMMA NextFits == Typed /\ Owned /\ SendersOpen /\ Fits /\ [Next]_vars => Fits'
<1> SUFFICES ASSUME Typed, SoleOwner, SendersOpen, GreetingFindsRoom, PendingEmpty, [Next]_vars,
                    ~ rechallenged, ~ rechallenged'
             PROVE  GreetingFindsRoom' /\ PendingEmpty'
  BY Unchallenged DEF Owned, Fits, GreetingFindsRoom, PendingEmpty
<1> DEFINE Good == GreetingFindsRoom' /\ PendingEmpty'
<1> USE DEF hubVars, indexVars, pumpVars, identVars, chanVars
<1>0. /\ phase \in [Conns -> {"free", "built", "registered", "pumping", "readDone", "finished"}]
      /\ UserId \in [Conns -> Users \cup {NoUser}]
      /\ send \in [Conns -> Channels \cup {NoChannel}]
      /\ reuseCount \in [Conns -> {0, 1}]
      /\ queue \in [Channels -> Seq(Messages)]
      /\ byConnection \in SUBSET Conns
      /\ Registered /\ Complete
      /\ NoUser \notin Users
      /\ sendQueueSize \in Nat \ {0}
  BY HubAssumption DEF Typed, TypeOK
<1>1. ASSUME NEW c \in Conns, NEW u \in Users \cup {NoUser}, NEW id \in ConnIds, ConnectFresh(c, u, id)
      PROVE  Good
  <2>1. PICK ch \in NewChannels : Build(c, u, id, ch, TRUE, 0) /\ queue' = [queue EXCEPT ![ch] = <<>>]
    BY <1>1 DEF ConnectFresh
  <2>2. /\ phase' = [phase EXCEPT ![c] = "built"]
        /\ send' = [send EXCEPT ![c] = ch]
        /\ UserId' = [UserId EXCEPT ![c] = u]
        /\ reuseCount' = [reuseCount EXCEPT ![c] = 0]
    BY <2>1 DEF Build
  <2>3. ch \in Channels /\ \A d \in Conns : phase[d] # "free" => send[d] # ch
    BY <2>1 DEF NewChannels
  <2>5. \A d \in Conns \ {c} : Pending(d)' => Pending(d) /\ send'[d] = send[d] /\ send[d] \in Channels \ {ch}
    BY <1>0, <2>2, <2>3 DEF Pending, Complete
  <2>6. PendingEmpty'
    BY <1>0, <2>1, <2>2, <2>3, <2>5 DEF PendingEmpty
  <2>7. GreetingFindsRoom'
    BY <1>1 DEF ConnectFresh, GreetingFindsRoom
  <2> QED BY <2>6, <2>7
<1>2. ASSUME NEW c \in Conns, NEW u \in Users, NEW id \in ConnIds, ConnectReuse(c, u, id)
      PROVE  Good
  <2>1. PICK old \in Conns : Build(c, u, id, send[old], FALSE, 1)
    BY <1>2 DEF ConnectReuse, Inactive, ForUser, Typed, TypeOK
  <2>2. UNCHANGED <<hub, queue>>
    BY <1>2 DEF ConnectReuse
  <2>3. \A d \in Conns : Pending(d)' /\ reuseCount'[d] = 0
                           => Pending(d) /\ reuseCount[d] = 0 /\ send'[d] = send[d]
    BY <1>0, <2>1 DEF Build, Pending
  <2> QED BY <2>2, <2>3 DEF GreetingFindsRoom, PendingEmpty
<1>3. ASSUME NEW c \in Conns, NEW u \in Users, Register(c, u), Pending(c), ~ Pending(c)',
             \A d \in Conns \ {c} : Pending(d)' => Pending(d),
             UNCHANGED <<send, reuseCount, connectionID>>
      PROVE  Good
  <2>1. /\ send[c] \in Channels
        /\ \A d \in Conns \ {c} : Pending(d) => send[d] # send[c]
    BY <1>0, <1>3 DEF Pending, Complete, SoleOwner, Owners
  <2>2. CASE UNCHANGED <<hub, queue>>
    BY <1>3, <2>2 DEF GreetingFindsRoom, PendingEmpty
  <2>3. CASE reuseCount[c] = 0 /\ Greet(c)
    <3>1. send[c] \notin closed /\ Len(queue[send[c]]) < sendQueueSize
      <4>1. queue[send[c]] = <<>> /\ Len(<<>>) = 0
        BY <1>3, <2>3 DEF PendingEmpty
      <4>2. send[c] \notin closed
        BY <1>3 DEF SendersOpen, Senders
      <4> QED BY <1>0, <4>1, <4>2
    <3>2. /\ queue' = [queue EXCEPT ![send[c]] = Append(@, Hello(connectionID[c]))]
          /\ UNCHANGED hub
      BY <1>0, <2>1, <2>3, <3>1 DEF Greet
    <3> QED BY <1>0, <1>3, <2>1, <3>2 DEF GreetingFindsRoom, PendingEmpty
  <2> QED BY <1>3, <2>2, <2>3 DEF Register
<1>4. ASSUME NEW c \in Conns, HandlerRegister(c) PROVE Good
  <2>1. /\ UserId[c] \in Users /\ Register(c, UserId[c])
        /\ UNCHANGED <<send, reuseCount, connectionID>>
    BY <1>0, <1>4 DEF HandlerRegister
  <2>2. /\ Pending(c) /\ ~ Pending(c)'
        /\ \A d \in Conns \ {c} : Pending(d)' => Pending(d)
    BY <1>0, <1>4 DEF HandlerRegister, Pending
  <2> QED BY <1>3, <2>1, <2>2
<1>5. ASSUME NEW c \in Conns, NEW u \in Users, AuthChallenge(c, u) PROVE Good
  <2>1. Register(c, u) /\ UNCHANGED <<send, reuseCount, connectionID>>
    BY <1>5 DEF AuthChallenge
  <2>2. /\ Pending(c) /\ ~ Pending(c)'
        /\ \A d \in Conns \ {c} : Pending(d)' => Pending(d)
    BY <1>0, <1>5 DEF AuthChallenge, Request, NoToken, Pending
  <2> QED BY <1>3, <2>1, <2>2
<1>6. ASSUME hub' = hub \/ hub' \notin {"blocked", "panicked"},
             UNCHANGED <<send, reuseCount, queue>>, \A d \in Conns : Pending(d)' => Pending(d)
      PROVE  Good
  BY <1>6 DEF GreetingFindsRoom, PendingEmpty
<1>7. ASSUME NEW c \in Conns, NEW u,
             \/ HandlerRegisterFails(c) \/ HandlerSkipsRegister(c) \/ Pump(c)
             \/ ReadPumpEnds(c) \/ Unregister(c) \/ SessionLapses(c) \/ AuthChallengeUnindexed(c, u)
      PROVE  Good
  <2>1. UNCHANGED <<hub, send, reuseCount, queue>>
    BY <1>7 DEF HandlerRegisterFails, HandlerSkipsRegister, Pump, ReadPumpEnds, Unregister,
                SessionLapses, AuthChallengeUnindexed
  <2>2. ASSUME NEW d \in Conns PROVE Pending(d)' => Pending(d)
    <3>1. CASE HandlerRegisterFails(c)
      BY <1>0, <3>1 DEF HandlerRegisterFails, Pending
    <3>2. CASE HandlerSkipsRegister(c)
      BY <1>0, <3>2 DEF HandlerSkipsRegister, Pending
    <3>3. CASE Pump(c)
      BY <1>0, <3>3 DEF Pump, Pending
    <3>4. CASE ReadPumpEnds(c)
      BY <1>0, <3>4 DEF ReadPumpEnds, Pending
    <3>5. CASE Unregister(c)
      BY <1>0, <3>5 DEF Unregister, Pending
    <3>6. CASE AuthChallengeUnindexed(c, u)
      BY <1>0, <3>6 DEF AuthChallengeUnindexed, Request, NoToken, Pending
    <3>7. CASE SessionLapses(c)
      BY <3>7 DEF SessionLapses, Pending
    <3> QED BY <1>7, <3>1, <3>2, <3>3, <3>4, <3>5, <3>6, <3>7
  <2> QED BY <1>6, <2>1, <2>2
<1>8. ASSUME NEW c \in Conns, Writer(c) PROVE Good
  <2>1. UNCHANGED <<hub, phase, UserId, send, reuseCount>>
    BY <1>8 DEF Writer, WriterResumes, WriterRestarts, WriterSends, WriterSkips, WriterSeesClosed,
                WriterStops, WriterDone
  <2>2. CASE UNCHANGED queue
    BY <1>6, <2>1, <2>2 DEF Pending
  <2>3. CASE queue[send[c]] # <<>> /\ queue' = [queue EXCEPT ![send[c]] = Tail(@)]
    BY <1>0, <2>1, <2>3 DEF PendingEmpty, Pending, GreetingFindsRoom
  <2> QED
    BY <1>8, <2>2, <2>3 DEF Writer, WriterResumes, WriterRestarts, WriterSends, WriterSkips,
                            WriterSeesClosed, WriterStops
<1>9. ASSUME NEW T, NEW msg \in Messages, Enqueue(T, msg), UNCHANGED <<hub, phase, UserId, send, reuseCount>>
      PROVE  Good
  <2>1. PICK F \in SUBSET byConnection :
          queue' = [ch \in Channels |-> IF ch \in {send[d] : d \in F} THEN Append(queue[ch], msg)
                                                                       ELSE queue[ch]]
    BY <1>9 DEF Enqueue
  <2>3. \A d \in Conns, e \in F : Pending(d) => send[d] # send[e]
    BY <1>0, <2>1 DEF Pending, SoleOwner, Owners, Registered
  <2>4. PendingEmpty'
    BY <1>0, <1>9, <2>1, <2>3 DEF PendingEmpty, Pending, Complete
  <2> QED BY <1>9, <2>4 DEF GreetingFindsRoom
<1>10. ASSUME NEW c \in Conns, SendMessage(c, Response) PROVE Good
  BY <1>9, <1>10, MessagesOK DEF SendMessage
<1>11. CASE HubCase
  <2>1. ASSUME NEW T, NEW F, NEW msg \in Broadcasts, Broadcast(T, F, msg) PROVE Good
    BY <1>9, <2>1, MessagesOK DEF Broadcast
  <2>2. ASSUME UNCHANGED <<hub, phase, UserId, send, reuseCount, queue>> PROVE Good
    BY <1>6, <2>2 DEF Pending
  <2> QED
    BY <1>11, <2>1, <2>2 DEF HubCase, Reap, InvalidateUserFails, Recover
<1>12. CASE Stopping
  <2>1. UNCHANGED <<phase, UserId, send, reuseCount, queue>>
    BY <1>12 DEF Stopping, Stop, StopCase, CloseConn, ConnClosed, Stopped
  <2>2. hub' = hub \/ hub' \notin {"blocked", "panicked"}
    BY <1>12 DEF Stopping, Stop, StopCase, CloseConn, ConnClosed, Stopped
  <2> QED BY <1>6, <2>1, <2>2 DEF Pending
<1>13. ASSUME NEW c \in Conns, Collect(c) PROVE Good
  <2>1. /\ phase'[c] = "free"
        /\ \A d \in Conns \ {c} : UNCHANGED <<phase[d], UserId[d], send[d], reuseCount[d]>>
        /\ UNCHANGED <<hub, queue>>
    BY <1>0, <1>13 DEF Collect, Release
  <2>2. \A d \in Conns : Pending(d)' => d # c /\ Pending(d)
    BY <2>1 DEF Pending
  <2> QED BY <2>1, <2>2 DEF GreetingFindsRoom, PendingEmpty
<1>14. CASE UNCHANGED vars
  BY <1>6, <1>14 DEF vars, Pending
<1>15. ASSUME NEW c \in Conns, Handler(c) PROVE Good
  BY <1>15, <1>1, <1>2, <1>4, <1>5, <1>7, <1>10 DEF Handler, ConnectNotFound
<1> QED
  BY <1>8, <1>11, <1>12, <1>13, <1>14, <1>15 DEF Next

\* The hello, the one send of the hub without a default, finds its channel open and
\* with room, unless a connection whose session has lapsed is challenged again:
\* whatever fills and closes channels, the hub neither waits nor panics there
\* (web_hub.go:581).
THEOREM GreetingsFindRoom == Spec => []GreetingFindsRoom
<1>1. Typed /\ Owned /\ SendersOpen /\ Fits /\ [Next]_vars => (Typed /\ Owned /\ SendersOpen /\ Fits)'
  BY NextTyped, NextOwned, NextOpen, NextFits
<1>2. Fits => GreetingFindsRoom
  BY DEF Fits
<1> QED
  BY InitTyped, InitOwned, InitOpen, InitFits, <1>1, <1>2, PTL DEF Spec

-----------------------------------------------------------------------------
(* Connection ids *)

\* No two owners have the same id, and byConnectionId has no entry under the id
\* of an owner but the owner itself.
IdsUnique == ~ rechallenged => \A c, d \in Owners : connectionID[c] = connectionID[d] => c = d

EntriesCurrent ==
    ~ rechallenged => \A c \in Owners : byConnectionId[connectionID[c]] \in {c, NoConn}

Identified == IdsUnique /\ EntriesCurrent

LEMMA InitIdentified == Init => Identified
BY DEF Init, Identified, IdsUnique, EntriesCurrent, Owners

LEMMA NextIdentified == Typed /\ Owned /\ Identified /\ [Next]_vars => Identified'
<1> SUFFICES ASSUME Typed, InactiveMeansFinished, IdsUnique, EntriesCurrent, [Next]_vars,
                    ~ rechallenged, ~ rechallenged'
             PROVE  IdsUnique' /\ EntriesCurrent'
  BY Unchallenged DEF Owned, Identified, IdsUnique, EntriesCurrent
<1> DEFINE Good == IdsUnique' /\ EntriesCurrent'
<1> USE DEF hubVars, indexVars, pumpVars, identVars, chanVars
<1>0. /\ phase \in [Conns -> {"free", "built", "registered", "pumping", "readDone", "finished"}]
      /\ connectionID \in [Conns -> ConnIds \cup {NoId}]
      /\ byConnection \in SUBSET Conns
      /\ byConnectionId \in [ConnIds -> Conns \cup {NoConn}]
      /\ byUserId \in [Users -> SUBSET byConnection]
      /\ UserId \in [Conns -> Users \cup {NoUser}]
      /\ Registered /\ Complete
      /\ \A d \in Owners : d \in Conns /\ phase[d] # "free" /\ connectionID[d] \in ConnIds
  BY DEF Typed, TypeOK, IndexesAgree, Owners, Registered, Complete
<1>1. ASSUME NEW c \in Conns, NEW id \in NewIds,
             Owners' \subseteq Owners \cup {c}, connectionID' = [connectionID EXCEPT ![c] = id],
             UNCHANGED byConnectionId
      PROVE  Good
  <2>1. /\ id \in ConnIds /\ byConnectionId[id] = NoConn
        /\ \A d \in Owners : connectionID[d] # id
    BY <1>0 DEF NewIds, UsedIds
  <2>2. connectionID'[c] = id /\ \A d \in Owners' \ {c} : d \in Owners /\ connectionID'[d] = connectionID[d]
    BY <1>0, <1>1
  <2>3. IdsUnique'
    BY <1>1, <2>1, <2>2 DEF IdsUnique
  <2>4. EntriesCurrent'
    BY <1>1, <2>1, <2>2 DEF EntriesCurrent
  <2> QED BY <2>3, <2>4
<1>2. ASSUME NEW c \in Conns, NEW u \in Users \cup {NoUser}, NEW id \in ConnIds, ConnectFresh(c, u, id)
      PROVE  Good
  <2>1. /\ phase' = [phase EXCEPT ![c] = "built"]
        /\ connectionID' = [connectionID EXCEPT ![c] = id]
        /\ id \in NewIds
        /\ UNCHANGED <<byConnection, byConnectionId>>
    BY <1>2 DEF ConnectFresh, Build
  <2>2. Owners' \subseteq Owners \cup {c}
    BY <1>0, <2>1 DEF Owners
  <2> QED BY <1>1, <2>1, <2>2
<1>3. ASSUME NEW c \in Conns, NEW u \in Users, NEW id \in ConnIds, ConnectReuse(c, u, id)
      PROVE  Good
  <2>1. PICK old \in Inactive(u, id) : IndexRemove({old}) /\ Build(c, u, id, send[old], FALSE, 1)
    BY <1>3 DEF ConnectReuse
  <2>2. old \in byConnection /\ connectionID[old] = id /\ old \in Owners
    BY <1>0 DEF Inactive, ForUser, Owners
  <2>3. /\ phase' = [phase EXCEPT ![c] = "built"]
        /\ connectionID' = [connectionID EXCEPT ![c] = id]
        /\ byConnection' = byConnection \ {old}
        /\ phase[c] = "free"
        /\ byConnectionId' = [i \in ConnIds |-> IF i = id THEN NoConn ELSE byConnectionId[i]]
    BY <1>3, <2>1, <2>2 DEF ConnectReuse, Build, IndexRemove
  <2>4. ~ Active[old] /\ old # c
    BY <1>0, <2>2, <2>3 DEF Inactive, Registered
  <2>5. CASE phase[old] = "finished"
    <3>1. Owners' = (Owners \ {old}) \cup {c} /\ c \notin Owners
      BY <1>0, <2>2, <2>3, <2>4, <2>5 DEF Owners, Registered
    <3>2. \A d \in Owners \ {old} : connectionID'[d] = connectionID[d] /\ connectionID[d] # id
      BY <1>0, <2>2, <2>3, <3>1 DEF IdsUnique
    <3>3. IdsUnique'
      BY <1>0, <2>3, <3>1, <3>2 DEF IdsUnique
    <3>4. EntriesCurrent'
      BY <1>0, <2>3, <3>1, <3>2 DEF EntriesCurrent
    <3> QED BY <3>3, <3>4
  <2> QED BY <2>2, <2>4, <2>5 DEF InactiveMeansFinished
<1>4. ASSUME Owners' \subseteq Owners, \A d \in Owners' : connectionID'[d] = connectionID[d],
             \A i \in ConnIds : byConnectionId'[i] \in {byConnectionId[i], NoConn}
      PROVE  Good
  BY <1>0, <1>4 DEF IdsUnique, EntriesCurrent
<1>5. ASSUME NEW c \in Owners, Owners' \subseteq Owners, UNCHANGED connectionID,
             byConnectionId' = [byConnectionId EXCEPT ![connectionID[c]] = c]
      PROVE  Good
  BY <1>0, <1>5 DEF IdsUnique, EntriesCurrent
<1>6. ASSUME NEW c \in Conns, HandlerRegister(c) PROVE Good
  <2>1. c \in Owners /\ Owners' \subseteq Owners
    BY <1>0, <1>6 DEF HandlerRegister, Register, IndexAdd, Owners
  <2> QED BY <1>5, <1>6, <2>1 DEF HandlerRegister, Register, IndexAdd
<1>7. ASSUME NEW c \in Conns, NEW u \in Users, AuthChallenge(c, u) PROVE Good
  <2>1. c \in Owners /\ Owners' \subseteq Owners
    BY <1>0, <1>7 DEF AuthChallenge, Request, Register, IndexAdd, Owners
  <2> QED BY <1>5, <1>7, <2>1 DEF AuthChallenge, Register, IndexAdd
<1>8. ASSUME byConnection' \subseteq byConnection, UNCHANGED connectionID,
             \A d \in Conns : phase'[d] \notin {"free", "finished"} => phase[d] \notin {"free", "finished"},
             \A i \in ConnIds : byConnectionId'[i] \in {byConnectionId[i], NoConn}
      PROVE  Good
  <2>1. Owners' \subseteq Owners
    BY <1>8 DEF Owners
  <2> QED BY <1>4, <1>8, <2>1
<1>9. ASSUME NEW c \in Conns,
             HandlerRegisterFails(c) \/ HandlerSkipsRegister(c) \/ Pump(c) \/ ReadPumpEnds(c) \/ Unregister(c)
      PROVE  Good
  <2>1. UNCHANGED <<byConnection, connectionID, byConnectionId>>
    BY <1>9 DEF HandlerRegisterFails, HandlerSkipsRegister, Pump, ReadPumpEnds, Unregister
  <2>2. phase[c] \notin {"free", "finished"} /\ \A d \in Conns \ {c} : phase'[d] = phase[d]
    BY <1>0, <1>9 DEF HandlerRegisterFails, HandlerSkipsRegister, Pump, ReadPumpEnds, Unregister
  <2> QED BY <1>8, <2>1, <2>2
<1>10. ASSUME NEW c \in Conns, NEW u \in Users, AuthChallengeUnindexed(c, u) PROVE Good
  BY <1>8, <1>10 DEF AuthChallengeUnindexed
<1>10b. ASSUME NEW c \in Conns, SessionLapses(c) PROVE Good
  BY <1>8, <1>10b DEF SessionLapses
<1>11. ASSUME NEW c \in Conns, Writer(c) PROVE Good
  <2>1. CASE WriterRestarts(c)
    <3>1. PICK id \in NewIds : connectionID' = [connectionID EXCEPT ![c] = id]
      BY <2>1 DEF WriterRestarts
    <3>2. UNCHANGED <<phase, byConnection, byConnectionId>>
      BY <2>1 DEF WriterRestarts, WriterDone
    <3>3. Owners' = Owners
      BY <3>2 DEF Owners
    <3> QED BY <1>1, <3>1, <3>2, <3>3
  <2>2. CASE ~ WriterRestarts(c)
    <3>1. UNCHANGED <<phase, byConnection, byConnectionId, connectionID>>
      BY <1>11, <2>2 DEF Writer, WriterResumes, WriterSends, WriterSkips, WriterSeesClosed,
                         WriterStops, WriterDone
    <3> QED BY <1>8, <3>1
  <2> QED BY <2>1, <2>2
<1>12. ASSUME NEW S, IndexRemove(S), UNCHANGED <<phase, connectionID>> PROVE Good
  BY <1>0, <1>8, <1>12 DEF IndexRemove
<1>13. ASSUME NEW c \in Conns, SendMessage(c, Response) PROVE Good
  BY <1>12, <1>13 DEF SendMessage, Enqueue
<1>14. CASE HubCase
  <2>1. ASSUME NEW T, NEW F, NEW msg, Broadcast(T, F, msg) PROVE Good
    BY <1>12, <2>1 DEF Broadcast, Enqueue
  <2>2. ASSUME NEW S, Reap(S) PROVE Good
    BY <1>12, <2>2 DEF Reap
  <2>3. ASSUME NEW u \in Users, InvalidateUserFails(u) PROVE Good
    BY <1>12, <2>3 DEF InvalidateUserFails
  <2>4. CASE Recover
    BY <1>8, <2>4 DEF Recover
  <2> QED
    BY <1>14, <2>1, <2>2, <2>3, <2>4 DEF HubCase
<1>15. CASE Stopping
  <2>1. UNCHANGED <<byConnection, phase, connectionID, byConnectionId>>
    BY <1>15 DEF Stopping, Stop, StopCase, CloseConn, ConnClosed, Stopped
  <2> QED BY <1>8, <2>1
<1>16. ASSUME NEW c \in Conns, Collect(c) PROVE Good
  <2>1. /\ phase' = [phase EXCEPT ![c] = "free"]
        /\ connectionID' = [connectionID EXCEPT ![c] = NoId]
        /\ c \notin byConnection
        /\ UNCHANGED <<byConnection, byConnectionId>>
    BY <1>0, <1>16 DEF Collect, Release
  <2>2. Owners' \subseteq Owners /\ c \notin Owners'
    BY <1>0, <2>1 DEF Owners
  <2>3. \A d \in Owners' : connectionID'[d] = connectionID[d]
    BY <1>0, <2>1, <2>2
  <2> QED BY <1>4, <2>1, <2>2, <2>3
<1>17. CASE UNCHANGED vars
  BY <1>8, <1>17 DEF vars
<1>18. ASSUME NEW c \in Conns, Handler(c) PROVE Good
  BY <1>18, <1>2, <1>3, <1>6, <1>7, <1>9, <1>10, <1>10b, <1>13 DEF Handler, ConnectNotFound
<1> QED
  BY <1>11, <1>14, <1>15, <1>16, <1>17, <1>18 DEF Next

\* An event for a connection id always finds the registered connection that has
\* the id, whichever ids write pumps have changed meanwhile, until a connection
\* whose session has lapsed is challenged again (web_hub.go:710-713,
\* web_conn.go:536).
THEOREM DirectedEventsArrive == Spec => []DirectedEventsReachOwner
<1>1. Typed /\ Owned /\ Identified /\ [Next]_vars => (Typed /\ Owned /\ Identified)'
  BY NextTyped, NextOwned, NextIdentified
<1>2. Typed /\ Identified => DirectedEventsReachOwner
  BY DEF Typed, TypeOK, Identified, EntriesCurrent, DirectedEventsReachOwner, ConnectionTargets,
         ForConnection, Owners
<1> QED
  BY InitTyped, InitOwned, InitIdentified, <1>1, <1>2, PTL DEF Spec
=============================================================================
