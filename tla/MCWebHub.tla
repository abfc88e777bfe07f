------------------------------ MODULE MCWebHub ------------------------------
(***************************************************************************)
(* Model checking of the hub on two connections.                           *)
(***************************************************************************)
EXTENDS WebHub, TLC

Symmetry == Permutations(Conns) \cup Permutations(ConnIds) \cup Permutations(Channels)

\* One session lapses at a time, and none beside a stopping hub; a second
\* challenge ends the run.
OneLapse == ~ rechallenged /\ (lapsed = {} \/ (hub = "running" /\ Cardinality(lapsed) = 1))

Events == [type : {"event"}, minor : BOOLEAN]

\* For liveness, which excludes symmetry: the same actions with less data.  One
\* kind of event is enough to fill a channel, and every client has a session that
\* lasts.
Event == [type |-> "event", minor |-> FALSE]

LiveNext ==
    /\ lapsed' = {}
    /\ \/ \E c \in Conns :
            \/ \E u \in Users, id \in ConnIds :
                 \/ ConnectFresh(c, u, id)
                 \/ ConnectReuse(c, u, id)
            \/ HandlerRegister(c) \/ HandlerRegisterFails(c) \/ HandlerSkipsRegister(c)
            \/ Pump(c) \/ ReadPumpEnds(c) \/ Unregister(c)
            \/ Writer(c) \/ Collect(c)
       \/ Broadcast(byConnection, {}, Event)
       \/ \E u \in Users : InvalidateUserFails(u)
       \/ Recover
       \/ \E c \in Conns : Reap({c})
       \/ Stopping

LiveSpec == Init /\ [][LiveNext]_vars /\ Fairness
=============================================================================
