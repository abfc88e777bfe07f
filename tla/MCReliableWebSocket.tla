------------------------ MODULE MCReliableWebSocket ------------------------
(***************************************************************************)
(* Model checking of the reliable websocket: four events, three beside a   *)
(* failure, or two beside two failures.                                    *)
(***************************************************************************)
EXTENDS ReliableWebSocket, TLC

WithinBounds == produced + faults <= MaxEvents

Symmetry == Permutations(Conns) \cup Permutations(ConnIds) \cup Permutations(Channels)
=============================================================================
