-------------------------- MODULE MCServiceListener --------------------------
(* Two services and what their handlers may stop, for TLC. *)
EXTENDS ServiceListener, TLC

CONSTANTS A, B

NoStops == [s \in Services |-> {}]
OwnStops == [s \in Services |-> {s}]
ChainStops == A :> {A, B} @@ B :> {B}
=============================================================================
