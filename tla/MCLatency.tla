----------------------------- MODULE MCLatency ------------------------------
(* A small instance of Latency: a session has all the addresses, and a     *)
(* peer that is reached answers half of the pings.                         *)
EXTENDS Latency

CONSTANTS v6, v4

MCProtos == <<v6, v4>>
MCAddrOf == [u \in Sessions |-> {v6, v4}]
MCFar == {[rtt |-> 15, loss |-> 50]}
=============================================================================
