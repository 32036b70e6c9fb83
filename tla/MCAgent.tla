------------------------------ MODULE MCAgent -------------------------------
(* Small instances of Agent.                                               *)
EXTENDS Agent, MCSessionSync
=============================================================================
