---------------------------- MODULE MCBirdQuery -----------------------------
(* A protocol with both channels, one with its first channel down, and one *)
(* BIRD does not know.                                                     *)
EXTENDS BirdQuery, TLC

MCCounts ==
  [p \in Protocols |->
     CASE p = "both" -> ("ipv4" :> 4) @@ ("ipv6" :> 6)
       [] p = "half" -> ("ipv4" :> 0) @@ ("ipv6" :> 6)
       [] p = "none" -> <<>>]

(* A channel's heading, and its routes or that it is down.                 *)
Channel(p, f) ==
  IF f \notin DOMAIN Counts[p] THEN <<>>
  ELSE <<Says("channel", f, 0)>> \o
       IF Counts[p][f] = 0 THEN <<Says("down", None, 0)>> ELSE <<Says("routes", None, Counts[p][f])>>

(* Heading and status of a protocol, then its channels; one line when      *)
(* there is no such protocol.                                              *)
MCReport ==
  [p \in Protocols |->
     IF Counts[p] = <<>> THEN <<Text>>
     ELSE <<Text, Text>> \o FlattenSeq([i \in DOMAIN SetToSeq(Families) |->
                                          Channel(p, SetToSeq(Families)[i])])]
=============================================================================
