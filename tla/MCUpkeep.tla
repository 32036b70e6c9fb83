------------------------------ MODULE MCUpkeep ------------------------------
(* WireGuard sessions with and without an endpoint that are not probed and *)
(* a probed GRE session: the refresh and the probes share nothing but the  *)
(* synchronisation.                                                        *)
EXTENDS Upkeep

MCSetups ==
  {[type |-> "wireguard", named |-> TRUE, probing |-> FALSE],
   [type |-> "wireguard", named |-> FALSE, probing |-> FALSE],
   [type |-> "gre", named |-> TRUE, probing |-> TRUE]}

MCFamilyOrder == <<"ipv6">>
=============================================================================
