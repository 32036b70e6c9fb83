--------------------------- MODULE EndpointRefresh --------------------------
(***************************************************************************)
(* performWireGuardDNSUpdate (task_wireguard_dns.go): from a copy of the   *)
(* active sessions, peers whose handshake is old are given their endpoint  *)
(* again, which resolves its name.                                         *)
(***************************************************************************)
EXTENDS Peering

VARIABLE refresh   \* key of the copied session and whether its endpoint is to be set

RefreshTypeOK == refresh # None => refresh \in [key : Keys, due : BOOLEAN]

RefreshInit == refresh = None

StartRefresh ==
  /\ refresh = None
  /\ entry # None
  /\ IsWireguard
  /\ refresh' = [key |-> entry, due |-> FALSE]
  /\ UNCHANGED peeringVars

(* Seeded fault: a peer without any handshake is left alone.               *)
LookOnlyAtKnown ==
  /\ refresh # None /\ ~ refresh.due
  /\ \/ /\ setup.named /\ link # None
        /\ refresh' = IF HasPeer(refresh.key) /\ link.peers[refresh.key].handshake = "old"
                      THEN [refresh EXCEPT !.due = TRUE] ELSE None
        /\ UNCHANGED faults
     \/ (~ setup.named \/ link = None) /\ refresh' = None /\ UNCHANGED faults
     \/ setup.named /\ Fault /\ refresh' = None
  /\ UNCHANGED <<setup, wish, phase, entry, link, addr, changes>>

(* A session without an endpoint is left alone.  Of the others, the latest *)
(* handshake is looked at: a key the interface does not have counts as one *)
(* without; without the interface, or when the command fails, the session  *)
(* waits for the next round.                                               *)
Look ==
  /\ refresh # None /\ ~ refresh.due
  /\ \/ /\ setup.named /\ link # None
        /\ refresh' = IF HasPeer(refresh.key) /\ link.peers[refresh.key].handshake = "recent"
                      THEN None ELSE [refresh EXCEPT !.due = TRUE]
        /\ UNCHANGED faults
     \/ (~ setup.named \/ link = None) /\ refresh' = None /\ UNCHANGED faults
     \/ setup.named /\ Fault /\ refresh' = None
  /\ UNCHANGED <<setup, wish, phase, entry, link, addr, changes>>

(* The peer of the copied key is set, with the endpoint as it resolves now. *)
SetEndpoint ==
  /\ refresh # None /\ refresh.due
  /\ \/ /\ link # None
        /\ link' = [link EXCEPT !.peers = WithEndpoint(refresh.key)]
        /\ UNCHANGED faults
     \/ link = None /\ UNCHANGED <<link, faults>>
     \/ Fault /\ UNCHANGED link
  /\ refresh' = None
  /\ UNCHANGED <<setup, wish, phase, entry, addr, changes>>

Refresher == StartRefresh \/ Look \/ SetEndpoint
=============================================================================
