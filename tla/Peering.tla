------------------------------ MODULE Peering -------------------------------
(***************************************************************************)
(* One session and its interface, as the tasks find them that keep a       *)
(* session up to date: localSessions, the kernel's interface, and the      *)
(* peer at the other end.  syncSessions is reduced to the order in which   *)
(* it changes them; its failures are SessionSync's subject.                *)
(***************************************************************************)
EXTENDS Integers

CONSTANTS
  Keys,        \* credentials the session may be given, one after the other
  Addresses,   \* addresses the name of its endpoint may resolve to
  Setups,      \* types of the session, whether it has an endpoint, cfg.PeerProbe.Enabled
  Modulus,     \* 2^64 in the code
  MaxChanges,  \* bound on what operator, peer and paths do
  MaxFaults,   \* bound on failing commands and requests
  None

ASSUME PeeringAssumption ==
  /\ Setups \subseteq [type : {"wireguard", "gre"}, named : BOOLEAN, probing : BOOLEAN]
  /\ Modulus \in Nat \ {0, 1}
  /\ MaxChanges \in Nat /\ MaxFaults \in Nat
  /\ None \notin Keys
  /\ Addresses # {}

VARIABLES
  setup,
  wish,     \* credential the center has for the session, None when it is removed
  phase,    \* how far syncSessions is
  entry,    \* credential in localSessions, None without an entry
  link,     \* the interface, None without one
  addr,     \* what the endpoint's name resolves to
  changes, faults

siteVars    == <<setup, wish, phase, entry, link, addr, changes>>
peeringVars == <<siteVars, faults>>

\* The kernel keeps, for every peer of an interface, where it sends, if it
\* knows, and when the latest handshake was: never, more than 135 s ago, or
\* since.
Peer == [at : Addresses \cup {None}, handshake : {"never", "old", "recent"}]

PeerTables == UNION {[known -> Peer] : known \in SUBSET Keys}

Links == [peers : PeerTables, bytes : 0 .. Modulus - 1]

ASSUME LinkAssumption == None \notin Links

IsWireguard == setup.type = "wireguard"

NewLink == [peers |-> [j \in {} |-> None], bytes |-> 0]

NewPeer == [at |-> IF setup.named THEN addr ELSE None, handshake |-> "never"]

HasPeer(k) == link # None /\ k \in DOMAIN link.peers

Phases == {"idle", "interface", "add", "peer", "up", "bird", "install"}

PeeringTypeOK ==
  /\ setup \in Setups
  /\ wish \in Keys \cup {None} /\ entry \in Keys \cup {None}
  /\ phase \in Phases
  /\ phase \in {"add", "peer", "up"} => wish # None
  /\ link \in Links \cup {None}
  /\ addr \in Addresses
  /\ changes \in 0 .. MaxChanges /\ faults \in 0 .. MaxFaults

(* The session is there already, or not yet; which address the name has    *)
(* first makes no difference.                                              *)
PeeringInit ==
  /\ setup \in Setups
  /\ addr = CHOOSE a \in Addresses : TRUE
  /\ wish \in Keys \cup {None}
  /\ entry = wish
  /\ link = IF wish = None THEN None
            ELSE [peers |-> [j \in (IF IsWireguard THEN {wish} ELSE {}) |-> NewPeer], bytes |-> 0]
  /\ phase = "idle"
  /\ changes = 0 /\ faults = 0

-----------------------------------------------------------------------------
(* A run of syncSessions that finds the session new, changed or gone.      *)
Change == changes < MaxChanges /\ changes' = changes + 1

Fault == faults < MaxFaults /\ faults' = faults + 1

Order(k) ==
  /\ phase = "idle"
  /\ k # wish
  /\ wish' = k
  /\ phase' = "interface"
  /\ Change
  /\ UNCHANGED <<setup, entry, link, addr, faults>>

(* deleteInterface, of which configureInterface makes use, too.            *)
DeleteLink ==
  /\ phase = "interface"
  /\ link' = None
  /\ phase' = IF wish = None THEN "bird" ELSE "add"
  /\ UNCHANGED <<setup, wish, entry, addr, changes, faults>>

AddLink ==
  /\ phase = "add"
  /\ link' = NewLink
  /\ phase' = IF IsWireguard THEN "peer" ELSE "up"
  /\ UNCHANGED <<setup, wish, entry, addr, changes, faults>>

(* Seeded fault: a peer that is set replaces those the interface has.      *)
WithPeer(k) ==
  [j \in {k} |->
     [NewPeer EXCEPT !.handshake = IF HasPeer(k) THEN link.peers[k].handshake ELSE @]]

(* wg set: the peer is added when the interface does not have it.          *)
WithEndpoint(k) ==
  [j \in DOMAIN link.peers \cup {k} |->
     IF j # k THEN link.peers[j]
     ELSE [NewPeer EXCEPT !.handshake = IF HasPeer(k) THEN link.peers[k].handshake ELSE @]]

AddPeer ==
  /\ phase = "peer" /\ link # None
  /\ link' = [link EXCEPT !.peers = WithEndpoint(wish)]
  /\ phase' = "up"
  /\ UNCHANGED <<setup, wish, entry, addr, changes, faults>>

(* Addresses and MTU are set, and the interface up.                        *)
BringUp ==
  /\ phase = "up"
  /\ phase' = "bird"
  /\ UNCHANGED <<setup, wish, entry, link, addr, changes, faults>>

Provision == DeleteLink \/ AddLink \/ AddPeer \/ BringUp

Install ==
  /\ phase = "install"
  /\ entry' = wish
  /\ phase' = "idle"
  /\ UNCHANGED <<setup, wish, link, addr, changes, faults>>

-----------------------------------------------------------------------------
(* The peer, whose key is the one the center has: it moves, it completes   *)
(* handshakes where it is reached, or starts one itself.  GRE has none.    *)
Move ==
  /\ IsWireguard
  /\ \E a \in Addresses \ {addr} : addr' = a
  /\ Change
  /\ UNCHANGED <<setup, wish, phase, entry, link, faults>>

IsUp == link # None /\ phase \notin {"peer", "up"}

Reached == IsUp /\ HasPeer(wish) /\ link.peers[wish].at = addr

Shake ==
  /\ Reached
  /\ link' = [link EXCEPT !.peers[wish].handshake = "recent"]
  /\ UNCHANGED <<setup, wish, phase, entry, addr, changes, faults>>

Roam ==
  /\ IsUp /\ HasPeer(wish)
  /\ link' = [link EXCEPT !.peers[wish] = [at |-> addr, handshake |-> "recent"]]
  /\ UNCHANGED <<setup, wish, phase, entry, addr, changes, faults>>

Expire(k) ==
  /\ HasPeer(k)
  /\ k # wish \/ ~ Reached
  /\ link.peers[k].handshake = "recent"
  /\ link' = [link EXCEPT !.peers[k].handshake = "old"]
  /\ UNCHANGED <<setup, wish, phase, entry, addr, changes, faults>>

(* A byte stands for all that is carried between two looks at the counter. *)
Carry ==
  /\ IsUp
  /\ link' = [link EXCEPT !.bytes = (@ + 1) % Modulus]
  /\ Change
  /\ UNCHANGED <<setup, wish, phase, entry, addr, faults>>
=============================================================================
