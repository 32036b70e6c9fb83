---------------------------- MODULE Upkeep_proofs ---------------------------
(***************************************************************************)
(* The types of the tasks that keep a session up to date, and that these   *)
(* leave an installed session its interface and its peer, for any number   *)
(* of keys, addresses, families and faults.                                *)
(***************************************************************************)
EXTENDS Upkeep, TLAPS

LinkIs == link = None \/ link \in Links

(* The interface is not taken away, and no peer of it.                     *)
PeersStay == (link # None => link' # None) /\ \A k : HasPeer(k) => HasPeer(k)'

-----------------------------------------------------------------------------
LEMMA NewPeerIsPeer ==
  ASSUME addr \in Addresses
  PROVE  NewPeer \in Peer
  BY DEF NewPeer, Peer

(* An interface as it is made, and as the agent finds it.                  *)
LEMMA LinkIsLink ==
  ASSUME addr \in Addresses, NEW known \in SUBSET Keys
  PROVE  /\ [peers |-> [j \in known |-> NewPeer], bytes |-> 0] \in Links
         /\ NewLink \in Links
<1>1. [j \in known |-> NewPeer] \in [known -> Peer]
  BY NewPeerIsPeer
<1>2. [j \in {} |-> None] \in [{} -> Peer] /\ {} \in SUBSET Keys
  OBVIOUS
<1>3. [j \in known |-> NewPeer] \in PeerTables /\ [j \in {} |-> None] \in PeerTables
  BY <1>1, <1>2 DEF PeerTables
<1>4. 0 \in Counter
  BY PeeringAssumption DEF Counter
<1> QED
  BY <1>3, <1>4 DEF NewLink, Links, Counter

(* What PeeringTypeOK says of an interface.                                *)
LEMMA LinkTypes ==
  ASSUME NEW l \in Links
  PROVE  /\ DOMAIN l.peers \subseteq Keys
         /\ \A k \in DOMAIN l.peers : l.peers[k] \in Peer
         /\ l.bytes \in Counter
         /\ l # None
         /\ l = [peers |-> l.peers, bytes |-> l.bytes]
         /\ l.peers = [k \in DOMAIN l.peers |-> l.peers[k]]
<1>1. l.peers \in PeerTables /\ l.bytes \in Counter /\ l = [peers |-> l.peers, bytes |-> l.bytes]
  BY DEF Links, Counter
<1>3. l # None
  BY LinkAssumption
<1>2. PICK known \in SUBSET Keys : l.peers \in [known -> Peer]
  BY <1>1 DEF PeerTables
<1> QED
  BY <1>1, <1>2, <1>3

LEMMA PeersChange ==
  ASSUME link \in Links, NEW ps \in PeerTables, link' = [link EXCEPT !.peers = ps],
         DOMAIN link.peers \subseteq DOMAIN ps
  PROVE  LinkIs' /\ PeersStay
<1>1. link' \in Links /\ link'.peers = ps
  BY DEF Links
<1>2. link' # None
  BY <1>1, LinkAssumption
<1> QED
  BY <1>1, <1>2 DEF LinkIs, PeersStay, HasPeer

LEMMA PeerChanges ==
  ASSUME NEW ps \in PeerTables, NEW k, NEW p \in Peer
  PROVE  /\ [ps EXCEPT ![k] = p] \in PeerTables
         /\ DOMAIN ps \subseteq DOMAIN [ps EXCEPT ![k] = p]
<1>1. PICK known \in SUBSET Keys : ps \in [known -> Peer]
  BY DEF PeerTables
<1>2. [ps EXCEPT ![k] = p] \in [known -> Peer]
  BY <1>1
<1> QED
  BY <1>1, <1>2 DEF PeerTables

-----------------------------------------------------------------------------
(* The remaining conjuncts of UpkeepTypeOK.                                *)
Rest ==
  /\ setup \in Setups
  /\ wish \in Keys \cup {None} /\ entry \in Keys \cup {None}
  /\ phase \in Phases
  /\ phase \in {"add", "peer", "up"} => wish # None
  /\ addr \in Addresses
  /\ changes \in 0 .. MaxChanges /\ faults \in 0 .. MaxFaults

LEMMA InvParts == UpkeepTypeOK <=> LinkIs /\ Rest /\ RefreshTypeOK /\ RatesTypeOK /\ ProbeTypeOK
<1>1. PeeringTypeOK <=> LinkIs /\ Rest
  BY DEF PeeringTypeOK, LinkIs, Rest
<1> QED
  BY <1>1 DEF UpkeepTypeOK

LEMMA UpkeepTypeInit == UpkeepInit => UpkeepTypeOK
<1> SUFFICES ASSUME UpkeepInit PROVE UpkeepTypeOK
  OBVIOUS
<1>2. Rest
  <2>1. (CHOOSE a \in Addresses : TRUE) \in Addresses
    BY PeeringAssumption
  <2> QED
    BY <2>1, PeeringAssumption DEF UpkeepInit, PeeringInit, Rest, Phases
<1>1. LinkIs
  <2> DEFINE known == IF IsWireguard THEN {wish} ELSE {}
  <2>1. wish # None => known \in SUBSET Keys
    BY <1>2 DEF Rest
  <2>2. wish # None => link = [peers |-> [j \in known |-> NewPeer], bytes |-> 0]
    BY DEF UpkeepInit, PeeringInit
  <2>3. wish = None => link = None
    BY DEF UpkeepInit, PeeringInit
  <2> HIDE DEF known
  <2> QED
    BY <1>2, <2>1, <2>2, <2>3, LinkIsLink DEF Rest, LinkIs
<1>3. RefreshTypeOK /\ RatesTypeOK
  BY DEF UpkeepInit, RefreshInit, RatesInit, RefreshTypeOK, RatesTypeOK
<1>4. ProbeTypeOK
  <2>1. Len(<<>>) <= Len(FamilyOrder) /\ <<>> \in Seq(BOOLEAN)
    BY ProbeAssumption
  <2> DEFINE unset == [i \in DOMAIN FamilyOrder |-> FALSE]
  <2>2. unset \in Seq(BOOLEAN) /\ Len(unset) = Len(FamilyOrder)
    <3>1. Len(FamilyOrder) \in Nat /\ DOMAIN FamilyOrder = 1 .. Len(FamilyOrder)
      BY ProbeAssumption
    <3>2. unset \in [1 .. Len(FamilyOrder) -> BOOLEAN]
      BY <3>1
    <3> HIDE DEF unset
    <3> QED
      BY <3>1, <3>2
  <2>3. file \in {None, unset}
    BY DEF UpkeepInit, ProbeInit
  <2> HIDE DEF unset
  <2> QED
    BY <2>1, <2>2, <2>3 DEF UpkeepInit, ProbeInit, ProbeTypeOK
<1> QED
  BY <1>1, <1>2, <1>3, <1>4, InvParts

-----------------------------------------------------------------------------
(* The interface.                                                          *)
LEMMA HeldPeer ==
  ASSUME LinkIs, NEW k, HasPeer(k)
  PROVE  /\ link \in Links /\ link.peers \in PeerTables /\ k \in DOMAIN link.peers
         /\ link.peers[k] \in Peer
<1>1. link \in Links /\ k \in DOMAIN link.peers
  BY DEF LinkIs, HasPeer
<1> QED
  BY <1>1, LinkTypes DEF Links

LEMMA ShakeLink == LinkIs /\ Rest /\ Shake => LinkIs' /\ PeersStay
<1> SUFFICES ASSUME LinkIs, Rest, Shake PROVE LinkIs' /\ PeersStay
  OBVIOUS
<1>1. HasPeer(wish) /\ link' = [link EXCEPT !.peers[wish].handshake = "recent"]
  BY DEF Shake, Reached
<1>2. link \in Links /\ link.peers \in PeerTables /\ link.peers[wish] \in Peer
  BY <1>1, HeldPeer
<1> DEFINE p == [link.peers[wish] EXCEPT !.handshake = "recent"]
           ps == [link.peers EXCEPT ![wish] = p]
<1>3. p \in Peer
  BY <1>2 DEF Peer
<1>4. link' = [link EXCEPT !.peers = ps]
  BY <1>1
<1> HIDE DEF p
<1>5. ps \in PeerTables /\ DOMAIN link.peers \subseteq DOMAIN ps
  BY <1>2, <1>3, PeerChanges
<1> HIDE DEF ps
<1> QED
  BY <1>2, <1>4, <1>5, PeersChange

LEMMA RoamLink == LinkIs /\ Rest /\ Roam => LinkIs' /\ PeersStay
<1> SUFFICES ASSUME LinkIs, Rest, Roam PROVE LinkIs' /\ PeersStay
  OBVIOUS
<1> DEFINE p == [at |-> addr, handshake |-> "recent"]
           ps == [link.peers EXCEPT ![wish] = p]
<1>1. HasPeer(wish) /\ link' = [link EXCEPT !.peers = ps]
  BY DEF Roam
<1>2. link \in Links /\ link.peers \in PeerTables
  BY <1>1, HeldPeer
<1>3. p \in Peer
  BY DEF Peer, Rest
<1> HIDE DEF p
<1>4. ps \in PeerTables /\ DOMAIN link.peers \subseteq DOMAIN ps
  BY <1>2, <1>3, PeerChanges
<1> HIDE DEF ps
<1> QED
  BY <1>1, <1>2, <1>4, PeersChange

LEMMA ExpireLink ==
  ASSUME NEW k \in Keys, LinkIs, Expire(k)
  PROVE  LinkIs' /\ PeersStay
<1> DEFINE p == [link.peers[k] EXCEPT !.handshake = "old"]
           ps == [link.peers EXCEPT ![k] = p]
<1>1. HasPeer(k) /\ link' = [link EXCEPT !.peers = ps]
  BY DEF Expire
<1>2. link \in Links /\ link.peers \in PeerTables /\ link.peers[k] \in Peer
  BY <1>1, HeldPeer
<1>3. p \in Peer
  BY <1>2 DEF Peer
<1> HIDE DEF p
<1>4. ps \in PeerTables /\ DOMAIN link.peers \subseteq DOMAIN ps
  BY <1>2, <1>3, PeerChanges
<1> HIDE DEF ps
<1> QED
  BY <1>1, <1>2, <1>4, PeersChange

(* A difference or a sum of counters is one again.                         *)
LEMMA Wraps ==
  ASSUME NEW n \in Int
  PROVE  n % Modulus \in Counter
<1>1. Modulus \in Nat /\ Modulus > 0
  BY PeeringAssumption
<1>2. n % Modulus \in 0 .. (Modulus - 1)
  BY <1>1
<1> QED
  BY <1>2 DEF Counter

LEMMA CarryLink == LinkIs /\ Carry => LinkIs' /\ PeersStay
<1> SUFFICES ASSUME LinkIs, Carry PROVE LinkIs' /\ PeersStay
  OBVIOUS
<1> DEFINE b == (link.bytes + 1) % Modulus
<1>1. link \in Links /\ link' = [link EXCEPT !.bytes = b]
  BY DEF Carry, IsUp, LinkIs
<1>2. link.bytes + 1 \in Int
  BY <1>1, PeeringAssumption DEF Links, Counter
<1>3. b \in Counter
  BY <1>2, Wraps
<1> HIDE DEF b
<1>4. link' \in Links /\ link'.peers = link.peers
  BY <1>1, <1>3 DEF Links, Counter
<1> QED
  BY <1>4, LinkAssumption DEF LinkIs, PeersStay, HasPeer

(* wg set adds a peer or changes one.                                      *)
LEMMA EndpointPeers ==
  ASSUME link \in Links, Rest, NEW k \in Keys
  PROVE  /\ WithEndpoint(k) \in PeerTables
         /\ DOMAIN link.peers \subseteq DOMAIN WithEndpoint(k)
         /\ k \in DOMAIN WithEndpoint(k)
<1> DEFINE ps == WithEndpoint(k)
           known == DOMAIN link.peers \cup {k}
           p == [NewPeer EXCEPT !.handshake = IF HasPeer(k) THEN link.peers[k].handshake ELSE @]
<1>1. /\ DOMAIN link.peers \subseteq Keys
      /\ \A j \in DOMAIN link.peers : link.peers[j] \in Peer
  BY LinkTypes
<1>2. HasPeer(k) => link.peers[k] \in Peer
  BY HeldPeer DEF LinkIs
<1>3. p \in Peer
  BY <1>2, NewPeerIsPeer DEF Peer, Rest
<1>4. ps = [j \in known |-> IF j # k THEN link.peers[j] ELSE p]
  BY DEF WithEndpoint
<1> HIDE DEF p, ps
<1>5. ps \in [known -> Peer] /\ known \in SUBSET Keys
  BY <1>1, <1>3, <1>4
<1>6. DOMAIN ps = known
  BY <1>4
<1> HIDE DEF known
<1>7. ps \in PeerTables
  BY <1>5 DEF PeerTables
<1> QED
  BY <1>6, <1>7 DEF ps, known

LEMMA EndpointLink ==
  ASSUME link \in Links, Rest, NEW k \in Keys,
         link' = [link EXCEPT !.peers = WithEndpoint(k)]
  PROVE  LinkIs' /\ PeersStay /\ HasPeer(k)'
<1> DEFINE ps == WithEndpoint(k)
<1>1. /\ ps \in PeerTables /\ DOMAIN link.peers \subseteq DOMAIN ps /\ k \in DOMAIN ps
      /\ link' = [link EXCEPT !.peers = ps]
  BY EndpointPeers
<1> HIDE DEF ps
<1>2. LinkIs' /\ PeersStay
  BY <1>1, PeersChange
<1>3. link' \in Links /\ link'.peers = ps
  BY <1>1 DEF Links
<1>4. link' # None
  BY <1>3, LinkAssumption
<1> QED
  BY <1>1, <1>2, <1>3, <1>4 DEF HasPeer

LEMMA SetEndpointLink == LinkIs /\ Rest /\ RefreshTypeOK /\ SetEndpoint => LinkIs' /\ PeersStay
<1> SUFFICES ASSUME LinkIs, Rest, RefreshTypeOK, SetEndpoint PROVE LinkIs' /\ PeersStay
  OBVIOUS
<1>1. CASE UNCHANGED link
  BY <1>1 DEF LinkIs, PeersStay, HasPeer
<1>2. CASE ~ UNCHANGED link
  <2>1. link \in Links /\ refresh.key \in Keys
    BY <1>2 DEF LinkIs, RefreshTypeOK, SetEndpoint
  <2>2. link' = [link EXCEPT !.peers = WithEndpoint(refresh.key)]
    BY <1>2 DEF SetEndpoint
  <2> QED
    BY <2>1, <2>2, EndpointLink
<1> QED
  BY <1>1, <1>2

(* The run makes the interface anew, and then its peer.                    *)
LEMMA ProvisionLink ==
  ASSUME LinkIs, Rest, Provision
  PROVE  LinkIs'
<1>1. CASE DeleteLink
  BY <1>1 DEF DeleteLink, LinkIs
<1>2. CASE AddLink
  <2>1. {} \in SUBSET Keys
    OBVIOUS
  <2> QED
    BY <1>2, <2>1, LinkIsLink DEF AddLink, LinkIs, Rest
<1>3. CASE AddPeer
  BY <1>3, EndpointLink DEF AddPeer, LinkIs, Rest
<1>4. CASE BringUp
  BY <1>4 DEF BringUp, LinkIs
<1> QED
  BY <1>1, <1>2, <1>3, <1>4 DEF Provision

-----------------------------------------------------------------------------
(* The steps.                                                              *)
LEMMA Counts ==
  ASSUME Rest
  PROVE  /\ Change => changes' \in 0 .. MaxChanges
         /\ Fault => faults' \in 0 .. MaxFaults
  BY PeeringAssumption DEF Rest, Change, Fault

LEMMA RefresherTypes ==
  ASSUME LinkIs, Rest, RefreshTypeOK, Refresher
  PROVE  LinkIs' /\ Rest' /\ RefreshTypeOK'
<1>1. CASE StartRefresh
  <2>1. RefreshTypeOK'
    BY <1>1 DEF StartRefresh, RefreshTypeOK, Rest
  <2> QED
    BY <1>1, <2>1 DEF StartRefresh, peeringVars, siteVars, LinkIs, Rest
<1>2. CASE Look
  <2>1. refresh \in [key : Keys, due : BOOLEAN] /\ refresh' \in {None, [refresh EXCEPT !.due = TRUE]}
    BY <1>2 DEF Look, RefreshTypeOK
  <2>2. [refresh EXCEPT !.due = TRUE] \in [key : Keys, due : BOOLEAN]
    BY <2>1
  <2>3. RefreshTypeOK'
    BY <2>1, <2>2 DEF RefreshTypeOK
  <2> QED
    BY <1>2, <2>3, Counts DEF Look, LinkIs, Rest
<1>3. CASE SetEndpoint
  <2>1. RefreshTypeOK'
    BY <1>3 DEF SetEndpoint, RefreshTypeOK
  <2>2. Rest'
    BY <1>3, Counts DEF SetEndpoint, Rest
  <2> QED
    BY <1>3, <2>1, <2>2, SetEndpointLink
<1> QED
  BY <1>1, <1>2, <1>3 DEF Refresher

LEMMA MonitorTypes ==
  ASSUME LinkIs, Rest, RatesTypeOK, Monitor
  PROVE  LinkIs' /\ Rest' /\ RatesTypeOK'
<1>1. NetStats \in Counter \cup {None}
  BY LinkTypes DEF NetStats, LinkIs
<1>2. CASE ReadFirst
  BY <1>1, <1>2, Counts DEF ReadFirst, RatesTypeOK, siteVars, LinkIs, Rest
<1>3. CASE StoreRate
  <2>1. Rate \in Counter \cup {None}
    <3>1. CASE stats # None /\ NetStats # None
      <4>1. stats \in Counter /\ NetStats \in Counter
        BY <1>1, <3>1 DEF RatesTypeOK
      <4>2. NetStats - stats \in Int
        BY <4>1, PeeringAssumption DEF Counter
      <4>3. Rate = (NetStats - stats) % Modulus
        BY <3>1 DEF Rate
      <4> QED
        BY <4>2, <4>3, Wraps
    <3>2. CASE stats = None /\ NetStats # None
      BY <3>2, PeeringAssumption DEF Rate, Counter
    <3>3. CASE NetStats = None
      BY <3>3 DEF Rate, RatesTypeOK
    <3> QED
      BY <3>1, <3>2, <3>3
  <2> QED
    BY <1>3, <2>1, Counts DEF StoreRate, RatesTypeOK, siteVars, LinkIs, Rest
<1> QED
  BY <1>2, <1>3 DEF Monitor

LEMMA ProberTypes ==
  ASSUME LinkIs, Rest, ProbeTypeOK, Prober \/ Judge \/ PathChanges
  PROVE  LinkIs' /\ Rest' /\ ProbeTypeOK'
<1>1. CASE StartProbe
  BY <1>1 DEF StartProbe, peeringVars, siteVars, fileVars, LinkIs, Rest, ProbeTypeOK
<1>2. CASE SendProbes
  BY <1>2 DEF SendProbes, peeringVars, siteVars, fileVars, LinkIs, Rest, ProbeTypeOK
<1>3. CASE FetchSummaries
  BY <1>3, Counts DEF FetchSummaries, siteVars, fileVars, LinkIs, Rest, ProbeTypeOK
<1>4. CASE Judge
  BY <1>4 DEF Judge, peeringVars, siteVars, fileVars, LinkIs, Rest, ProbeTypeOK
<1>5. CASE PathChanges
  BY <1>5, Counts DEF PathChanges, fileVars, LinkIs, Rest, ProbeTypeOK
<1> QED
  BY <1>1, <1>2, <1>3, <1>4, <1>5 DEF Prober

LEMMA EmptyFile == <<>> \in Seq(BOOLEAN) /\ Len(<<>>) = 0 /\ 0 <= Len(FamilyOrder)
  BY ProbeAssumption

(* What is written is a flag for each of the families.                     *)
LEMMA WriteTypes ==
  ASSUME ProbeTypeOK, WriteFile
  PROVE  /\ file' \in Seq(BOOLEAN) /\ Len(file') = Len(FamilyOrder)
         /\ flags' \in Seq(BOOLEAN) /\ Len(flags') <= Len(FamilyOrder)
         /\ writer' = None /\ flags' = <<>>
<1>1. flags \in Seq(BOOLEAN) /\ Len(flags) = Len(FamilyOrder) /\ FamilyOrder \in Seq({"ipv4", "ipv6"})
  BY ProbeAssumption DEF ProbeTypeOK, WriteFile
<1>2. <<>> \in Seq(BOOLEAN) /\ Len(<<>>) <= Len(FamilyOrder)
  BY <1>1
<1> QED
  BY <1>1, <1>2 DEF WriteFile, LetGo

LEMMA WriterTypes ==
  ASSUME LinkIs, Rest, ProbeTypeOK, Writer \/ Updater \/ LookUpFlag
  PROVE  LinkIs' /\ Rest' /\ ProbeTypeOK'
<1>1. CASE ConfigureBird
  BY <1>1 DEF ConfigureBird, TakeFile, peeringVars, siteVars, probeVars, LinkIs, Rest, ProbeTypeOK
<1>2. CASE Configured
  <2>1. /\ file' \in Seq(BOOLEAN) /\ Len(file') = Len(FamilyOrder)
        /\ flags' \in Seq(BOOLEAN) /\ Len(flags') <= Len(FamilyOrder)
        /\ writer' = None /\ flags' = <<>>
    BY <1>2, WriteTypes DEF Configured
  <2> QED
    BY <1>2, <2>1 DEF Configured, probeVars, LinkIs, Rest, Phases, ProbeTypeOK
<1>3. CASE DeleteBird
  BY <1>3 DEF DeleteBird, probeVars, LinkIs, Rest, Phases, ProbeTypeOK
<1>4. CASE StartUpdate
  BY <1>4 DEF StartUpdate, peeringVars, siteVars, probeVars, LinkIs, Rest, ProbeTypeOK
<1>5. CASE UpdateFile
  <2>1. CASE TakeFile("updater") /\ UNCHANGED <<copied, faults>>
    BY <1>5, <2>1, EmptyFile DEF UpdateFile, TakeFile, siteVars, probeVars, LinkIs, Rest, ProbeTypeOK
  <2>2. CASE Fault /\ UNCHANGED writer /\ file' \in {file, None} /\ copied' = FALSE
    BY <1>5, <2>2, Counts DEF UpdateFile, siteVars, probeVars, LinkIs, Rest, ProbeTypeOK
  <2> QED
    BY <1>5, <2>1, <2>2 DEF UpdateFile
<1>6. CASE Updated
  <2>1. CASE WriteFile /\ UNCHANGED faults
    <3>1. /\ file' \in Seq(BOOLEAN) /\ Len(file') = Len(FamilyOrder)
          /\ flags' \in Seq(BOOLEAN) /\ Len(flags') <= Len(FamilyOrder)
          /\ writer' = None /\ flags' = <<>>
      BY <2>1, WriteTypes
    <3> QED
      BY <1>6, <2>1, <3>1 DEF Updated, siteVars, probeVars, LinkIs, Rest, ProbeTypeOK
  <2>2. CASE Fault /\ LetGo /\ UNCHANGED file
    BY <1>6, <2>2, Counts, EmptyFile DEF Updated, LetGo, siteVars, probeVars, LinkIs, Rest, ProbeTypeOK
  <2> QED
    BY <1>6, <2>1, <2>2 DEF Updated
<1>7. CASE LookUpFlag
  <2> DEFINE flag == FamilyOrder[Len(flags) + 1] \in summary
  <2>1. flags \in Seq(BOOLEAN) /\ flag \in BOOLEAN /\ Len(flags) < Len(FamilyOrder)
        /\ Len(FamilyOrder) \in Nat /\ flags' = Append(flags, flag)
    BY <1>7, ProbeAssumption DEF LookUpFlag, ProbeTypeOK
  <2> HIDE DEF flag
  <2>2. flags' \in Seq(BOOLEAN) /\ Len(flags') <= Len(FamilyOrder)
    BY <2>1
  <2> QED
    BY <1>7, <2>2 DEF LookUpFlag, peeringVars, siteVars, probeVars, LinkIs, Rest, ProbeTypeOK
<1> QED
  BY <1>1, <1>2, <1>3, <1>4, <1>5, <1>6, <1>7 DEF Writer, Updater

LEMMA PeerTypes ==
  ASSUME LinkIs, Rest,
         \/ Provision \/ Install \/ Shake \/ Move \/ Roam \/ Carry
         \/ \E k \in Keys : Expire(k)
         \/ \E k \in Keys \cup {None} : Order(k)
  PROVE  LinkIs' /\ Rest'
<1>1. CASE Provision
  <2>1. Rest'
    BY <1>1 DEF Provision, DeleteLink, AddLink, AddPeer, BringUp, Rest, Phases
  <2> QED
    BY <1>1, <2>1, ProvisionLink
<1>2. CASE Install
  BY <1>2 DEF Install, Rest, Phases, LinkIs
<1>3. CASE Shake
  BY <1>3, ShakeLink DEF Shake, Rest
<1>4. CASE Move
  BY <1>4, Counts DEF Move, Rest, LinkIs
<1>5. CASE Roam
  BY <1>5, RoamLink DEF Roam, Rest
<1>6. CASE Carry
  <2>1. Rest'
    BY <1>6, Counts DEF Carry, Rest
  <2> QED
    BY <1>6, <2>1, CarryLink
<1>7. ASSUME NEW k \in Keys, Expire(k) PROVE LinkIs' /\ Rest'
  BY <1>7, ExpireLink DEF Expire, Rest
<1>8. ASSUME NEW k \in Keys \cup {None}, Order(k) PROVE LinkIs' /\ Rest'
  BY <1>8, Counts DEF Order, Rest, Phases, LinkIs
<1> QED
  BY <1>1, <1>2, <1>3, <1>4, <1>5, <1>6, <1>7, <1>8

LEMMA UpkeepStep == UpkeepTypeOK /\ [UpkeepNext]_upkeepVars => UpkeepTypeOK'
<1> SUFFICES ASSUME LinkIs, Rest, RefreshTypeOK, RatesTypeOK, ProbeTypeOK, [UpkeepNext]_upkeepVars
             PROVE  LinkIs' /\ Rest' /\ RefreshTypeOK' /\ RatesTypeOK' /\ ProbeTypeOK'
  <2>1. UpkeepTypeOK <=> LinkIs /\ Rest /\ RefreshTypeOK /\ RatesTypeOK /\ ProbeTypeOK
    BY InvParts
  <2>2. (UpkeepTypeOK <=> LinkIs /\ Rest /\ RefreshTypeOK /\ RatesTypeOK /\ ProbeTypeOK)'
    BY InvParts, PTL
  <2> QED
    BY <2>1, <2>2
<1>1. UNCHANGED refresh => RefreshTypeOK'
  BY DEF RefreshTypeOK
<1>2. UNCHANGED rateVars => RatesTypeOK'
  BY DEF rateVars, RatesTypeOK
<1>3. UNCHANGED <<probeVars, fileVars>> => ProbeTypeOK'
  BY DEF probeVars, fileVars, ProbeTypeOK
<1>4. CASE Refreshes
  BY <1>2, <1>3, <1>4, RefresherTypes DEF Refreshes
<1>5. CASE Monitors
  BY <1>1, <1>3, <1>5, MonitorTypes DEF Monitors
<1>6. CASE Probes \/ Judges
  BY <1>1, <1>2, <1>6, ProberTypes DEF Probes, Judges
<1>7. CASE Updates \/ LooksUp
  BY <1>1, <1>2, <1>7, WriterTypes DEF Updates, LooksUp
<1>8. CASE Syncs
  BY <1>1, <1>2, <1>3, <1>8, PeerTypes, WriterTypes DEF Syncs
<1>9. CASE Handshakes
  BY <1>1, <1>2, <1>3, <1>9, PeerTypes DEF Handshakes
<1>10. CASE Environment
  BY <1>1, <1>2, <1>3, <1>10, PeerTypes, ProberTypes DEF Environment
<1>11. CASE UNCHANGED upkeepVars
  BY <1>1, <1>2, <1>3, <1>11 DEF upkeepVars, peeringVars, siteVars, LinkIs, Rest
<1> QED
  BY <1>4, <1>5, <1>6, <1>7, <1>8, <1>9, <1>10, <1>11 DEF UpkeepNext

(* With the synchronisation making, rekeying and removing the interface    *)
(* under them, the tasks keep to their types: a counter and a rate stay    *)
(* below the modulus, no peer has a key the session never had, a file has  *)
(* one flag for each family, and between two writers nothing that was      *)
(* looked up is left (task_wireguard_dns.go, task_monitoring.go,           *)
(* task_peer_probe_get_summary.go, session.go:450-461).                    *)
THEOREM UpkeepTypes == UpkeepSpec => []UpkeepTypeOK
<1>1. UpkeepInit => UpkeepTypeOK
  BY UpkeepTypeInit
<1>2. UpkeepTypeOK /\ [UpkeepNext]_upkeepVars => UpkeepTypeOK'
  BY UpkeepStep
<1> QED
  BY <1>1, <1>2, PTL DEF UpkeepSpec

-----------------------------------------------------------------------------
(* What a run of syncSessions has made of a session it is about to install:*)
(* the interface, with the peer of the wanted key, which are ready before  *)
(* it turns to the file; it holds birdConfMutex in that phase only.        *)
Backed(k) == link # None /\ (IsWireguard => HasPeer(k))

Making  == wish # None /\ phase \in {"up", "bird", "install"} => Backed(wish)
Writing == writer = "sync" => phase = "bird"

Keeping == InstalledHasPeer /\ Making /\ Writing

LEMMA KeepingInit == UpkeepInit => Keeping
<1> SUFFICES ASSUME UpkeepInit PROVE Keeping
  OBVIOUS
<1>1. entry = wish /\ phase = "idle" /\ writer = None
  BY DEF UpkeepInit, PeeringInit, ProbeInit
<1>2. ASSUME wish # None PROVE Backed(wish)
  <2> DEFINE known == IF IsWireguard THEN {wish} ELSE {}
  <2>1. known \in SUBSET Keys /\ addr \in Addresses
    BY <1>2, UpkeepTypeInit, InvParts DEF Rest
  <2>2. link = [peers |-> [j \in known |-> NewPeer], bytes |-> 0]
    BY <1>2 DEF UpkeepInit, PeeringInit
  <2> HIDE DEF known
  <2>3. link \in Links /\ DOMAIN link.peers = known
    BY <2>1, <2>2, LinkIsLink
  <2>4. link # None
    BY <2>3, LinkAssumption
  <2> QED
    BY <2>3, <2>4 DEF Backed, HasPeer, known
<1> QED
  BY <1>1, <1>2, ProbeAssumption DEF Keeping, InstalledHasPeer, Backed, Making, Writing

(* Steps of the others.                                                    *)
LEMMA OthersKeep ==
  ASSUME Keeping, UNCHANGED <<setup, phase, entry, wish>>, PeersStay,
         writer' = "sync" => writer = "sync"
  PROVE  Keeping'
<1>1. InstalledHasPeer'
  BY DEF Keeping, InstalledHasPeer, PeersStay, IsWireguard
<1>2. Making'
  BY DEF Keeping, Making, PeersStay, Backed, IsWireguard
<1>3. Writing'
  BY DEF Keeping, Writing
<1> QED
  BY <1>1, <1>2, <1>3 DEF Keeping

LEMMA SameLink == UNCHANGED link => PeersStay
  BY DEF PeersStay, HasPeer

(* What the peer and WireGuard do, and the refresh.                        *)
LEMMA PeersKept ==
  ASSUME UpkeepTypeOK,
         \/ Shake \/ Roam \/ Carry \/ Move \/ Refresher
         \/ \E k \in Keys : Expire(k)
  PROVE  PeersStay /\ UNCHANGED <<setup, phase, entry, wish>>
<1>1. LinkIs /\ Rest /\ RefreshTypeOK
  BY InvParts
<1>2. CASE Shake
  BY <1>1, <1>2, ShakeLink DEF Shake
<1>3. CASE Roam
  BY <1>1, <1>3, RoamLink DEF Roam
<1>4. CASE Carry
  BY <1>1, <1>4, CarryLink DEF Carry
<1>5. CASE Move
  BY <1>5, SameLink DEF Move
<1>6. CASE StartRefresh
  BY <1>6, SameLink DEF StartRefresh, peeringVars, siteVars
<1>7. CASE Look
  BY <1>7, SameLink DEF Look
<1>8. CASE SetEndpoint
  BY <1>1, <1>8, SetEndpointLink DEF SetEndpoint
<1>9. ASSUME NEW k \in Keys, Expire(k) PROVE PeersStay /\ UNCHANGED <<setup, phase, entry, wish>>
  BY <1>1, <1>9, ExpireLink DEF Expire
<1> QED
  BY <1>2, <1>3, <1>4, <1>5, <1>6, <1>7, <1>8, <1>9 DEF Refresher

LEMMA WritersKeep ==
  ASSUME UpkeepTypeOK, Keeping, Prober \/ Judge \/ PathChanges \/ LookUpFlag \/ Updater
  PROVE  Keeping'
<1>1. CASE Prober \/ Judge \/ PathChanges \/ LookUpFlag \/ StartUpdate
  <2>1. UNCHANGED <<setup, phase, entry, wish, link, writer>>
    BY <1>1 DEF Prober, StartProbe, SendProbes, FetchSummaries, Judge, PathChanges, LookUpFlag,
                StartUpdate, peeringVars, siteVars, fileVars
  <2> QED
    BY <2>1, SameLink, OthersKeep
<1>2. CASE UpdateFile
  <2>1. UNCHANGED <<setup, phase, entry, wish, link>> /\ writer' \in {"updater", writer}
    BY <1>2 DEF UpdateFile, TakeFile, siteVars
  <2> QED
    BY <2>1, SameLink, OthersKeep
<1>3. CASE Updated
  <2>1. UNCHANGED <<setup, phase, entry, wish, link>> /\ writer' = None
    BY <1>3 DEF Updated, WriteFile, LetGo, siteVars
  <2> QED
    BY <2>1, SameLink, OthersKeep, ProbeAssumption
<1> QED
  BY <1>1, <1>2, <1>3 DEF Updater

(* The steps of the run.                                                   *)
LEMMA OrderKeeps ==
  ASSUME NEW k \in Keys \cup {None}, Keeping, Order(k), UNCHANGED writer
  PROVE  Keeping'
<1>1. phase = "idle" /\ phase' = "interface" /\ UNCHANGED <<setup, entry, link>>
  BY DEF Order
<1>2. writer # "sync"
  BY <1>1 DEF Keeping, Writing
<1> QED
  BY <1>1, <1>2 DEF Keeping, InstalledHasPeer, Making, Writing, IsWireguard, HasPeer

LEMMA ProvisionKeeps ==
  ASSUME UpkeepTypeOK, Keeping, Provision, UNCHANGED writer
  PROVE  Keeping'
<1>1. LinkIs /\ Rest
  BY InvParts
<1>2. UNCHANGED <<setup, wish, entry>> /\ writer' # "sync" /\ phase' \notin {"idle", "interface", "install"}
  BY DEF Provision, DeleteLink, AddLink, AddPeer, BringUp, Keeping, Writing
<1>3. Making'
  <2>1. CASE DeleteLink
    BY <2>1 DEF DeleteLink, Making
  <2>2. CASE AddLink
    <3>1. {} \in SUBSET Keys
      OBVIOUS
    <3>2. link' # None
      BY <1>1, <2>2, <3>1, LinkIsLink, LinkAssumption DEF AddLink, Rest
    <3> QED
      BY <2>2, <3>2 DEF AddLink, Making, Backed, IsWireguard
  <2>3. CASE AddPeer
    <3>1. HasPeer(wish)'
      BY <1>1, <2>3, EndpointLink DEF AddPeer, LinkIs, Rest
    <3> QED
      BY <1>2, <3>1 DEF Making, Backed, HasPeer
  <2>4. CASE BringUp
    BY <2>4 DEF BringUp, Keeping, Making, Backed, IsWireguard, HasPeer
  <2> QED
    BY <2>1, <2>2, <2>3, <2>4 DEF Provision
<1> QED
  BY <1>2, <1>3 DEF Keeping, InstalledHasPeer, Writing

LEMMA WriterKeeps ==
  ASSUME Keeping, Writer
  PROVE  Keeping'
<1>1. UNCHANGED <<setup, entry, wish, link>> /\ phase = "bird"
      /\ phase' \in {"bird", "install"} /\ (writer' = "sync" => phase' = "bird")
  BY ProbeAssumption
  DEF Writer, ConfigureBird, Configured, DeleteBird, WriteFile, LetGo, TakeFile,
      peeringVars, siteVars, Keeping, Writing
<1> QED
  BY <1>1 DEF Keeping, InstalledHasPeer, Making, Writing, Backed, IsWireguard, HasPeer

LEMMA InstallKeeps ==
  ASSUME Keeping, Install, UNCHANGED writer
  PROVE  Keeping'
<1>1. phase = "install" /\ phase' = "idle" /\ entry' = wish /\ UNCHANGED <<setup, wish, link>>
  BY DEF Install
<1>2. writer # "sync"
  BY <1>1 DEF Keeping, Writing
<1> QED
  BY <1>1, <1>2 DEF Keeping, InstalledHasPeer, Making, Writing, Backed, IsWireguard, HasPeer

LEMMA KeepingStep == UpkeepTypeOK /\ Keeping /\ [UpkeepNext]_upkeepVars => Keeping'
<1> SUFFICES ASSUME UpkeepTypeOK, Keeping, [UpkeepNext]_upkeepVars PROVE Keeping'
  OBVIOUS
<1>1. CASE Refreshes \/ Handshakes
  BY <1>1, PeersKept, OthersKeep DEF Refreshes, Handshakes, fileVars
<1>2. CASE Monitors
  <2>1. UNCHANGED <<setup, phase, entry, wish, link, writer>>
    BY <1>2 DEF Monitors, Monitor, ReadFirst, StoreRate, peeringVars, siteVars, fileVars
  <2> QED
    BY <2>1, SameLink, OthersKeep
<1>3. CASE Probes \/ Judges \/ Updates \/ LooksUp
  BY <1>3, WritersKeep DEF Probes, Judges, Updates, LooksUp
<1>4. CASE Syncs
  BY <1>4, ProvisionKeeps, InstallKeeps, WriterKeeps DEF Syncs, fileVars
<1>5. CASE Environment
  <2>1. ASSUME NEW k \in Keys \cup {None}, Order(k), UNCHANGED fileVars PROVE Keeping'
    BY <2>1, OrderKeeps DEF fileVars
  <2>2. CASE (Move \/ Roam \/ Carry) /\ UNCHANGED fileVars
    BY <2>2, PeersKept, OthersKeep DEF fileVars
  <2> QED
    BY <1>5, <2>1, <2>2, WritersKeep DEF Environment
<1>6. CASE UNCHANGED upkeepVars
  BY <1>6, SameLink, OthersKeep DEF upkeepVars, peeringVars, siteVars, fileVars
<1> QED
  BY <1>1, <1>2, <1>3, <1>4, <1>5, <1>6 DEF UpkeepNext

(* However late the refresh sets the endpoint of a key it copied, also on  *)
(* an interface that has no peer yet, an installed session keeps its       *)
(* interface and in it the peer of its own key until a run of syncSessions *)
(* replaces them (task_wireguard_dns.go:93-119, session.go:120-189).       *)
THEOREM InstalledKeepsPeer == UpkeepSpec => []InstalledHasPeer
<1>1. UpkeepInit => UpkeepTypeOK /\ Keeping
  BY UpkeepTypeInit, KeepingInit
<1>2. UpkeepTypeOK /\ Keeping /\ [UpkeepNext]_upkeepVars => (UpkeepTypeOK /\ Keeping)'
  BY UpkeepStep, KeepingStep
<1>3. UpkeepTypeOK /\ Keeping => InstalledHasPeer
  BY DEF Keeping
<1> QED
  BY <1>1, <1>2, <1>3, PTL DEF UpkeepSpec
=============================================================================
