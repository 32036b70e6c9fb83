------------------------------- MODULE Upkeep -------------------------------
(***************************************************************************)
(* The tasks that keep a session up to date, beside each other and beside  *)
(* the synchronisation that makes, changes and removes it under them.      *)
(***************************************************************************)
EXTENDS EndpointRefresh, TrafficRates, PeerProbe

upkeepVars == <<peeringVars, refresh, rateVars, probeVars, fileVars>>

UpkeepTypeOK == PeeringTypeOK /\ RefreshTypeOK /\ RatesTypeOK /\ ProbeTypeOK

UpkeepInit == PeeringInit /\ RefreshInit /\ RatesInit /\ ProbeInit

Refreshes == Refresher /\ UNCHANGED <<rateVars, probeVars, fileVars>>
Monitors  == Monitor /\ UNCHANGED <<refresh, probeVars, fileVars>>
Probes    == Prober /\ UNCHANGED <<refresh, rateVars>>
Judges    == Judge /\ UNCHANGED <<refresh, rateVars>>
Updates   == Updater /\ UNCHANGED <<refresh, rateVars>>
LooksUp   == LookUpFlag /\ UNCHANGED <<refresh, rateVars>>

Syncs ==
  \/ (Provision \/ Install) /\ UNCHANGED <<refresh, rateVars, probeVars, fileVars>>
  \/ Writer /\ UNCHANGED <<refresh, rateVars>>

Handshakes ==
  /\ Shake \/ (\E k \in Keys : Expire(k))
  /\ link' # link
  /\ UNCHANGED <<refresh, rateVars, probeVars, fileVars>>

Environment ==
  \/ /\ (\E k \in Keys \cup {None} : Order(k)) \/ Move \/ Roam \/ Carry
     /\ UNCHANGED <<refresh, rateVars, probeVars, fileVars>>
  \/ PathChanges /\ UNCHANGED <<refresh, rateVars>>

UpkeepNext ==
  \/ Refreshes \/ Monitors \/ Probes \/ Judges \/ Updates \/ LooksUp
  \/ Syncs \/ Handshakes \/ Environment

UpkeepSpec == UpkeepInit /\ [][UpkeepNext]_upkeepVars

(* Every task has its goroutine and ticker, commands and requests end, the *)
(* file's lock is held over nothing else; a run of syncSessions goes on.   *)
(* Of the others: the center judges what it gets, and handshakes with a    *)
(* peer succeed where it is reached and get old where it is not.           *)
FairUpkeepSpec ==
  /\ UpkeepSpec
  /\ WF_upkeepVars(Refreshes) /\ WF_upkeepVars(Monitors) /\ WF_upkeepVars(Probes)
  /\ WF_upkeepVars(Judges) /\ SF_upkeepVars(Updates) /\ WF_upkeepVars(LooksUp)
  /\ SF_upkeepVars(Syncs) /\ WF_upkeepVars(Handshakes)

-----------------------------------------------------------------------------
(* Properties.                                                             *)

(* An installed session keeps its interface, and in it the peer of its own *)
(* key, until a run of syncSessions replaces them, though the refresh      *)
(* works from a copy and may come to an interface made anew for another    *)
(* key, also before that has its peer (task_wireguard_dns.go:93-119,       *)
(* 170-186, session.go:120-189).                                           *)
InstalledHasPeer ==
  entry # None /\ phase \in {"idle", "interface"} =>
    link # None /\ (IsWireguard => HasPeer(entry))

(* When the operator, the peer and the paths rest, the interface of a      *)
(* WireGuard session with an endpoint reaches its peer: a peer that moved, *)
(* also before the first handshake or while its key was changed under the  *)
(* task's copy, is found again (task_wireguard_dns.go:66-127).             *)
EndpointFollows ==
  <>[] (entry # None /\ IsWireguard /\ setup.named =>
          HasPeer(entry) /\ link.peers[entry].handshake = "recent")

(* A rate taken over the recreation of an interface, which may be huge or  *)
(* negative, does not stay: once nothing is carried, no traffic is         *)
(* reported (task_monitoring.go:72-131, task_metric.go:346-357).           *)
QuietIsReported == <>[] (link # None => ReportedRate = 0)

(* The flags in the file of a session, while nobody is writing it, settle  *)
(* on the families in which its probes get through, whichever of the two   *)
(* writers was the last, however late the center judges, though a run of   *)
(* the probes may find the interface gone and the updater may lose the     *)
(* file or leave it cut short (task_peer_probe_get_summary.go:53-153,      *)
(* session.go:450-461, task_filter_params_updater.go:203-335).             *)
FlagsSettle ==
  <>[] (entry # None /\ setup.probing /\ writer = None =>
          file = [i \in DOMAIN FamilyOrder |-> FamilyOrder[i] \in path])
=============================================================================
