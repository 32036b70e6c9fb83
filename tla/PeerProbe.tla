------------------------------ MODULE PeerProbe -----------------------------
(***************************************************************************)
(* From a probe to the flag in a BIRD file: runPeerProbe                   *)
(* (task_peer_probe.go) sends packets through the interface, the center    *)
(* judges what arrives, refreshProbeSummariesWithCooldown                  *)
(* (task_peer_probe_get_summary.go) fetches the verdicts, and both writers *)
(* of the file, configureBird and updateFilterParams, look the flags up    *)
(* one family after the other while they hold birdConfMutex.               *)
(***************************************************************************)
EXTENDS Peering, Sequences, SequencesExt

CONSTANT FamilyOrder   \* the families, in the order of the flags in a file

ASSUME ProbeAssumption ==
  /\ FamilyOrder \in Seq({"ipv4", "ipv6"})
  /\ None \notin {"sync", "updater"}

VARIABLES
  path,      \* families in which a probe gets through
  arrived,   \* those of the last probe, None once the center has judged it
  verdict,   \* families the center takes for seen and healthy, or behind a NAT
  probe,     \* how far runPeerProbe is
  summary,   \* the session's families in probeSummaryData with flag 1
  copied,    \* the session is in the updater's copy
  writer,    \* holder of birdConfMutex
  flags,     \* flags it has looked up
  file       \* flags in the file, <<>> when it is cut short, None without a file

probeVars == <<path, arrived, verdict, probe, summary>>
fileVars  == <<copied, writer, flags, file>>

Families == ToSet(FamilyOrder)

ProbeTypeOK ==
  /\ path \subseteq Families /\ verdict \subseteq Families /\ summary \subseteq Families
  /\ arrived # None => arrived \subseteq Families
  /\ probe \in {"idle", "sending", "cooling"}
  /\ copied \in BOOLEAN
  /\ writer \in {None, "sync", "updater"}
  /\ flags \in Seq(BOOLEAN) /\ Len(flags) <= Len(FamilyOrder)
  /\ writer = None => flags = <<>>
  /\ file # None => file \in Seq(BOOLEAN) /\ Len(file) \in {0, Len(FamilyOrder)}

ProbeInit ==
  /\ path \in SUBSET Families
  /\ arrived = None /\ verdict = {} /\ probe = "idle" /\ summary = {}
  /\ copied = FALSE /\ writer = None /\ flags = <<>>
  /\ file = IF entry = None THEN None ELSE [i \in DOMAIN FamilyOrder |-> FALSE]

-----------------------------------------------------------------------------
(* collectProbeCandidateSessions; without a candidate only the summaries   *)
(* are fetched.                                                            *)
StartProbe ==
  /\ setup.probing
  /\ probe = "idle"
  /\ probe' = IF entry = None THEN "cooling" ELSE "sending"
  /\ UNCHANGED <<peeringVars, path, arrived, verdict, summary, fileVars>>

(* dispatchProbes, bound to the interface, in every family.                *)
SendProbes ==
  /\ probe = "sending"
  /\ arrived' = IF IsUp THEN path ELSE {}
  /\ probe' = "cooling"
  /\ UNCHANGED <<peeringVars, path, verdict, summary, fileVars>>

(* The center, which may be late.                                          *)
Judge ==
  /\ arrived # None
  /\ verdict' = arrived
  /\ arrived' = None
  /\ UNCHANGED <<peeringVars, path, probe, summary, fileVars>>

(* Seeded fault: verdicts are merged into those fetched before.            *)
MergeSummaries ==
  /\ probe = "cooling"
  /\ \/ summary' = summary \cup verdict /\ UNCHANGED faults
     \/ Fault /\ UNCHANGED summary
  /\ probe' = "idle"
  /\ UNCHANGED <<siteVars, path, arrived, verdict, fileVars>>

(* After the cooldown the verdicts replace all summaries, unless the       *)
(* request fails.                                                          *)
FetchSummaries ==
  /\ probe = "cooling"
  /\ \/ summary' = verdict /\ UNCHANGED faults
     \/ Fault /\ UNCHANGED summary
  /\ probe' = "idle"
  /\ UNCHANGED <<siteVars, path, arrived, verdict, fileVars>>

Prober == StartProbe \/ SendProbes \/ FetchSummaries

(* Paths through the peer change.                                          *)
PathChanges ==
  /\ setup.probing
  /\ path' \in SUBSET Families \ {path}
  /\ Change
  /\ UNCHANGED <<setup, wish, phase, entry, link, addr, faults,
                 arrived, verdict, probe, summary, fileVars>>

-----------------------------------------------------------------------------
(* Writers of the file.  Under the lock the old file is removed and a new  *)
(* one created, which is empty until the flags are looked up and the       *)
(* template has been executed.                                             *)
TakeFile(w) == writer = None /\ writer' = w /\ file' = <<>>

LetGo == writer' = None /\ flags' = <<>>

(* The next flag, as the summaries are then.                               *)
LookUpFlag ==
  /\ writer # None
  /\ Len(flags) < Len(FamilyOrder)
  /\ flags' = Append(flags, FamilyOrder[Len(flags) + 1] \in summary)
  /\ UNCHANGED <<peeringVars, probeVars, copied, writer, file>>

(* Seeded fault: what was looked up is left for the next writer.           *)
WriteOnly ==
  /\ Len(flags) = Len(FamilyOrder)
  /\ file' = flags
  /\ writer' = None
  /\ UNCHANGED flags

(* The file is written and birdConfMutex let go.                           *)
WriteFile ==
  /\ Len(flags) = Len(FamilyOrder)
  /\ file' = flags
  /\ LetGo

ConfigureBird ==
  /\ phase = "bird" /\ wish # None
  /\ TakeFile("sync")
  /\ UNCHANGED <<peeringVars, probeVars, copied, flags>>

Configured ==
  /\ writer = "sync"
  /\ WriteFile
  /\ phase' = "install"
  /\ UNCHANGED <<setup, wish, entry, link, addr, changes, faults, probeVars, copied>>

DeleteBird ==
  /\ phase = "bird" /\ wish = None
  /\ writer = None
  /\ file' = None
  /\ phase' = "install"
  /\ UNCHANGED <<setup, wish, entry, link, addr, changes, faults, probeVars,
                 copied, writer, flags>>

StartUpdate ==
  /\ ~ copied
  /\ entry # None
  /\ copied' = TRUE
  /\ UNCHANGED <<peeringVars, probeVars, writer, flags, file>>

(* Without a template, or when the file cannot be created, there is an     *)
(* error, which is only counted; the old file may be gone by then.         *)
UpdateFile ==
  /\ copied
  /\ \/ TakeFile("updater") /\ UNCHANGED <<copied, faults>>
     \/ /\ writer = None /\ Fault
        /\ file' \in {file, None}
        /\ copied' = FALSE
        /\ UNCHANGED writer
  /\ UNCHANGED <<siteVars, probeVars, flags>>

(* Without the neighbor's address, or when the template fails, the file    *)
(* stays cut short.                                                        *)
Updated ==
  /\ writer = "updater"
  /\ \/ WriteFile /\ UNCHANGED faults
     \/ Fault /\ LetGo /\ UNCHANGED file
  /\ copied' = FALSE
  /\ UNCHANGED <<siteVars, probeVars>>

Updater == StartUpdate \/ UpdateFile \/ Updated
Writer == ConfigureBird \/ Configured \/ DeleteBird
=============================================================================
