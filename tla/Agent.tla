------------------------------- MODULE Agent --------------------------------
(***************************************************************************)
(* Session synchronisation together with the two periodic tasks that work  *)
(* from a copy of localSessions: the filter parameter updater, which       *)
(* rewrites the BIRD files of active sessions                              *)
(* (task_filter_params_updater.go), and the GeoIP check, which orders      *)
(* sessions torn down through the center (task_geoip.go).                  *)
(***************************************************************************)
EXTENDS SessionSync

CONSTANT
  Offending   \* sessions whose endpoint the country policy refuses

ASSUME OffendingAssumption == Offending \subseteq Sessions

VARIABLES
  updating,   \* updateFilterParams is running
  batch,      \* its copy of the active sessions, less those it has done
  checking    \* sessions performGeoCheck has copied and not yet judged

taskVars  == <<updating, batch, checking>>
agentVars == <<vars, taskVars>>

Active(s) == s # None /\ s.status \in {"ENABLED", "PROBLEM"}

ActiveSessions == {u \in Sessions : Active(local[u])}

AgentTypeOK ==
  /\ TypeOK
  /\ updating \in BOOLEAN
  /\ batch \in Table
  /\ checking \subseteq Sessions

AgentInit ==
  /\ Init
  /\ updating = FALSE
  /\ batch = Empty
  /\ checking = {}

-----------------------------------------------------------------------------
(* updateFilterParams copies the active sessions under the read lock; with *)
(* none it returns at once.                                                *)
StartUpdate ==
  /\ ~ updating
  /\ ActiveSessions # {}
  /\ updating' = TRUE
  /\ batch' = [u \in Sessions |-> IF u \in ActiveSessions THEN local[u] ELSE None]
  /\ UNCHANGED <<vars, checking>>

(* updateBirdConfig, under birdConfMutex: the file is removed and written  *)
(* anew from the copied session; a failure is counted and passed over.     *)
UpdateFile(u) ==
  /\ batch[u] # None
  /\ \/ /\ conf' = [conf EXCEPT ![File(batch[u].cfg)] = Made(u, batch[u].cfg, TRUE)]
        /\ UNCHANGED <<loaded, faults>>
     \/ WriteFails(u, batch[u].cfg)
  /\ batch' = [batch EXCEPT ![u] = None]
  /\ UNCHANGED <<link, routes, syncVars, updating, checking>>

(* reloadBirdConfig, outside the mutex.                                    *)
FinishUpdate ==
  /\ updating
  /\ Present(batch) = {}
  /\ BirdConfigure(conf)
  /\ updating' = FALSE
  /\ UNCHANGED <<link, routes, conf, syncVars, batch, checking>>

-----------------------------------------------------------------------------
(* performGeoCheck copies the active sessions.                             *)
StartCheck ==
  /\ checking = {}
  /\ ActiveSessions # {}
  /\ checking' = ActiveSessions
  /\ UNCHANGED <<vars, updating, batch>>

(* A session that passes, or whose country cannot be looked up.            *)
PassSession(u) ==
  /\ u \in checking
  /\ \/ u \notin Offending /\ UNCHANGED faults
     \/ u \in Offending /\ Fault("geo")
  /\ checking' = checking \ {u}
  /\ UNCHANGED <<link, routes, conf, loaded, syncVars, updating, batch>>

(* Seeded fault: the session is reported as a problem.                     *)
OrderProblem(u) ==
  /\ u \in checking
  /\ u \in Offending
  /\ \E ok \in BOOLEAN : Report(u, "PROBLEM", ok)
  /\ checking' = checking \ {u}
  /\ UNCHANGED <<local, runVars, restarts, updating, batch>>

(* teardownViolatingSession only reports: the next run of syncSessions is  *)
(* to find the session TEARDOWN at the center.                             *)
OrderTeardown(u) ==
  /\ u \in checking
  /\ u \in Offending
  /\ \E ok \in BOOLEAN : Report(u, "TEARDOWN", ok)
  /\ checking' = checking \ {u}
  /\ UNCHANGED <<local, runVars, restarts, updating, batch>>

-----------------------------------------------------------------------------
RestartAgent ==
  /\ Restart
  /\ updating' = FALSE
  /\ batch' = Empty
  /\ checking' = {}

Edit == \E u \in Sessions : \E row \in Rows(u) : OperatorEdit(u, row)

Updater == StartUpdate \/ FinishUpdate \/ \E u \in Sessions : UpdateFile(u)

Checker == StartCheck \/ \E u \in Sessions : PassSession(u) \/ OrderTeardown(u)

AgentNext ==
  \/ /\ (\E p \in Procs : StartSync(p) \/ Step(p)) \/ Edit
     /\ UNCHANGED taskVars
  \/ Updater
  \/ Checker
  \/ RestartAgent

AgentSpec == AgentInit /\ [][AgentNext]_agentVars

(* Each task runs again and again and finishes what it began.              *)
FairAgentSpec ==
  /\ AgentSpec
  /\ WF_agentVars(StartSync(Ticker) /\ UNCHANGED taskVars)
  /\ \A p \in Procs : WF_agentVars(Step(p) /\ UNCHANGED taskVars)
  /\ WF_agentVars(Updater)
  /\ WF_agentVars(Checker)

-----------------------------------------------------------------------------
(* Properties.                                                             *)

(* Every session held, listed next or about to be reported as ENABLED has  *)
(* its interface up with that configuration and owns the file of it; which *)
(* revision the file holds is the updater's race, see StaleFileGoes.       *)
HasLink(u, s) ==
  s # None /\ s.status = "ENABLED" => link[IfaceOf[s.cfg]] = Made(u, s.cfg, TRUE)

EnabledHasLink ==
  /\ \A u \in Sessions : (\A p \in Procs : Untouched(p, u)) => HasLink(u, local[u])
  /\ \A p \in Procs, u \in Sessions : HasLink(u, next[p][u])
  /\ \A p \in Procs : pc[p] = "report" => HasLink(cur[p].sess, cur[p].rec)

(* A session the country policy refuses does not stay active: the order of *)
(* the check may be overwritten at the center by the report of a run that  *)
(* was already under way, but a later check repeats it                     *)
(* (task_geoip.go:240-274).                                                *)
OffendersAreTornDown == \A u \in Offending : <>[] ~ Active(local[u])

(* A file of a session that has been torn down or deleted does not stay:   *)
(* removal is for good (README, Session Lifecycle Management).             *)
StaleFile(f) == conf[f] # None /\ ~ Accounted(conf[f], IfaceOf[conf[f].cfg])

StaleFileGoes == \A f \in Files : StaleFile(f) ~> ~ StaleFile(f)
=============================================================================
