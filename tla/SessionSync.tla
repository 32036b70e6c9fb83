---------------------------- MODULE SessionSync -----------------------------
(***************************************************************************)
(* Session synchronisation (task_session_sync.go): the table of sessions   *)
(* kept by the PeerAPI center, the agent's copy of it (localSessions), and *)
(* the runs of syncSessions that bring the node in line with the center    *)
(* and report back.  A run may be started by the ticker of mainSessionTask *)
(* or by a goroutine of GET /sync.  The center, its operator and the       *)
(* network are environment.                                                *)
(***************************************************************************)
EXTENDS Provisioning

CONSTANTS
  ValidCfgs,         \* configurations validateSessionInputs accepts
  Procs,             \* callers of syncSessions
  Ticker,            \* the caller that is mainSessionTask
  OperatorStatuses,  \* statuses an operator gives a session at the center
  MaxEdits,          \* operator's edits of the center in one behaviour
  MaxRestarts,       \* restarts of the agent in one behaviour
  Abrupt             \* whether the agent may also be killed

ASSUME SyncAssumption ==
  /\ ValidCfgs \subseteq Cfgs
  /\ Ticker \in Procs
  /\ MaxEdits \in Nat
  /\ MaxRestarts \in Nat
  /\ Abrupt \in BOOLEAN

Status == {"DELETED", "DISABLED", "ENABLED", "PENDING_APPROVAL",
           "QUEUED_FOR_SETUP", "QUEUED_FOR_DELETE", "PROBLEM", "TEARDOWN"}

ToSetUp  == {"QUEUED_FOR_SETUP", "ENABLED", "PROBLEM"}
ToRemove == {"DISABLED", "DELETED", "TEARDOWN"}

BgpSession == [status : Status, cfg : Cfgs]

ASSUME RecordAssumption ==
  /\ OperatorStatuses \subseteq Status
  /\ None \notin BgpSession

VARIABLES
  center,     \* the center's table: a session or None per UUID
  local,      \* localSessions
  running,    \* syncSessionsRunning
  pc,         \* where each call of syncSessions is
  remote,     \* the answer of getBgpSessions in that call
  todo,       \* sessions the loop has not come to
  cur,        \* the session in hand
  next,       \* nextLocal
  edits,      \* operator's edits so far
  restarts    \* restarts so far

tableVars == <<center, edits>>
runVars   == <<running, pc, remote, todo, cur, next>>
syncVars  == <<tableVars, local, runVars, restarts>>
vars      == <<provVars, syncVars>>

Table == [Sessions -> BgpSession \cup {None}]
Empty == [u \in Sessions |-> None]
Present(table) == {u \in Sessions : table[u] # None}

ASSUME TableAssumption == None \notin Table

(* A session in hand: its record as the run has changed it, and the local  *)
(* entry it replaces; rec is None for a session the center dropped.        *)
Hand == [sess : Sessions, rec : BgpSession \cup {None}, old : BgpSession \cup {None}]

ASSUME HandAssumption == None \notin Hand

Place == {"idle", "fetch", "sessions", "invalid", "iface", "bird", "report", "ack",
          "delIface", "delBird", "gone"}

TypeOK ==
  /\ ProvTypeOK
  /\ center \in Table
  /\ local \in Table
  /\ running \in BOOLEAN
  /\ pc \in [Procs -> Place]
  /\ remote \in [Procs -> Table]
  /\ todo \in [Procs -> SUBSET Sessions]
  /\ cur \in [Procs -> Hand \cup {None}]
  /\ next \in [Procs -> Table]
  /\ edits \in 0 .. MaxEdits
  /\ restarts \in 0 .. MaxRestarts

(* A fresh agent on a fresh node; sessions may already be queued for it.   *)
Init ==
  /\ ProvInit
  /\ center \in [Sessions -> [status : {"QUEUED_FOR_SETUP"}, cfg : Cfgs] \cup {None}]
  /\ \A u \in Present(center) : center[u].cfg \in CfgOf[u]
  /\ local = Empty
  /\ running = FALSE
  /\ pc = [p \in Procs |-> "idle"]
  /\ remote = [p \in Procs |-> Empty]
  /\ todo = [p \in Procs |-> {}]
  /\ cur = [p \in Procs |-> None]
  /\ next = [p \in Procs |-> Empty]
  /\ edits = 0
  /\ restarts = 0

-----------------------------------------------------------------------------
(* reportNewStatusToCenter: the center takes the status whatever it held;  *)
(* the request or its answer may be lost; a session the center no longer   *)
(* has is an error.                                                        *)
Report(u, status, ok) ==
  LET taken == center' = [center EXCEPT ![u].status = status] IN
  /\ UNCHANGED <<edits, link, routes, conf, loaded>>
  /\ \/ ok /\ center[u] # None /\ taken /\ UNCHANGED faults
     \/ ~ok /\ center[u] = None /\ UNCHANGED <<center, faults>>
     \/ ~ok /\ center[u] # None /\ Fault("report") /\ (taken \/ UNCHANGED center)

(* Seeded fault: disabling a session is no reason to remove it.            *)
BranchForgetsDisabled(rec, old) ==
  CASE rec.status \in ToSetUp -> "iface"
    [] rec.status = "QUEUED_FOR_DELETE" -> IF old = None THEN "ack" ELSE "delIface"
    [] rec.status \in ToRemove \ {"DISABLED"} /\ old # None -> "delIface"
    [] OTHER -> "sessions"

(* Where processNewSession (old = None) or processChangedSession goes with *)
(* a validated record.                                                     *)
Branch(rec, old) ==
  CASE rec.status \in ToSetUp -> "iface"
    [] rec.status = "QUEUED_FOR_DELETE" -> IF old = None THEN "ack" ELSE "delIface"
    [] rec.status \in ToRemove /\ old # None -> "delIface"
    [] OTHER -> "sessions"

(* checkAndValidateSession finds fault with the record; deleting a session *)
(* that is already torn down is not validated.                             *)
Rejected(rec, old) ==
  /\ rec.cfg \notin ValidCfgs
  /\ rec.status # "TEARDOWN"
  /\ ~ (old # None /\ old.status = "TEARDOWN"
          /\ rec.status \in {"QUEUED_FOR_DELETE", "DELETED"})

(* Seeded fault: the wrong object is stored.                               *)
StoreHand(p, rec) ==
  /\ next' = [next EXCEPT ![p][cur[p].sess] = cur[p]]
  /\ cur' = [cur EXCEPT ![p] = None]
  /\ pc' = [pc EXCEPT ![p] = "sessions"]

(* nextLocal[UUID] = *session, and on to the next one.                     *)
Store(p, rec) ==
  /\ next' = [next EXCEPT ![p][cur[p].sess] = rec]
  /\ cur' = [cur EXCEPT ![p] = None]
  /\ pc' = [pc EXCEPT ![p] = "sessions"]

Goto(p, place, rec) ==
  /\ cur' = [cur EXCEPT ![p].rec = rec]
  /\ pc' = [pc EXCEPT ![p] = place]
  /\ UNCHANGED next

Continue(p, rec) ==
  LET place == Branch(rec, cur[p].old) IN
  IF place = "sessions" THEN Store(p, rec) ELSE Goto(p, place, rec)

(* The return of syncSessions, its deferred Store(false) included.         *)
Return(p) ==
  /\ running' = FALSE
  /\ pc' = [pc EXCEPT ![p] = "idle"]
  /\ remote' = [remote EXCEPT ![p] = Empty]
  /\ todo' = [todo EXCEPT ![p] = {}]
  /\ cur' = [cur EXCEPT ![p] = None]
  /\ next' = [next EXCEPT ![p] = Empty]

-----------------------------------------------------------------------------
(* Seeded fault: the flag is set but not looked at.                        *)
StartSyncUnguarded(p) ==
  /\ pc[p] = "idle"
  /\ running' = TRUE
  /\ pc' = [pc EXCEPT ![p] = "fetch"]
  /\ UNCHANGED <<provVars, tableVars, local, remote, todo, cur, next, restarts>>

(* syncSessions; a call that finds the flag set returns without a trace.   *)
StartSync(p) ==
  /\ pc[p] = "idle"
  /\ ~ running
  /\ running' = TRUE
  /\ pc' = [pc EXCEPT ![p] = "fetch"]
  /\ UNCHANGED <<provVars, tableVars, local, remote, todo, cur, next, restarts>>

FetchFails(p) ==
  /\ pc[p] = "fetch"
  /\ Fault("fetch")
  /\ Return(p)
  /\ UNCHANGED <<link, routes, conf, loaded, tableVars, local, restarts>>

Fetch(p) ==
  /\ pc[p] = "fetch"
  /\ remote' = [remote EXCEPT ![p] = center]
  /\ todo' = [todo EXCEPT ![p] = Present(center)]
  /\ pc' = [pc EXCEPT ![p] = "sessions"]
  /\ UNCHANGED <<provVars, tableVars, local, running, cur, next, restarts>>

(* Seeded fault: only the status is compared.                              *)
KeepSameStatus(p, u) ==
  /\ pc[p] = "sessions"
  /\ u \in todo[p]
  /\ local[u] # None
  /\ local[u].status = remote[p][u].status
  /\ todo' = [todo EXCEPT ![p] = @ \ {u}]
  /\ next' = [next EXCEPT ![p][u] = remote[p][u]]
  /\ UNCHANGED <<provVars, tableVars, local, running, pc, remote, cur, restarts>>

(* An entry equal to the local one is copied and nothing else is done.     *)
KeepSession(p, u) ==
  /\ pc[p] = "sessions"
  /\ u \in todo[p]
  /\ local[u] = remote[p][u]
  /\ todo' = [todo EXCEPT ![p] = @ \ {u}]
  /\ next' = [next EXCEPT ![p][u] = remote[p][u]]
  /\ UNCHANGED <<provVars, tableVars, local, running, pc, remote, cur, restarts>>

(* A new or changed session, up to its first call that leaves the process. *)
TakeSession(p, u) ==
  LET rec == remote[p][u]
      old == local[u]
      place == IF Rejected(rec, old) THEN "invalid" ELSE Branch(rec, old)
  IN
  /\ pc[p] = "sessions"
  /\ u \in todo[p]
  /\ old # rec
  /\ todo' = [todo EXCEPT ![p] = @ \ {u}]
  /\ \/ /\ place = "sessions"
        /\ next' = [next EXCEPT ![p][u] = rec]
        /\ UNCHANGED <<pc, cur>>
     \/ /\ place # "sessions"
        /\ cur' = [cur EXCEPT ![p] = [sess |-> u, rec |-> rec, old |-> old]]
        /\ pc' = [pc EXCEPT ![p] = place]
        /\ UNCHANGED next
  /\ UNCHANGED <<provVars, tableVars, local, running, remote, restarts>>

(* The record becomes TEARDOWN and then takes the branch of that status.   *)
RejectSession(p) ==
  /\ pc[p] = "invalid"
  /\ \E ok \in BOOLEAN : Report(cur[p].sess, "TEARDOWN", ok)
  /\ Continue(p, [cur[p].rec EXCEPT !.status = "TEARDOWN"])
  /\ UNCHANGED <<local, running, remote, todo, restarts>>

(* Seeded fault: the error of configureInterface is not returned.          *)
SetUpInterfaceUnchecked(p) ==
  /\ pc[p] = "iface"
  /\ \E ok \in BOOLEAN : ConfigureInterface(cur[p].sess, cur[p].rec.cfg, ok)
  /\ Goto(p, "bird", cur[p].rec)
  /\ UNCHANGED <<tableVars, local, running, remote, todo, restarts>>

(* configureSession, first half: interface and probe route.                *)
SetUpInterface(p) ==
  /\ pc[p] = "iface"
  /\ \E ok \in BOOLEAN :
       /\ ConfigureInterface(cur[p].sess, cur[p].rec.cfg, ok)
       /\ IF ok
          THEN Goto(p, "bird", cur[p].rec)
          ELSE Goto(p, "report", [cur[p].rec EXCEPT !.status = "PROBLEM"])
  /\ UNCHANGED <<tableVars, local, running, remote, todo, restarts>>

(* configureSession, second half: the BIRD file.                           *)
SetUpBird(p) ==
  /\ pc[p] = "bird"
  /\ \E ok \in BOOLEAN :
       /\ ConfigureBird(cur[p].sess, cur[p].rec.cfg, ok)
       /\ Goto(p, "report", [cur[p].rec EXCEPT
                               !.status = IF ok THEN "ENABLED" ELSE "PROBLEM"])
  /\ UNCHANGED <<tableVars, local, running, remote, todo, restarts>>

(* Seeded fault: the entry stored is the one received.                     *)
ReportStoresReceived(p) ==
  /\ pc[p] = "report"
  /\ \E ok \in BOOLEAN : Report(cur[p].sess, cur[p].rec.status, ok)
  /\ Store(p, remote[p][cur[p].sess])
  /\ UNCHANGED <<local, running, remote, todo, restarts>>

(* The report that follows the work; its failure is only logged.           *)
ReportStatus(p) ==
  /\ pc[p] = "report"
  /\ \E ok \in BOOLEAN : Report(cur[p].sess, cur[p].rec.status, ok)
  /\ Store(p, cur[p].rec)
  /\ UNCHANGED <<local, running, remote, todo, restarts>>

(* A deletion order for a session the agent does not know: only the answer *)
(* is sent, and the entry stays QUEUED_FOR_DELETE when that failed.        *)
AcknowledgeDelete(p) ==
  /\ pc[p] = "ack"
  /\ \E ok \in BOOLEAN :
       /\ Report(cur[p].sess, "DELETED", ok)
       /\ Store(p, IF ok THEN [cur[p].rec EXCEPT !.status = "DELETED"] ELSE cur[p].rec)
  /\ UNCHANGED <<local, running, remote, todo, restarts>>

(* deleteSession of the old entry, whose error is ignored or only logged.  *)
TearDownInterface(p) ==
  /\ pc[p] = "delIface"
  /\ DeleteInterface(cur[p].old.cfg)
  /\ Goto(p, "delBird", cur[p].rec)
  /\ UNCHANGED <<tableVars, local, running, remote, todo, restarts>>

TearDownBird(p) ==
  /\ pc[p] = "delBird"
  /\ DeleteBird(cur[p].old.cfg)
  /\ \/ /\ cur[p].rec = None
        /\ cur' = [cur EXCEPT ![p] = None]
        /\ pc' = [pc EXCEPT ![p] = "gone"]
        /\ UNCHANGED next
     \/ /\ cur[p].rec # None
        /\ cur[p].rec.status = "QUEUED_FOR_DELETE"
        /\ Goto(p, "report", [cur[p].rec EXCEPT !.status = "DELETED"])
     \/ /\ cur[p].rec # None
        /\ cur[p].rec.status # "QUEUED_FOR_DELETE"
        /\ Store(p, cur[p].rec)
  /\ UNCHANGED <<tableVars, local, running, remote, todo, restarts>>

(* The second loop: local sessions the answer did not list.                *)
StartRemoval(p) ==
  /\ pc[p] = "sessions"
  /\ todo[p] = {}
  /\ pc' = [pc EXCEPT ![p] = "gone"]
  /\ todo' = [todo EXCEPT ![p] = Present(local) \ Present(remote[p])]
  /\ UNCHANGED <<provVars, tableVars, local, running, remote, cur, next, restarts>>

RemoveSession(p, u) ==
  /\ pc[p] = "gone"
  /\ u \in todo[p]
  /\ todo' = [todo EXCEPT ![p] = @ \ {u}]
  /\ cur' = [cur EXCEPT ![p] = [sess |-> u, rec |-> None, old |-> local[u]]]
  /\ pc' = [pc EXCEPT ![p] = "delIface"]
  /\ UNCHANGED <<provVars, tableVars, local, running, remote, next, restarts>>

(* Seeded fault: the new entries are merged into the old table.            *)
InstallMerged(p) ==
  /\ pc[p] = "gone"
  /\ todo[p] = {}
  /\ local' = [u \in Sessions |-> IF next[p][u] = None THEN local[u] ELSE next[p][u]]
  /\ Return(p)
  /\ UNCHANGED <<provVars, tableVars, restarts>>

(* localSessions = nextLocal, under the write lock.                        *)
Install(p) ==
  /\ pc[p] = "gone"
  /\ todo[p] = {}
  /\ local' = next[p]
  /\ Return(p)
  /\ UNCHANGED <<provVars, tableVars, restarts>>

-----------------------------------------------------------------------------
(* The operator adds, edits or removes a row of the center.                *)
OperatorEdit(u, row) ==
  /\ edits < MaxEdits
  /\ edits' = edits + 1
  /\ center[u] # row
  /\ center' = [center EXCEPT ![u] = row]
  /\ UNCHANGED <<provVars, local, runVars, restarts>>

Rows(u) == [status : OperatorStatuses, cfg : CfgOf[u]] \cup {None}

(* The agent stops and is started again: the process forgets everything,   *)
(* the node and the center keep theirs.  A graceful stop waits for the     *)
(* ticker's task, not for a call made by GET /sync (main.go:205-227).      *)
Restart ==
  /\ restarts < MaxRestarts
  /\ Abrupt \/ pc[Ticker] = "idle"
  /\ restarts' = restarts + 1
  /\ local' = Empty
  /\ running' = FALSE
  /\ pc' = [p \in Procs |-> "idle"]
  /\ remote' = [p \in Procs |-> Empty]
  /\ todo' = [p \in Procs |-> {}]
  /\ cur' = [p \in Procs |-> None]
  /\ next' = [p \in Procs |-> Empty]
  /\ UNCHANGED <<provVars, tableVars>>

(* What a call of syncSessions does once it has the flag.                  *)
Step(p) ==
  \/ FetchFails(p) \/ Fetch(p)
  \/ \E u \in Sessions : KeepSession(p, u) \/ TakeSession(p, u) \/ RemoveSession(p, u)
  \/ RejectSession(p) \/ SetUpInterface(p) \/ SetUpBird(p) \/ ReportStatus(p)
  \/ AcknowledgeDelete(p) \/ TearDownInterface(p) \/ TearDownBird(p)
  \/ StartRemoval(p) \/ Install(p)

Environment ==
  \/ \E u \in Sessions : \E row \in Rows(u) : OperatorEdit(u, row)
  \/ Restart

SyncNext ==
  \/ \E p \in Procs : StartSync(p) \/ Step(p)
  \/ Environment

Spec == Init /\ [][SyncNext]_vars

(* The ticker calls syncSessions again and again, and a call that has the  *)
(* flag goes on: every command and request in it has a timeout.            *)
Fairness ==
  /\ WF_vars(StartSync(Ticker))
  /\ \A p \in Procs : WF_vars(Step(p))

FairSpec == Spec /\ Fairness

-----------------------------------------------------------------------------
(* Properties.                                                             *)

(* No two sessions can name one interface, or interfaces of one BIRD file: *)
(* what the center is trusted to see to, the agent never checks it.        *)
UniqueNames ==
  \A u, v \in Sessions : u # v =>
    \A c \in CfgOf[u], d \in CfgOf[v] :
      IfaceOf[c] # IfaceOf[d] /\ File(c) # File(d)

Provisioned(u, s) ==
  /\ link[IfaceOf[s.cfg]] = Made(u, s.cfg, TRUE)
  /\ conf[File(s.cfg)] = Made(u, s.cfg, TRUE)

Backed(u, s) == s # None /\ s.status = "ENABLED" => Provisioned(u, s)

(* Run p has not come to session u, or never will.                         *)
InRemoval(p) == pc[p] = "gone" \/ (cur[p] # None /\ cur[p].rec = None)

Untouched(p, u) ==
  \/ pc[p] \in {"idle", "fetch"}
  \/ u \in todo[p]
  \/ ~ InRemoval(p) /\ remote[p][u] = None

(* At most one call of syncSessions is past its compare-and-swap, whoever  *)
(* started the calls and across restarts (task_session_sync.go:424).       *)
SingleSync ==
  /\ \A p, q \in Procs : pc[p] # "idle" /\ pc[q] # "idle" => p = q
  /\ running <=> \E p \in Procs : pc[p] # "idle"

(* A session the agent holds ENABLED, has put in the next table as ENABLED *)
(* or is about to report ENABLED has its interface up and its BIRD file    *)
(* complete, both made from the very configuration in that entry, in spite *)
(* of failures, lost reports, edits during the run and restarts.           *)
EnabledIsProvisioned ==
  /\ \A u \in Sessions : (\A p \in Procs : Untouched(p, u)) => Backed(u, local[u])
  /\ \A p \in Procs, u \in Sessions : Backed(u, next[p][u])
  /\ \A p \in Procs : pc[p] = "report" => Backed(cur[p].sess, cur[p].rec)

(* Interface i, or the file of it, is one the installed table accounts for. *)
Accounted(r, i) ==
  \E s \in {local[r.sess]} :
    /\ s # None
    /\ s.status \notin ToRemove \cup {"QUEUED_FOR_DELETE"}
    /\ i = IfaceOf[s.cfg]

Clean ==
  \A i \in Ifaces :
    /\ link[i] # None => Accounted(link[i], i)
    /\ conf[FileOf[i]] # None => Accounted(conf[FileOf[i]], IfaceOf[conf[FileOf[i]].cfg])

(* When a run ends, every interface and every BIRD file on the node belongs *)
(* to a session the new table holds, in a status that wants it, under the   *)
(* name the session has now (deletion in syncSessions, session.go:79-100).  *)
InstallLeavesNoResidue ==
  [][(\E p \in Procs : Install(p)) => Clean']_vars

(* BIRD runs what the file of every enabled session says.                  *)
EnabledRuns ==
  \A u \in Sessions :
    LET s == local[u] IN
    s # None /\ s.status = "ENABLED" => loaded[File(s.cfg)] = Made(u, s.cfg, TRUE)

(* When a run ends, BIRD runs the current file of every session that the   *)
(* new table holds ENABLED (configureBird reloads it under the mutex).     *)
InstalledIsRunning ==
  [][(\E p \in Procs : Install(p)) => EnabledRuns']_vars

(* Once the operator, the failures and the restarts are over, the agent's  *)
(* table and the center's become and stay the same, whatever reports were  *)
(* lost: a lost report makes the entries differ and the work is redone.    *)
Converges == <>[](local = center)

QueuedAtCenter(u, status) == center[u] # None /\ center[u].status = status

(* A session queued for setup is answered in the end.                      *)
SetupIsAnswered ==
  \A u \in Sessions :
    QueuedAtCenter(u, "QUEUED_FOR_SETUP") ~> ~ QueuedAtCenter(u, "QUEUED_FOR_SETUP")

(* A session queued for deletion is answered in the end                    *)
(* (task_session_sync.go:265-270 and 305-315).                             *)
DeleteIsAnswered ==
  \A u \in Sessions :
    QueuedAtCenter(u, "QUEUED_FOR_DELETE") ~> ~ QueuedAtCenter(u, "QUEUED_FOR_DELETE")

-----------------------------------------------------------------------------
(* The snapshot of the call that holds the flag, once it has one.          *)
Asking == {p \in Procs : pc[p] \notin {"idle", "fetch"}}
Snapshot == IF Asking = {} THEN None ELSE remote[CHOOSE p \in Asking : TRUE]

T == INSTANCE SessionTable WITH NoSnapshot <- None, snap <- Snapshot

(* Seen from the center and from the agent's other tasks, a run is one     *)
(* atomic answer to one snapshot of the center (syncSessions as a whole).  *)
AnswersOneSnapshot == T!TSpec
=============================================================================
