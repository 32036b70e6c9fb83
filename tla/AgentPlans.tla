----------------------------- MODULE AgentPlans -----------------------------
(***************************************************************************)
(* Which locks the code of the agent takes and gives back, in which order: *)
(* the plans of LockOrder, one set for each goroutine, with one sequence   *)
(* for each path through its branches.  A conversation with BIRD, which    *)
(* may never answer (conn.go:45 reads without a deadline), is written as a *)
(* lock "bird" that everybody reads and nobody writes.  Locks that are not *)
(* under study are left out by Over.                                       *)
(***************************************************************************)
EXTENDS Integers, Sequences

CONSTANT
  Count   \* times a loop repeats: over sessions, over attempts to dial

ASSUME CountAssumption == Count \in Nat

Read(l)  == <<[kind |-> "read", lock |-> l], [kind |-> "release", lock |-> l]>>
Write(l) == <<[kind |-> "write", lock |-> l], [kind |-> "release", lock |-> l]>>

\* What is done between the two operations of s, a Read or a Write.
Holding(s, inside) == <<s[1]>> \o inside \o <<s[2]>>

Then(first, second) == {a \o b : a \in first, b \in second}

Repeated(ps) ==
  LET times[n \in 0 .. Count] == IF n = 0 THEN {<<>>} ELSE Then(times[n - 1], ps)
  IN  UNION {times[n] : n \in 0 .. Count}

\* waitForDialWindow, and recordDialFailure; or the banner and
\* resetDialBackoff.
DialFails == Write("dial") \o Write("dial")
Dialled == Write("dial") \o Read("bird") \o Write("dial")

\* createConnection: attempts until one succeeds, and the restriction, which
\* is tried once.
Restricted == Dialled \o Read("bird")
Creates == Then(Repeated({DialFails}), {Restricted})
CreateFails == Then(Repeated({DialFails}), {DialFails, Restricted \o Write("dial")})

\* GetConnection: an entry from the channel is marked; a new one is dialled
\* with the pool locked; at a full pool the caller waits, with a time limit.
Lent == {Write("pool"), Write("pool") \o Write("pool")}
          \cup {Holding(Write("pool"), c) : c \in Creates}

(* Seeded fault: the error return leaves the pool locked.                  *)
RefusedKeepsLock ==
  {Write("pool")} \cup {<<Head(Write("pool"))>> \o c : c \in CreateFails}

Refused == {Write("pool")} \cup {Holding(Write("pool"), c) : c \in CreateFails}

\* WithConnection: a connection that is missing, or on which the command
\* cannot be written, is dialled anew outside the lock.
Renewed == Then(Creates, {Write("pool")})
Answered == {Read("bird")} \cup CreateFails \cup Then(Renewed, {<<>>, Read("bird")})
Used == CreateFails \cup Then({<<>>} \cup Renewed, Answered)

\* ReleaseConnection takes the lock unless the pool is shut down.
BirdCommand == Refused \cup Then(Lent, Then(Used, {<<>>, Write("pool")}))

\* Configure: a connection of its own, which is not restricted.
Configure == {DialFails, Dialled, Dialled \o Read("bird")}

-----------------------------------------------------------------------------
(* syncSessions.                                                           *)
(* Seeded fault: the template looks up localSessions under the file lock.  *)
ConfigureReadsSession ==
  {Holding(Write("birdConf"), Read("session") \o c) : c \in Configure}

\* The flags of both families, for each protocol the template is filled for.
Flags ==
  LET both == Read("probe") \o Read("probe") IN {<<>>, both, both \o both}

\* configureBird and updateBirdConfig up to the file they write, or an error.
WriteConfig == {Holding(Write("birdConf"), f) : f \in Flags}

ConfigureBird ==
  WriteConfig \cup {Holding(Write("birdConf"), f) : f \in Then(Flags, Configure)}

(* Seeded fault: the session is looked up again under the file lock, also  *)
(* when the one who deletes it reads localSessions already.                *)
DeleteReadsSession == {Holding(Write("birdConf"), Read("session"))}

DeleteBird ==
  {Write("birdConf")} \cup {Holding(Write("birdConf"), c) : c \in Configure}

ProcessSession == Then({Read("session")}, {<<>>} \cup ConfigureBird \cup DeleteBird)

DeleteGone == {Holding(Read("session"), d) : d \in Repeated(DeleteBird)}

SyncSessions ==
  {<<>>} \cup
  Then({Read("session")}, Then(Repeated(ProcessSession), Then(DeleteGone, {Write("session")})))

-----------------------------------------------------------------------------
(* The other tasks, the status request, and cleanupResources.              *)
UpdateBirdConfig == Then({<<>>, Read("metric")}, WriteConfig)

UpdateFilterParams ==
  {Read("session")} \cup
  Then({Read("session") \o Read("rtt")}, Then(Repeated(UpdateBirdConfig), Configure))

CollectSession == Then(Repeated(BirdCommand), {Read("traffic") \o Read("rtt")})

CollectMetrics ==
  {Read("session")} \cup
  Then({Read("session")}, Then(Repeated(CollectSession), {Write("metric") \o Read("session")}))

MeasureRTT == {Read("rtt") \o Read("rtt") \o Write("rtt") \o Write("rtt")}

CleanupRTT == {Read("session") \o Write("rtt")}

PeerProbe == Then({Read("session")}, {<<>>, Write("probe")})

CopySessions == {Read("session")}

MonitorTraffic == {Write("traffic")}

Status == {Holding(Read("session"), Read("metric"))}

Heartbeat == BirdCommand

LookingGlass == BirdCommand

PoolMaintenance == {Write("pool")}

\* Close never comes to the release when the channel is empty (bird.go:319):
\* which steps a goroutine may never take, Lifecycle says.
PoolClose == {Write("pool")}

CleanupResources ==
  Then(PoolClose, {Write("session") \o Write("metric") \o Write("traffic") \o Write("rtt")})

\* What a task does on ctx.Done: mainSessionTask, metricTask,
\* bandwidthMonitorTask take a lock to count their entries.
ShutdownOf(t) ==
  CASE t = "sync"    -> {Read("session")}
    [] t = "metric"  -> {Write("metric")}
    [] t = "monitor" -> {Write("traffic")}
    [] OTHER         -> {<<>>}

PlansOf(p) ==
  CASE p \in {"sync", "manual"} -> SyncSessions
    [] p = "updater"            -> UpdateFilterParams
    [] p = "metric"             -> CollectMetrics
    [] p = "worker"             -> MeasureRTT
    [] p = "rtt"                -> CopySessions \cup CleanupRTT
    [] p = "probe"              -> PeerProbe
    [] p \in {"geo", "dns"}     -> CopySessions
    [] p = "monitor"            -> MonitorTraffic
    [] p = "status"             -> Status
    [] p = "heartbeat"          -> Heartbeat
    [] p = "viewer"             -> LookingGlass
    [] p = "maintenance"        -> PoolMaintenance
    [] p = "main"               -> CleanupResources

\* What a plan does with some of the locks.
Only(s, locks) ==
  LET kept[n \in 0 .. Len(s)] ==
        IF n = 0 THEN <<>>
        ELSE IF s[n].lock \in locks THEN Append(kept[n - 1], s[n]) ELSE kept[n - 1]
  IN  kept[Len(s)]

Over(ps, locks) == {Only(s, locks) : s \in ps}
=============================================================================
