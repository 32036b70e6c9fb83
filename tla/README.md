# peerapi-agent: TLA+ models, checks and proofs

peerapi-agent runs on a router of a BGP peering network. It asks a center (the
PeerAPI server) which peering sessions the router should have, brings the kernel
and the BIRD daemon in line, reports back, and measures the result. This project
models the parts of the agent (`src/src/*.go`, `src/src/bird/*.go`) whose
correctness depends on the order of steps, on failures or on limits, checks them
with TLC, and proves every safety property the runs check, a refinement among them, with
TLAPS.

    cd tla
    tlc -workers 2 -config sync_safety.cfg MCSessionSync   # any run of the table below
    tlapm SessionBacking_proofs.tla                        # any *_proofs.tla

Contents: [inventory](#inventory) · [modules](#modules) · [runs](#runs) ·
[bounds](#bounds-and-why-they-are-enough) · [environment and fairness](#environment-and-fairness) ·
[proofs](#what-is-proved) · [findings](#findings) · [left out](#what-is-not-modelled) · [plan](#plan)

## Inventory

### Tables, locks, tasks

`main` starts nine background tasks under one context and an HTTP server. They
share a few tables, each behind a lock, and hardly ever hold a lock while they
run a command, ping, or wait for the network. So nearly every task is "copy the
table under the read lock, let it go, work from the copy", and most of what can
go wrong here comes from that shape.

| State | Lock | Written by | Read by |
|---|---|---|---|
| `localSessions` | `sessionMutex` | `syncSessions`, shutdown | every task, `status` |
| `syncSessionsRunning` | atomic | `syncSessions` | `syncSessions` |
| files in `bird.bgpPeerConfDir` | `birdConfMutex` | `configureBird`, `deleteBird`, filter updater | BIRD |
| interfaces, routes | none (kernel) | `session.go` | measuring tasks |
| `rttTrackers`, `failedPingCache` | `rttMutex` | RTT workers, hourly cleanup | updater, metrics |
| `localMetrics` | `metricMutex` | metric task | updater, `status` |
| `localTrafficRate` | `trafficMutex` | bandwidth task | metric task |
| `BirdPool.pool`, `inUse`, `conn` | the pool's mutex, in part | callers, maintenance, `Close` | the same |
| `BirdPool.available` | a channel | callers, `Close` | callers, `Close` |
| `probeSummaryData` | `probeSummaryMu` | probe task | updater, `configureBird` |
| reserved ports | `portReservationMutex` | `POST` info handler | the same |

### Components

| Component | State and operations | Hard part | What makes it correct |
|---|---|---|---|
| Session synchronisation (`task_session_sync.go`) | center's table, `localSessions`, a run's copy and its next table; fetch, validate, set up, tear down, report, install | two callers, reports lost or doubled, the center edited during a run, restarts without memory | runs do not overlap; ENABLED means provisioned; tables agree in the end; requests are answered; what is removed is removed |
| Provisioning (`session.go`) | interfaces, probe routes, BIRD files, BIRD's own state; configure and delete | every step may fail half-way; the state outlives the process | a success leaves everything complete; a failure is visible to the caller |
| Filter updater (`task_filter_params_updater.go`) | a copy of the active sessions; rewrite files, reload | works on a copy that is out of date | does not bring back what is gone; writes the community that was measured |
| GeoIP check (`task_geoip.go`) | a copy of the active sessions; orders TEARDOWN through the center | its order races with reports of a run | an offending session is torn down in the end |
| BIRD queries (`bird/conn.go`, `bird/bird.go`) | the stream of each connection; dial, greet, restrict, ask, read, repeat, parse | connections die between and during calls; the end of one is no error; old lines may be left | an answer belongs to its command, and is whole or gives no wrong count |
| BIRD connection pool (`bird/bird.go`) | slice, channel, flags per entry; get, use, return, prune, close | the lock covers single steps only | one user per connection; calls return; `Close` ends it |
| RTT measurement (`task_rtt.go`) | trackers, cache of failures; batches with workers, cleanup | cleanup from an old copy, sticky choice of address | follows the path; forgets sessions that are gone |
| Metric collection (`task_metric.go`) | `localMetrics` | values of different ages in one record | the fallback of the updater is refreshed |
| Bandwidth, heartbeat (`task_monitoring.go`) | `localTrafficRate` | counters that restart | a wrong rate does not stay |
| WireGuard endpoint refresh (`task_wireguard_dns.go`) | peers of an interface | key changed since the copy; commands that fail | a peer that moved is found again |
| Peer probe (`task_peer_probe*.go`) | summaries, flags in the files | probes, verdicts, summaries and files each a round behind; two writers | the flags become those of the paths that work |
| Info handler, ports (`handler.go`, `functions.go`) | reservations with expiry | expiry before use, derived ports that collide | no port promised twice |
| HTTP, authentication, looking glass, configuration, logging | none, or read once | none of the above | |
| Lifecycle (`main.go`), locks of all tasks | context, wait group, 30 s; eight locks | locks taken inside locks, writers that hold back readers, cleanup under tasks that still run | nobody waits for ever; shutdown ends |

### How they interact

The synchronisation is the only writer of `localSessions`; it calls provisioning
directly and the center over HTTP. The updater and provisioning meet in the BIRD
files, under `birdConfMutex`. The GeoIP check talks to the synchronisation only by
way of the center. RTT workers feed the updater through `rttTrackers` and, by the
metric task, `localMetrics`. Every query to BIRD goes through the pool, except
`configure`, which dials for itself. `GET /sync` starts a synchronisation in a
goroutine that nobody waits for, not even the shutdown. The probe task and the
center decide together on flags that two writers put into the BIRD files. The
endpoint refresh and the bandwidth monitor meet the synchronisation in the
interfaces it makes anew under them.

## Modules

| Module | Models | Lines of the source |
|---|---|---|
| `Provisioning` | interfaces, routes, files, BIRD; one operator per call of `session.go` with all its outcomes | `session.go:60-654`, `bird.go:505-522` |
| `SessionSync` (extends `Provisioning`) | `syncSessions` step by step, its callers, the center, restarts | `task_session_sync.go`, `main.go:186-291` |
| `SessionTable` | the abstract synchronisation: a table that changes in one step to an answer to one snapshot | refined by `SessionSync` |
| `Agent` (extends `SessionSync`) | the updater's files and the GeoIP check beside it | `task_filter_params_updater.go`, `task_geoip.go` |
| `BirdPool` | the pool, its callers, its maintenance, its `Close` | `bird.go:27-426` |
| `Lease` | the abstract pool: an entry is lent to one user at a time, and its connection changes under that user only by itself or by the shutdown | refined by `BirdPool`, kept by `BirdQuery` |
| `Latency` | pings, trackers, cleanup, collection, effective RTT, community | `task_rtt.go`, `task_metric.go`, `task_filter_params_updater.go:33-199` |
| `BirdQuery` | the connections' streams, calls through `WithConnection`, BIRD going down and up, a `Close` that may keep the lock, parsing of counts | `conn.go:32-124`, `bird.go:167-424`, `526-640` |
| `LockOrder` | `sync.Mutex` and `sync.RWMutex`, and goroutines that follow plans of lock operations | the locks of all tasks |
| `AgentPlans` | those plans, one per path through each task, request and `cleanupResources`, with its talks with BIRD and its error returns | calls of `Lock` and `RLock` in `src/src/*.go`, `bird.go` |
| `Lifecycle` (extends `LockOrder`) | tasks, requests, detached goroutines, signal, timer, cleanup, exit | `main.go:145-291` and the tasks' loops |
| `Peering` | one session's credential, interface and peer; the part of `syncSessions` that changes them, command by command | `task_session_sync.go:429-470`, `session.go:103-385` |
| `EndpointRefresh` (extends `Peering`) | the refresh of endpoints | `task_wireguard_dns.go` |
| `TrafficRates` (extends `Peering`) | two readings, the rate, what is reported of it | `task_monitoring.go:46-174`, `task_metric.go:346-357` |
| `PeerProbe` (extends `Peering`) | probes, verdicts, summaries, the flags and the writers of a file | `task_peer_probe.go`, `task_peer_probe_get_summary.go`, `session.go:387-541`, `task_filter_params_updater.go:203-335` |
| `Upkeep` | the composition of the last three | |
| `MCSessionSync`, `MCAgent`, `MCLatency`, `MCBirdQuery`, `MCLifecycle`, `MCUpkeep` | values of the constants for TLC | |
| `SessionSync_proofs`, `SessionBacking_proofs`, `BirdPool_proofs`, `BirdQuery_proofs`, `Latency_proofs`, `LockOrder_proofs`, `Upkeep_proofs` | theorems | |
| `LoopTheorems` | lemmas about loops over a sequence, used by the proofs above | |

**Steps.** An action is what happens between two points where another goroutine,
the center or a crash can get in: a call that leaves the process (a command, a
request, a write of a file), or what is done under one hold of a lock. A handler's
local computations belong to the action that follows or precedes them.

**Sessions and configurations.** A `BgpSession` is a status and a configuration
`cfg`, a model value that stands for all other fields. `IfaceOf` gives the
interface a configuration names and `FileOf` the BIRD file of an interface, two
steps because the code turns `-` into `_`. `ValidCfgs` are the configurations that
`validateSessionInputs` accepts and `ProbedCfgs` those with a probe route.

**Provisioning.** `link`, `conf` and `loaded` say for each interface, file and
file as BIRD runs it, which session and configuration it was made for and whether
it is whole. A failed `configureInterface` may leave the old interface, the old
one set down, none, or an incomplete new one; a failed `configureBird` the old
file, none, or one cut short. BIRD refuses all files when one is incomplete, and
the agent does not read BIRD's answer to `configure`.

**SessionSync.** `pc[p]` follows call `p` of `syncSessions`; `remote`, `todo`,
`next` and `cur` are its local variables. `Fetch`, then one of `KeepSession`,
`TakeSession` per session, the branches of `processNewSession` and
`processChangedSession` (`SetUpInterface`, `SetUpBird`, `ReportStatus`,
`TearDownInterface`, `TearDownBird`, `AcknowledgeDelete`, `RejectSession`), then
`StartRemoval`, `RemoveSession` for sessions the center no longer lists, and
`Install`. Go's map iteration is random, so the order is any. A report takes the
center's row whatever it holds by then; it may be lost before or after it took
effect. `Restart` empties the process's memory and leaves node and center.

**Agent.** `StartUpdate` copies the active sessions, `UpdateFile` rewrites one
file from the copy (one step: the code holds `birdConfMutex`), `FinishUpdate`
reloads BIRD. `StartCheck`, `PassSession` and `OrderTeardown` are the GeoIP check.

**BirdPool.** An entry is a `PooledConnection`: `conn` (none, open, closed but
there) and `inUse`. A caller goes through `Get`, `MarkInUse` or `Grow` and
`Dialled`, `CheckConnection`, `Run`, `Redial`, `Replace`, `Release`, `Unmark`,
`Send`; the window between the receive and the mark, and between the look at
`shutdown` and the send, are states of their own. `lock` is the pool's mutex where
it is held across steps: while dialling, and in `Close`. A dial with its
retries and backoff is one step that succeeds or fails. To `Lease` it appears as the lender
(`Loans`): an entry is lent while its caller is in `Using`, from its mark, or its first dial, to the
taking away of the mark.

**Latency.** `path` says what a ping of an address gives. `TakeJob` decides the
order of attempts, `Ping` tries one and keeps the cache of failures, `Record`
enters the result in the tracker. The two histories of a tracker (RTTs and losses)
have equal lengths and are one sequence of pairs. `EffectiveRTT` does the code's
floating-point average in integers; `LatencyCommunity` counts the powers of e, rounded up,
that an RTT reaches, which is what the truncated logarithm gives for whole
milliseconds.

**BirdQuery.** `sock[k].stream` is what BIRD has sent on a connection and nobody has
read: lines, each with the command it answers, what it says, and whether its code is
final. A connection is one of an entry, or one a caller is setting up (`Dial`,
`Greet`, `RestrictConn`, `Confirmed`) before `Swap` puts it into its entry. `Ask`
writes the command and on a failure redials once; `ReadLine` and `ReadEnds` are
`Read`, which returns what it has without an error when the connection ends. `Return`
gives the entry back and hands the answer to its parser: `gone` is the panic of a
worker on an answer of no lines. `GoDown` closes BIRD's end of all connections;
lines on the way may still be read. `closing` follows `Close`: `LockPool` announces the shutdown and
takes the lock, `Sweep` closes the connections and lets it go, which it only comes to when the channel is not
empty (`idle # {}`); otherwise the lock stays taken, and `Swap`, `Blocked` calls, pruning and those who return
after they had looked at `shutdown` (`atLock`) stay behind it. `Parsed` is the loop of `parseProtocolOutput`
as a recursive function, and `ReportAssumption` says what BIRD's reports are: the routes of a
channel stand below it. Which entry a caller gets, and whether two may get one, is `BirdPool`'s
question; `BirdQuery` takes exclusive use for granted. What joins the two is `Lease`, which the one
implements and the other keeps to (`Contract`, where an open connection is a restricted one).

**LockOrder, AgentPlans, Lifecycle.** A goroutine's rounds are plans: sequences of
`read`, `write` and `release` of locks, one for each path through its code
(`AgentPlans`). What follows the calls into the pool are its branches: `Lent` or `Refused`, `Used` with its
redials, and the return; `Configure` dials for itself and takes no lock of the pool but `dialMu`. A talk
with BIRD is a pseudo-lock "bird" that all share and nobody writes: it holds nobody back, and marks where a
goroutine may stay for ever. `LockAnnounce` and `LockEnter` are the two halves of
`RWMutex.Lock`: from the first one on new readers wait (`RLockWaits`), and `Unlock`
lets in those who came since. Around the rounds, `Lifecycle` has each task's
loop (`Tick`, `Done`, `TaskReturns`), requests, a detached sync and its
compare-and-swap, and `main`: `Signal`, `ServerStops`, `Timeout`, `WaitEnds`
(which goes on to `cleanupResources` also while tasks are inside their rounds), `Exit`. `Endless` names what need
not end, with the lock under which it happens: a talk with BIRD, and `Close`. `Lingers(p)` says that p is in one, `Behind(p)`
that it is or waits, over however many others, for one who is.

**Peering and Upkeep.** One session whose credential the operator changes, that is
removed and comes back. `Provision` is `DeleteLink`, `AddLink` (counters at zero, no peer), `AddPeer` for WireGuard,
and `BringUp`, each a command between which the other tasks find the session half made; nothing is sent or
shaken before the last. The failures of these commands are `SessionSync`'s. The refresh, the monitor and the prober each work
from a copy or a reading they took before; `LookUpFlag` reads the summaries family by
family while a file's lock is held, so that a fetch may fall in between. A writer begins by removing the file
and making an empty one (`TakeFile`); the updater may fail before, which leaves the old file or none, or after, which
leaves it empty (`<<>>`: cut short), and only counts the error. WireGuard is
external: handshakes succeed where the endpoint is right, get old elsewhere, and an
incoming packet corrects the endpoint (`Roam`). So is the center, which judges
probes late (`Judge`).

## Runs

| Run | Expect | Question and answer |
|---|---|---|
| `sync_safety` | pass | Two sessions, two callers, any one failure, two edits, one kill, renames and rejected configurations. Runs do not overlap (`SingleSync`); every session held, listed next or about to be reported ENABLED is provisioned with that configuration (`EnabledIsProvisioned`); and the whole implements `SessionTable` (`AnswersOneSnapshot`). |
| `sync_clean` | pass | Without restarts, renames and failures on the node, but with lost reports and failed routes: when a run ends nothing of a removed session is left (`InstallLeavesNoResidue`) and BIRD runs what the enabled sessions need (`InstalledIsRunning`). |
| `sync_liveness` | pass | With two failures of any kind, two edits and a kill: the tables agree in the end (`Converges`), every setup request is answered (`SetupIsAnswered`). |
| `agent` | pass | The updater and the GeoIP check beside it, a failure of any kind, two edits, a kill: enabled sessions keep their interface (`EnabledHasLink`), offending sessions are torn down although reports overwrite the order (`OffendersAreTornDown`), and `Converges`. |
| `pool` | pass | Two callers, pool of 1 that may grow to 2, failing dials and commands, pruning and `Close` at any moment: no connection has two users (`ExclusiveUse`), the pool does not outgrow its maximum (`PoolIsBounded`), maintenance never closes one in use (`PruneSparesUse`), the channel holds its capacity (`PoolTypeOK`), the whole implements `Lease` (`LendsOneByOne`), calls return (`CallsReturn`). |
| `latency` | pass | One session with two addresses, four tasks in any order, set up and taken down and paths changing twice: no community lies outside what the answers warrant (`CommunityIsWarranted`); the community in the file settles on that of an address that answers (`CommunitySettles`); stale trackers go (`StaleTrackerGoes`), and so do stale failures (`FailureIsForgotten`). |
| `query` | pass | Two callers, one of which parses, two pooled connections, BIRD going down and up, pruning, a `Close` that may keep the lock: an answer is a beginning of the reply to its own command (`OwnAnswer`), the whole reply when nothing happened during the call (`AnswersWhole`); commands go to restricted connections only (`OnlyRestricted`); a count from a cut answer is right or 0 (`CountsAreTrue`); what calls do to connections is what `Lease` allows (`KeepsLease`); calls end, but for those kept out for ever by a `Close` that found the channel empty (`CallsEnd`). |
| `lifecycle` | pass | The sync task, a request of the looking glass, the pool's maintenance and `main` through a shutdown whose wait may time out: somebody can always go on (`NoDeadlock`), every path of all kinds of goroutines takes the locks in one order and returns them (`LocksAreOrdered`), a sync in a round holds its flag (`LifecycleTypeOK`). Where BIRD answers and `Close` finds an entry in the channel, rounds end (`RoundsEnd`) and the agent exits (`ShutdownEnds`); where not, only those stay that are in such a talk or in `Close`, and those who wait for them. |
| `upkeep` | pass | Refresh, monitor, prober and updater beside the synchronisation: a peer that moves is found again (`EndpointFollows`), a rate over a recreated interface, which wraps, does not stay (`QuietIsReported`), the flags in the file become those of the working paths, also after the updater lost the file or left it cut short (`FlagsSettle`), and an installed session keeps its interface and its own peer until a run replaces them (`InstalledHasPeer`). |
| `residue_updater` | violation | `StaleFileGoes` with the updater. |
| `delete_unanswered` | violation | `DeleteIsAnswered` with one lost report. |
| `close_spins` | violation | `CloseReturns`. |

Every property of a passing run is broken by a seeded fault, a small change to one
action: the definition before it with the comment "Seeded fault" (a dropped guard,
an unchecked error, a forgotten unlock, a merge instead of a replacement).

### Bounds and why they are enough

`MaxFaults`, `MaxEdits`, `MaxRestarts` and `MaxChanges` bound what the environment
does, not what the agent does: its tasks go round as often as they like.

- *Sessions.* Two show every interaction of one session's steps with another's;
  sessions share nothing but BIRD's refusal of all files. Liveness
  uses one session, with two runs' worth of state.
- *Configurations.* Two revisions (on one interface, or on two: a rename), one
  that is refused, and one of the other session.
- *Callers.* The ticker and one `GET /sync`; more callers only fail the
  compare-and-swap. The proof of `SingleSync` covers any number.
- *Faults.* One failure anywhere suffices for the known residues; two let a retry
  fail too. The kinds are `fetch`, `report`, `iface`, `conf`, `bird`, `route`,
  `geo`; a failure shows up in all the ways its error path allows.
- *Pool.* Size 1 and maximum 2 let it grow, be pruned, be full, and lose an entry.
  Five entries are as many as are ever in reach at once: with four to seven TLC
  finds the same states. `close_spins` uses the same instance. The proof covers any
  number of callers and entries.
- *Latency.* A history of two is the shortest that mixes old and new. One answer
  (15 ms with half of the packets lost, so that the penalty changes the community)
  and silence are the paths; two changes allow a session to go and come
  back, or to go while it is measured, or a path to fail and another to come up.
- *Query.* Two callers and two entries let one redial while the other reads. The
  protocols are one with a channel that is down and one that has routes, which gives an
  answer to cut at every line, and one BIRD does not know, whose answer is the
  shortest. A call's `turn` differs from that of an earlier call of which lines are still unread on its
  connection, which is enough to tell them apart. 233,610 states; the proofs cover any numbers and any reports.
- *Lifecycle.* Every path of all goroutines, over all eight locks and "bird", and with up to one
  session, is looked at by `LocksAreOrdered`. Interleaved are the rounds of four goroutines over the three locks
  that are taken one inside another (`sessionMutex`, `birdConfMutex`, the pool's) and "bird": one that takes the first two
  and talks to BIRD in them, one that takes the pool's and talks, one that only takes the pool's, and `main`. `Longest`
  keeps the rounds of at most ten operations on these, which leaves a synchronisation of one session with all
  ends of its talk, and calls with and without a redial. 94,412 states. The theorems cover any goroutines and plans, and
  the agent's own for any number of sessions and plans of any length.
- *Upkeep.* Two changes (of key, address, path, traffic, presence) suffice to move
  and rekey a peer, to carry a byte and recreate the interface, so that the difference
  wraps, or to make a session and move the peer before its first handshake. The modulus is 4
  in place of 2^64: large enough for a positive and a negative rate. Families share one map
  that is replaced as a whole, so there is one. The refresh is about WireGuard and
  probes may be off, so WireGuard sessions without probes, with an endpoint and without, and a probed GRE one give
  what both do without their product. 708,954 states.

`CHECK_DEADLOCK FALSE` is set where the system may stop: `pool` and `close_spins` (the process
may have ended, and `Close` may spin), `query` (the panic of a worker ends the process) and
`lifecycle` (the agent exits).

## Environment and fairness

The center is trusted to give two sessions neither one interface nor two names
that become one file: `UniqueNames`. The agent does not check it. TLC evaluates it
for its instances and the theorem has it as a hypothesis.

`FairSpec` assumes weak fairness of the ticker's start of a run and of each
call's next step. The code justifies both: `mainSessionTask` calls
`syncSessions` on a ticker, every command has a timeout of at most 15 s and every
request `requestTimeout`, and no lock is held that a step waits for indefinitely.
A manual synchronisation need never come, so it gets fairness only once started.
`FairAgentSpec` and `FairLatencySpec` add one weak fairness per task, each of which
has its own goroutine and ticker. Failures need no fairness, they are bounded.

`FairPoolSpec` has strong fairness for a caller's step and for `Close`, because they
take a mutex that others take in between: Go's mutex passes to a
goroutine that has waited for a millisecond, so none starves. `WaitEnds` is the
five-second timer and gets weak fairness of its own, since it runs whatever the
caller receives. Callers are not assumed to call, and the maintenance is not assumed
to run.

`FairQuerySpec` has weak fairness of each caller's next step, and of being served for one that waits at
the pool: BIRD, while it is up, answers or closes. Nothing is assumed of BIRD coming back, and nothing of
`Close` ending.

`Fairness` of `Lifecycle` is strong for each goroutine's lock operations. For a
`Mutex` Go's starvation mode gives that, for readers of an `RWMutex` the queue that
`Unlock` lets in, for its writers that new readers wait. Excepted are the steps out of what need not end
(`Lingers`): reads from BIRD have no deadline (`conn.go:45`), and `Close` does not leave an
empty channel (`bird.go:319-329`). It is weak for `main` and for the return of a
sync. Nothing is assumed of `select`, which may take a tick again and again while the context is
done; the timer of 30 s is what ends the shutdown.

`FairUpkeepSpec` has weak fairness for each task, strong for the two that compete for
`birdConfMutex`, and weak fairness for what the environment owes: the center judges what it
received, handshakes come about where the endpoint is right. The operator, the
peer's moves, incoming packets, traffic and paths have none.

## What is proved

| Theorem | Module | Says |
|---|---|---|
| `TypeCorrect` | `SessionSync_proofs` | `Spec => []TypeOK` |
| `NoTwoSyncs` | `SessionSync_proofs` | `Spec => []SingleSync` |
| `ImplementsTable` | `SessionSync_proofs` | `Spec => AnswersOneSnapshot` |
| `EnabledIsBacked` | `SessionBacking_proofs` | `UniqueNames => (Spec => []EnabledIsProvisioned)` |
| `LeavesNoResidue` | `SessionBacking_proofs` | `UniqueNames`, `NoRenames`, no failures of kind `iface` and `conf`, no restarts `=> (Spec => InstallLeavesNoResidue)` |
| `InstallRuns` | `SessionBacking_proofs` | `UniqueNames`, no failures of kind `conf` and `bird` `=> (Spec => InstalledIsRunning)` |
| `AgentTypes` | `SessionBacking_proofs` | `AgentSpec => []AgentTypeOK` |
| `EnabledKeepsLink` | `SessionBacking_proofs` | `UniqueNames => (AgentSpec => []EnabledHasLink)` |
| `NoSharedConnection` | `BirdPool_proofs` | `PoolSpec => []ExclusiveUse` |
| `PoolTypes`, `PoolStaysBounded` | `BirdPool_proofs` | `PoolSpec => []PoolTypeOK`, `PoolSpec => []PoolIsBounded` |
| `MaintenanceSparesUse` | `BirdPool_proofs` | `PoolSpec => PruneSparesUse` |
| `PoolLends` | `BirdPool_proofs` | `PoolSpec => LendsOneByOne` |
| `QueryTypes` | `BirdQuery_proofs` | `QuerySpec => []QueryTypeOK` |
| `AnswersAreOwn` | `BirdQuery_proofs` | `QuerySpec => []OwnAnswer` |
| `OnlyOnRestricted` | `BirdQuery_proofs` | `QuerySpec => []OnlyRestricted` |
| `UndisturbedAnswersAreWhole` | `BirdQuery_proofs` | `QuerySpec => []AnswersWhole` |
| `ParsedCountsAreTrue` | `BirdQuery_proofs` | `QuerySpec => []CountsAreTrue` |
| `CallsKeepLease` | `BirdQuery_proofs` | `QuerySpec => KeepsLease` |
| `LatencyTypes` | `Latency_proofs` | `LatencySpec => []LatencyTypeOK` |
| `CommunitiesAreWarranted` | `Latency_proofs` | `LatencySpec => []CommunityIsWarranted` |
| `NobodyIsStuck` | `LockOrder_proofs` | `PlansOrdered /\ ShutdownOrdered => (LifecycleSpec => []NoDeadlock)` |
| `SyncHoldsFlag` | `LockOrder_proofs` | the same for `LifecycleTypeOK` |
| `AgentOrdersItsLocks` | `LockOrder_proofs` | `AgentConstants => (LifecycleSpec => []LocksAreOrdered)` |
| `AgentIsNeverStuck` | `LockOrder_proofs` | `AgentConstants => (LifecycleSpec => [](NoDeadlock /\ LifecycleTypeOK))` |
| `UpkeepTypes` | `Upkeep_proofs` | `UpkeepSpec => []UpkeepTypeOK` |
| `InstalledKeepsPeer` | `Upkeep_proofs` | `UpkeepSpec => []InstalledHasPeer` |

All for any sets of sessions, configurations, callers, entries, goroutines, locks and plans, any
budgets and any sizes, from the assumptions named in the modules (`ConfigAssumption`,
`SyncAssumption`, `TableAssumption`, `PoolAssumption`, `QueryAssumption`, `LatencyAssumption`,
`LockAssumption` and the like, which TLC evaluates in the runs). `AgentConstants` fixes the locks,
their ranks and the plans to those of the agent, and leaves open how many sessions a round works
on, which of the goroutines run and which locks are under study.

*`Shape`*, the invariant of the first two, is `TypeOK`, `SingleSync`, and for each
call what its local variables look like at each `pc`: at "delIface" there is an old
entry, at "report" a record, in the removal loop `rec` is None, `todo` holds
only sessions of the right table, and a call that is idle or fetching has nothing. `TypeOK`
alone is not inductive: `cur[p].old.cfg` needs the hand to be there. `SingleSync`
needs it the other way round, the flag being true at all places but "idle".

*`Backing`* adds `Order` and `Raised`. `Order` says that everything made or held
for a session has a configuration of that session (`Names`), and that a call's
`next`, `todo` and hand are apart: a session is either still to come, or in hand, or
done. `Raised` says that a call about to write the BIRD file has its interface up.
What the proof turns on is when the *old* entry of a session may go on claiming
its interface: until the running call has come to that session, `Untouched`. From then
on only the new entry counts, and steps for other sessions cannot disturb it because of
`UniqueNames`. Without `Order` an action for session u could not be shown to leave v alone.

It is stated over `parts`: with {"file"} it claims interface and file, with {} the
interface alone.

*`AgentBacking`* is `Backing({})` with the types of the two tasks. The updater and the
GeoIP check leave interfaces, tables and the calls' variables alone, and what they
write to the center keeps the names of its sessions; that is all `ApartBacking` needs. The claims on
files are not kept: `EnabledIsProvisioned` does not hold beside the updater, which may
write an old configuration.

*`Accounts`*, for `LeavesNoResidue`, adds to `Backing({})` that every interface and file on the
node is one its session can be given (`Owned`), and that somebody accounts for it
(`Covering`): while no run has come to a session its entry in `localSessions`, once a run
is done with it its entry in `next`, and in between the hand, at each `pc` in the way that place
leaves it (after the interface is deleted, the file alone). An entry with a status that asks for
removal accounts for nothing. The hypotheses are what the code needs: a rename leaves the interface of the
old name to nobody, a restart forgets the table, and a failure on the node
may leave what the code then takes for removed. Lost reports, failed routes, failures of
BIRD's reload and edits of the center during a run are all allowed.

*`Runs`*, for `InstallRuns`, is `Backing({"file"})` with `Current`: BIRD runs the files as they are,
and each is complete. Both are lost with the first file cut short or reload that fails, which the
agent does not notice.

*`Answering`*, for the refinement, says how the run stands to its snapshot: `AnsweredSoFar`,
that `next` answers it wherever the loop has come and the rest is ahead or in hand;
`HandAnswers`, that the record in hand is the snapshot's or an answer to it; and
`Settled`, that no installed entry asks for a setup, without which keeping an equal entry
would be no answer. Each action is then a step of `SessionTable` or none; the abstract
`Snapshot` is the answer of the only run that has one, by `SingleSync`.

*`Ownership`*, for the pool, is `ExclusiveUse` with the types of the channel and of
what callers hold, and that a caller past its receive does hold an entry. The case
that needs it is `Send`: what it appends is not yet in the channel. *`Pooled`* adds, for the
other three, that while the pool is built nobody uses it and the channel holds just its entries, that a
caller that dials for a new entry has the lock and found room, that `Close` keeps the lock from the
channel to the end, and that a caller past `MarkInUse` has an entry that is marked. What the
maintenance keeps is worked out by its loop, `Kept`: no more than it has seen, and every entry in use.

*`Lender`*, for the refinement of `Lease`, is `Pooled` with `Ending`: the channel is closed, and the
last stages of `Close` are entered, only once `shutdown` is set, so that a late return or a panic comes
with it. Each action then lends, renews, gives back or closes, or changes nothing of what is lent. An
entry that a caller has received but not marked is lent to nobody, which is what allows the
maintenance to drop it there. *`Borrower`*, on the other side, is `Orderly` (below) with `Resting`: a caller
between two calls has no entry.

*`Orderly`*, for the queries, says for each caller that what it has read and
what its connection still holds make up its reply, or a beginning of it (`Split`), that
connections nobody uses have nothing to be read, and that a connection being set up
carries no command. `OwnAnswer` alone is not inductive: what a caller reads next has to be known.
`Undisturbed` adds what a call cannot run into while nothing happens: a connection that
is dead after it was dialled, a second failed write, the end of the connection before that of
the reply. `ParsedCountsAreTrue` needs of an answer only that it is a beginning of the
reply: whatever a prefix of the loop has set is 0 or the number that `ReportAssumption` ties to the
channel seen last.

*`LatencyInv`* is the types, that a worker tries addresses of its session and got
its answer from the first of them, and that every RTT that was collected, computed or is about to be
written lies between an answer and three times an answer, or is -1. The step that
needs an argument is `EffectiveRTT`: by induction over the history, as many answers as were counted add up
to something between as many of the fastest and as many of the slowest; no loss is above
100 %; so the quotient lies where it should, and the scale is monotone.

`UpkeepTypeOK` is inductive as it stands. *`Keeping`*, for `InstalledHasPeer`, adds what a run has made at
each phase of the session it is about to install (`Making`): the interface, with the peer of the wanted key
from the phase "up" on. `Writing` says that it holds the file's lock in phase "bird" only, so that no `Configured` comes
late and installs a session whose interface the next run is already taking away. Every other step that changes the interface
leaves there what it has, and every peer (`PeersStay`). Of the file nothing is claimed: the updater may lose it.

*`NobodyIsStuck`* takes, of the goroutines in a round, one whose next lock has
the greatest rank. If it cannot go on, somebody holds that lock; whoever holds a lock still has
its release in the rest of the plan and so is in a round; its next operation is a release,
which can go on, or takes a lock of a greater rank. The invariant ties the state of the
locks to the plans: `HeldAt`, what the rest of a plan releases without taking it, is what its
goroutine holds. That a reader's plan may meet a waiting writer is why the
invariant also speaks of who waits. 
*`AgentOrdersItsLocks`* shows that the agent's plans are such. TLC checks it for the paths with up to one
session; the proof takes any number. A part of a plan is `Sound(r)` when it is ordered by itself and
takes no lock of a rank below r. Two such parts may follow one another, one may be repeated, one may be
enclosed by a lock of a lower rank, and the operations on some locks may be left out; every
plan in `AgentPlans` is put together in these ways.

*Loops.* What a model computes by a loop (`Kept`, `Parsed`, `Only`, `Among`, `Total`) is
a recursive function over the positions of a sequence. `LoopTheorems` shows that such a
function exists and, by way of sets instead of predicates, that what each pass preserves holds at
the end (`Climb`).

Only model-checked: everything under fairness (`Converges`, `SetupIsAnswered`,
`OffendersAreTornDown`, `CallsReturn`, `CallsEnd`, `CommunitySettles`, `StaleTrackerGoes`,
`FailureIsForgotten`, `RoundsEnd`, `ShutdownEnds`, `EndpointFollows`, `QuietIsReported`,
`FlagsSettle`), which TLAPS does not do here.

## Findings

- **The updater brings a file back** (`residue_updater`). It works from a copy; a
  session deleted since gets its file rewritten, and nothing deletes it again.
- **A deletion can stay unanswered** (`delete_unanswered`). When the answer
  to a deletion is lost and the entry was unknown, it is stored as QUEUED_FOR_DELETE,
  equals the center's, and is never looked at again.
- **`Close` does not return** (`close_spins`). It closes the channel when it is
  empty and then drains it until a receive would block, which a closed channel never
  does. `NewBirdPool` runs into it when BIRD cannot be reached at start. When all connections are in use at a
  shutdown `main` does not come to its end either, and callers that need the pool's lock stay: the exceptions in
  `ShutdownEnds`, `RoundsEnd` and `CallsEnd`.

Seen on the way, without a run: the table of sessions is not persisted, so a session
queued for deletion while the agent is stopped is answered with DELETED and its
interface and file stay, and one removed meanwhile is not looked at (the reason why `sync_clean`
has no restarts); `ReleaseConnection` looks at `shutdown` before it takes the lock and sends
after it, on a channel that `Close` may have closed, which panics (stage "gone" of `BirdPool`);
a worker that asks for the status of a protocol when BIRD goes down before it has sent a
line panics on the empty answer (`gone` of `BirdQuery`); RTTs of 0 ms are left out of the
average, so a peer whose pings all take less than a millisecond counts as one
that never answers; the endpoint refresh adds a peer with the old key to an
interface made anew for another; a session moved to another interface name leaves the
old interface and file; a BIRD file cut short stops BIRD from loading any other
(both are why `sync_clean` excludes renames and failures on the node); a probe route
that fails is not retried although the log says so; an entry of the pool can be
pruned between its receive and its mark, after which the pool may hold more open
connections than its maximum; the community at 55, 1097 and 2981 ms is one above the
table in the comment; the updater removes a file before it has a new one, and when it then cannot create or fill it, the
session stays ENABLED without a file, or with one cut short, until the next round.

## What is not modelled

- *Output and decoding*: commands' texts, templates, JSON, HTTP routing,
  authentication, the looking glass, logging, configuration. They carry no state
  that changes after the start.
- *The rest of BIRD's output*: `ParseProtocolDetail` and the tables of `ShowProtocols` feed the looking glass and
  the metrics, and change nothing.
- *Passthrough information and port reservations*: reservations expire after 300 s whether
  or not the session was set up, and two ASNs with equal last digits derive one
  port. Both are in the code as it stands; beyond its guards there is no property of the
  reservations that holds, and no document promises one.
- *Heartbeat*: a request without state. *Start-up and the listener*: before any
  task runs.
- *Within what is modelled*: changes of the addresses of a session while it is
  measured, cancellation inside an RTT batch, dial backoff times, filter
  parameters other than the latency community and the probe flags, the packets of a
  probe and the pool of workers that sends them, the report of metrics to the center. A BIRD
  that hangs without closing its socket keeps its caller for ever, since reads have no
  deadline; `query` assumes it does not, and `lifecycle` has it.

## Plan

Done, in this order: `Provisioning`, `SessionSync` with `SessionTable`, `Agent`,
the proofs about synchronisation, `BirdPool` with its proof, `Latency`; `LockOrder`, `AgentPlans`
and `Lifecycle` with the proof against deadlock; `BirdQuery` with its proofs; `Peering`,
`EndpointRefresh`, `TrafficRates`, `PeerProbe` and `Upkeep`; the proof of the
refinement of `SessionTable`; the proofs about `Agent`; the proofs about what an installed table leaves and what BIRD
runs then, the order of the agent's locks, the pool's bounds, parsed counts, the communities, and the
remaining types; `Lease`, with the proofs that the pool implements it and that the queries keep to it;
the proof that the refresh leaves an installed session its interface and its peer.

Left: in `Agent`, revisions of files and how long the updater may leave an old one; in
`BirdPool`, entries lost on a full channel; in `Latency`, answers at the thresholds of the
communities and below a millisecond.
