------------------------------ MODULE Latency -------------------------------
(***************************************************************************)
(* From pings to the latency communities of the BIRD files: batchRTTTask   *)
(* measures the active sessions with a pool of workers and keeps a tracker *)
(* for each (task_rtt.go), an hourly cleanup drops trackers, metricTask    *)
(* collects what they say (task_metric.go), and the filter parameter       *)
(* updater computes an effective RTT from them and writes the community    *)
(* (task_filter_params_updater.go).  Which sessions there are and what a   *)
(* ping gives is environment; a session keeps its addresses.  Only what is *)
(* read and written under one lock in one go is one step.                  *)
(***************************************************************************)
EXTENDS Integers, Sequences, FiniteSets, SequencesExt

CONSTANTS
  Sessions,
  Protos,      \* the protocols in the order they are tried
  AddrOf,      \* protocols for which a session has an address
  Answers,     \* what a ping may give: rtt in milliseconds, loss in percent
  MaxHistory,  \* measurements kept
  Workers,     \* goroutines of a batch
  MaxChanges,  \* changes of sessions and of paths in one behaviour
  None

Silent == [rtt |-> -1, loss |-> 100]

ASSUME LatencyAssumption ==
  /\ Protos \in Seq(ToSet(Protos))
  /\ AddrOf \in [Sessions -> SUBSET ToSet(Protos)]
  /\ Answers \subseteq [rtt : Nat, loss : 0 .. 99]
  /\ MaxHistory \in Nat \ {0}
  /\ MaxChanges \in Nat
  /\ None \notin Sessions \cup ToSet(Protos) \cup Int

VARIABLES
  present,    \* sessions in localSessions
  active,     \* those of them that are ENABLED or PROBLEM
  path,       \* what a ping of an address gives now
  changes,    \* changes so far
  trackers,   \* rttTrackers
  failed,     \* failedPingCache
  batching,   \* batchMeasureRTT is running
  jobs,       \* its sessions that no worker has taken
  work,       \* what each worker is at
  alive,      \* activeUUIDs of performRTTCacheCleanup, None outside it
  wanted,     \* sessions collectMetrics has not come to, None outside it
  fresh,      \* RTTs it has read
  metrics,    \* RTT of each entry of localMetrics
  batch,      \* sessions updateFilterParams has not come to, None outside it
  effective,  \* effectiveRTTValues, None before it is computed
  community   \* latency community in the BIRD file of each session

envVars    == <<present, active, path, changes>>
batchVars  == <<batching, jobs, work>>
metricVars == <<wanted, fresh, metrics>>
updateVars == <<batch, effective, community>>
latencyVars == <<envVars, trackers, failed, batchVars, alive, metricVars, updateVars>>

Addresses == UNION {{u} \X AddrOf[u] : u \in Sessions}
Rtt == Int \cup {None}

RTTTracker == [preferred : ToSet(Protos) \cup {None}, metric : Seq(Answers \cup {Silent})]

Work == [sess : Sessions, order : Seq(ToSet(Protos)), got : Answers \cup {None}]

LatencyTypeOK ==
  /\ active \subseteq present /\ present \subseteq Sessions
  /\ path \in [Addresses -> Answers \cup {Silent}]
  /\ changes \in 0 .. MaxChanges
  /\ \A u \in Sessions : trackers[u] # None =>
       trackers[u] \in RTTTracker /\ Len(trackers[u].metric) \in 1 .. MaxHistory
  /\ failed \subseteq Addresses
  /\ batching \in BOOLEAN
  /\ jobs \subseteq Sessions
  /\ \A w \in Workers : work[w] # None => work[w] \in Work
  /\ alive # None => alive \subseteq Sessions
  /\ wanted # None => wanted \subseteq Sessions
  /\ fresh \in [Sessions -> Rtt]
  /\ metrics \in [Sessions -> Rtt]
  /\ batch # None => batch \subseteq Sessions
  /\ effective # None => effective \in [Sessions -> Rtt]
  /\ community \in [Sessions -> 0 .. 9]

LatencyInit ==
  /\ present \in SUBSET Sessions
  /\ active = present
  /\ path \in [Addresses -> Answers \cup {Silent}]
  /\ changes = 0
  /\ trackers = [u \in Sessions |-> None]
  /\ failed = {}
  /\ batching = FALSE
  /\ jobs = {}
  /\ work = [w \in Workers |-> None]
  /\ alive = None
  /\ wanted = None
  /\ fresh = [u \in Sessions |-> None]
  /\ metrics = [u \in Sessions |-> None]
  /\ batch = None
  /\ effective = None
  /\ community = [u \in Sessions |-> 0]

-----------------------------------------------------------------------------
(* The tracker's numbers.                                                  *)
LastRTT(tracker) == IF tracker = None THEN -1 ELSE Last(tracker.metric).rtt

Total(s) ==
  LET sum[n \in 0 .. Len(s)] == IF n = 0 THEN 0 ELSE sum[n - 1] + s[n]
  IN  sum[Len(s)]

\* Of a history: the RTTs above 0, how many there are, and the losses.
Valid(all)   == [i \in 1 .. Len(all) |-> IF all[i].rtt > 0 THEN all[i].rtt ELSE 0]
Counted(all) == [i \in 1 .. Len(all) |-> IF all[i].rtt > 0 THEN 1 ELSE 0]
Losses(all)  == [i \in 1 .. Len(all) |-> all[i].loss]

(* Seeded fault: the losses are added up, not averaged.                    *)
EffectiveOfSum(tracker) ==
  LET all == tracker.metric
      count == Total(Counted(all)) IN
  IF count = 0 THEN -1
  ELSE (Total(Valid(all)) * (100 + 2 * Total(Losses(all)))) \div (100 * count)

(* calculateEffectiveRTT: the average of the positive RTTs, raised by      *)
(* twice the average loss.                                                 *)
EffectiveRTT(tracker) ==
  LET all == tracker.metric
      count == Total(Counted(all)) IN
  IF count = 0 THEN -1
  ELSE (Total(Valid(all)) * (100 * Len(all) + 2 * Total(Losses(all))))
         \div (100 * Len(all) * count)

(* getLatencyCommunityValue: one more than the logarithm, the thresholds   *)
(* being the powers of e rounded up.                                       *)
Thresholds == {3, 8, 21, 55, 149, 404, 1097, 2981}
LatencyCommunity(rtt) ==
  IF rtt = -1 THEN 0 ELSE 1 + Cardinality({t \in Thresholds : t <= rtt})

(* Seeded fault: the history is never cut.                                 *)
UpdatedUncut(tracker, proto, answer) ==
  LET old == IF tracker = None THEN [preferred |-> None, metric |-> <<>>] ELSE tracker IN
  [preferred |-> IF proto = None THEN old.preferred ELSE proto,
   metric |-> Append(old.metric, answer)]

(* updateRTTTracker: the record is appended, the oldest dropped beyond     *)
(* MaxHistory; a failure leaves the preferred protocol.                    *)
Updated(tracker, proto, answer) ==
  LET old == IF tracker = None THEN [preferred |-> None, metric |-> <<>>] ELSE tracker
      grown == Append(old.metric, answer) IN
  [preferred |-> IF proto = None THEN old.preferred ELSE proto,
   metric |-> IF Len(grown) > MaxHistory THEN Tail(grown) ELSE grown]

\* The members of s that are in S, in their order.
Among(s, S) ==
  LET kept[n \in 0 .. Len(s)] ==
        IF n = 0 THEN <<>>
        ELSE IF s[n] \in S THEN Append(kept[n - 1], s[n]) ELSE kept[n - 1]
  IN  kept[Len(s)]

(* Seeded fault: the preferred protocol has no fallback.                   *)
PreferredOnly(u) ==
  LET t == trackers[u] IN
  Among(IF t = None \/ t.preferred = None THEN Protos ELSE <<t.preferred>>, AddrOf[u])

(* The order of attempts of measureRTT: the preferred protocol alone, the  *)
(* others after it only when the last measurement failed.                  *)
AttemptOrder(u) ==
  LET t == trackers[u] IN
  IF t = None \/ t.preferred = None THEN Among(Protos, AddrOf[u])
  ELSE Among(<<t.preferred>>, AddrOf[u])
         \o IF LastRTT(t) = -1 THEN Among(Protos, AddrOf[u] \ {t.preferred}) ELSE <<>>

-----------------------------------------------------------------------------
(* batchMeasureRTT copies the active sessions and hands them to workers.   *)
StartBatch ==
  /\ ~ batching
  /\ active # {}
  /\ batching' = TRUE
  /\ jobs' = active
  /\ UNCHANGED <<envVars, trackers, failed, work, alive, metricVars, updateVars>>

TakeJob(w) ==
  /\ work[w] = None
  /\ \E u \in jobs :
       /\ jobs' = jobs \ {u}
       /\ work' = [work EXCEPT ![w] = [sess |-> u, order |-> AttemptOrder(u), got |-> None]]
  /\ UNCHANGED <<envVars, trackers, failed, batching, alive, metricVars, updateVars>>

(* Seeded fault: an address that answers again stays in the cache.         *)
PingRemembers(w) ==
  LET j == work[w]
      addr == <<j.sess, Head(j.order)>> IN
  /\ j # None
  /\ j.got = None
  /\ j.order # <<>>
  /\ failed' = IF path[addr].rtt <= 0 THEN failed \cup {addr} ELSE failed
  /\ work' = [work EXCEPT ![w] = IF path[addr].rtt = -1 THEN [j EXCEPT !.order = Tail(@)]
                                                        ELSE [j EXCEPT !.got = path[addr]]]
  /\ UNCHANGED <<envVars, trackers, batching, jobs, alive, metricVars, updateVars>>

(* pingRTT: the cache takes an RTT of 0 for a failure, measureRTT does not. *)
Ping(w) ==
  LET j == work[w]
      addr == <<j.sess, Head(j.order)>> IN
  /\ j # None
  /\ j.got = None
  /\ j.order # <<>>
  /\ failed' = IF path[addr].rtt <= 0 THEN failed \cup {addr} ELSE failed \ {addr}
  /\ work' = [work EXCEPT ![w] = IF path[addr].rtt = -1 THEN [j EXCEPT !.order = Tail(@)]
                                                        ELSE [j EXCEPT !.got = path[addr]]]
  /\ UNCHANGED <<envVars, trackers, batching, jobs, alive, metricVars, updateVars>>

(* The measurement enters the tracker, which may have to be made again.    *)
Record(w) ==
  LET j == work[w] IN
  /\ j # None
  /\ \/ /\ j.got # None
        /\ trackers' = [trackers EXCEPT ![j.sess] = Updated(@, Head(j.order), j.got)]
     \/ /\ j.got = None /\ j.order = <<>>
        /\ trackers' = [trackers EXCEPT ![j.sess] = Updated(@, None, Silent)]
  /\ work' = [work EXCEPT ![w] = None]
  /\ UNCHANGED <<envVars, failed, batching, jobs, alive, metricVars, updateVars>>

EndBatch ==
  /\ batching
  /\ jobs = {}
  /\ \A w \in Workers : work[w] = None
  /\ batching' = FALSE
  /\ UNCHANGED <<envVars, trackers, failed, jobs, work, alive, metricVars, updateVars>>

-----------------------------------------------------------------------------
(* performRTTCacheCleanup looks at the sessions, then at the trackers.     *)
StartCleanup ==
  /\ alive = None
  /\ alive' = present
  /\ UNCHANGED <<envVars, trackers, failed, batchVars, metricVars, updateVars>>

(* Seeded fault: only the cache of failures is cleaned up.                 *)
CleanupCacheOnly ==
  /\ alive # None
  /\ \E old \in SUBSET failed : failed' = failed \ old
  /\ alive' = None
  /\ UNCHANGED <<envVars, trackers, batchVars, metricVars, updateVars>>

(* Any entry of the cache of failures may be twelve hours old.             *)
Cleanup ==
  /\ alive # None
  /\ trackers' = [u \in Sessions |-> IF u \in alive THEN trackers[u] ELSE None]
  /\ \E old \in SUBSET failed : failed' = failed \ old
  /\ alive' = None
  /\ UNCHANGED <<envVars, batchVars, metricVars, updateVars>>

-----------------------------------------------------------------------------
(* collectMetrics: one session after the other, then all into the map.     *)
StartCollect ==
  /\ wanted = None
  /\ active # {}
  /\ wanted' = active
  /\ fresh' = [u \in Sessions |-> None]
  /\ UNCHANGED <<envVars, trackers, failed, batchVars, alive, metrics, updateVars>>

CollectSession(u) ==
  /\ wanted # None
  /\ u \in wanted
  /\ fresh' = [fresh EXCEPT ![u] = LastRTT(trackers[u])]
  /\ wanted' = wanted \ {u}
  /\ UNCHANGED <<envVars, trackers, failed, batchVars, alive, metrics, updateVars>>

StoreMetrics ==
  /\ wanted = {}
  /\ metrics' = [u \in Sessions |-> IF fresh[u] = None THEN metrics[u] ELSE fresh[u]]
  /\ wanted' = None
  /\ fresh' = [u \in Sessions |-> None]
  /\ UNCHANGED <<envVars, trackers, failed, batchVars, alive, updateVars>>

-----------------------------------------------------------------------------
(* updateFilterParams copies the active sessions, computes the effective   *)
(* RTT of every tracker, and writes file after file.                       *)
StartUpdate ==
  /\ batch = None
  /\ active # {}
  /\ batch' = active
  /\ UNCHANGED <<envVars, trackers, failed, batchVars, alive, metricVars, effective, community>>

ComputeEffective ==
  /\ batch # None
  /\ effective = None
  /\ effective' = [u \in Sessions |-> IF trackers[u] = None THEN None
                                      ELSE EffectiveRTT(trackers[u])]
  /\ UNCHANGED <<envVars, trackers, failed, batchVars, alive, metricVars, batch, community>>

(* Without a tracker the last collected RTT serves, whatever its age.      *)
RttOf(u) ==
  CASE effective[u] # None -> effective[u]
    [] effective[u] = None /\ metrics[u] # None -> metrics[u]
    [] OTHER -> -1

WriteCommunity(u) ==
  /\ batch # None
  /\ effective # None
  /\ u \in batch
  /\ community' = [community EXCEPT ![u] = LatencyCommunity(RttOf(u))]
  /\ batch' = batch \ {u}
  /\ UNCHANGED <<envVars, trackers, failed, batchVars, alive, metricVars, effective>>

EndUpdate ==
  /\ batch = {}
  /\ batch' = None
  /\ effective' = None
  /\ UNCHANGED <<envVars, trackers, failed, batchVars, alive, metricVars, community>>

-----------------------------------------------------------------------------
Change ==
  /\ changes < MaxChanges
  /\ changes' = changes + 1
  /\ UNCHANGED <<trackers, failed, batchVars, alive, metricVars, batch, effective>>

(* A run of syncSessions sets u up; configureBird writes no latency.       *)
SetUp(u) ==
  /\ u \notin active
  /\ active' = active \cup {u}
  /\ present' = present \cup {u}
  /\ community' = [community EXCEPT ![u] = 0]
  /\ UNCHANGED path
  /\ Change

(* It is taken down, and kept in the table or not.                         *)
TakeDown(u) ==
  /\ u \in present
  /\ active' = active \ {u}
  /\ \/ u \in active /\ UNCHANGED present
     \/ present' = present \ {u}
  /\ UNCHANGED <<path, community>>
  /\ Change

PathChanges(addr) ==
  /\ \E answer \in (Answers \cup {Silent}) \ {path[addr]} : path' = [path EXCEPT ![addr] = answer]
  /\ UNCHANGED <<active, present, community>>
  /\ Change

-----------------------------------------------------------------------------
Worker(w) == TakeJob(w) \/ Ping(w) \/ Record(w)
Batcher == StartBatch \/ EndBatch
Cleaner == StartCleanup \/ Cleanup
Collector == StartCollect \/ StoreMetrics \/ \E u \in Sessions : CollectSession(u)
Updater == StartUpdate \/ ComputeEffective \/ EndUpdate \/ \E u \in Sessions : WriteCommunity(u)

LatencyNext ==
  \/ Batcher \/ (\E w \in Workers : Worker(w))
  \/ Cleaner \/ Collector \/ Updater
  \/ \E u \in Sessions : SetUp(u) \/ TakeDown(u)
  \/ \E addr \in Addresses : PathChanges(addr)

LatencySpec == LatencyInit /\ [][LatencyNext]_latencyVars

(* Tickers start every task again and again, pings and commands end by a   *)
(* timeout, and no lock is held over either.                               *)
FairLatencySpec ==
  /\ LatencySpec
  /\ WF_latencyVars(Batcher)
  /\ \A w \in Workers : WF_latencyVars(Worker(w))
  /\ WF_latencyVars(Cleaner)
  /\ WF_latencyVars(Collector)
  /\ WF_latencyVars(Updater)

-----------------------------------------------------------------------------
(* Properties.                                                             *)

(* Whatever a history holds and however old the RTT is that the updater    *)
(* falls back on, a community is at least that of the fastest answer and   *)
(* at most that of three times the slowest: failed measurements neither    *)
(* enter the average nor raise it without limit, and no cast takes it out  *)
(* of the scale (updateRTTTracker, calculateEffectiveRTT, collectMetrics,  *)
(* updateFilterParams, getLatencyCommunityValue).                          *)
CommunityIsWarranted ==
  \A u \in Sessions :
    community[u] = 0 \/ \E a, b \in Answers :
      community[u] \in LatencyCommunity(a.rtt) .. LatencyCommunity(3 * b.rtt)

Answering(u) == {p \in AddrOf[u] : path[<<u, p>>] # Silent}

(* What the community of an address that always answers so should be.      *)
Deserved(answer) == LatencyCommunity((answer.rtt * (100 + 2 * answer.loss)) \div 100)

(* Once sessions and paths stay as they are, the file of every active      *)
(* session gets the community of an address that answers, or none if there *)
(* is none: whatever was measured before, in whatever order the tasks run, *)
(* and though only the preferred address is tried as long as it answers    *)
(* (measureRTT, calculateEffectiveRTT, getLatencyCommunityValue).          *)
CommunitySettles ==
  <>[] \A u \in active :
         IF Answering(u) = {} THEN community[u] = 0
         ELSE \E p \in Answering(u) : community[u] = Deserved(path[<<u, p>>])

(* The tracker of a session that is gone does not stay, though a worker    *)
(* that measured it meanwhile makes it again (performRTTCacheCleanup).     *)
StaleTrackerGoes == <>[] \A u \in Sessions \ present : trackers[u] = None

(* An address in use is in the end no longer taken for one that fails      *)
(* (pingRTT, task_rtt.go:168-177).                                         *)
FailureIsForgotten ==
  <>[] \A u \in active :
         trackers[u] # None /\ trackers[u].preferred \in Answering(u)
           => <<u, trackers[u].preferred>> \notin failed
=============================================================================
