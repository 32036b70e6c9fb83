---------------------------- MODULE MCLifecycle -----------------------------
(* The goroutines of the agent, with their operations on the locks of a    *)
(* configuration.                                                          *)
EXTENDS Lifecycle, AgentPlans

CONSTANTS
  Studied,   \* locks whose operations the rounds keep
  Longest    \* most operations on them of a round (all are in the theorems)

MCPlans == [p \in Procs |-> {s \in Over(PlansOf(p), Studied) : Len(s) <= Longest}]
MCShutdown == [t \in Tasks |-> Over(ShutdownOf(t), Studied)]

MCLocks == {"session", "birdConf", "pool", "dial", "metric", "traffic", "rtt", "probe",
            "bird"}

MCRank == [l \in MCLocks |->
  CASE l = "session" -> 0 [] l = "birdConf" -> 1 [] l = "pool" -> 2 [] OTHER -> 3]

Goroutines == {"sync", "manual", "updater", "metric", "worker", "rtt", "probe", "geo",
               "dns", "monitor", "status", "heartbeat", "viewer", "maintenance", "main"}

\* Who may never give back what: a conversation BIRD does not go on with,
\* and the pool, which Close does not leave when the channel is empty.
MCEndless == {<<p, "bird">> : p \in Procs} \cup {<<Main, "pool">>}

\* Also of those paths and locks the rounds leave out.
AgentPlansOrdered ==
  /\ PlansOrdered /\ ShutdownOrdered
  /\ \A g \in Goroutines : \A s \in PlansOf(g) \cup ShutdownOf(g) : PlanOrdered(s)

(* There is one order in which every path of every goroutine takes the     *)
(* locks, all of them, and each path gives back what it took; so does what *)
(* is left of every round (the lock operations named in AgentPlans).       *)
LocksAreOrdered ==
  /\ AgentPlansOrdered
  /\ \A p \in Procs : Ordered(todo[p])
=============================================================================
