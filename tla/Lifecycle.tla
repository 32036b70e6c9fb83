----------------------------- MODULE Lifecycle ------------------------------
(***************************************************************************)
(* The agent from start to exit: the background tasks, the goroutines      *)
(* nobody waits for (a manual sync, the workers of an RTT batch), the      *)
(* requests of the HTTP server, and main, which on a signal cancels the    *)
(* context, shuts the server down, waits for the tasks until 30 seconds    *)
(* have passed and clears what they share (main.go:145-291).  What a round *)
(* of each does is abstracted to the locks it takes.                       *)
(***************************************************************************)
EXTENDS LockOrder

CONSTANTS
  Tasks,       \* goroutines main waits for
  Handlers,    \* requests the server waits for
  Detached,    \* goroutines nobody waits for
  Syncs,       \* those of them that run syncSessions
  Main,
  Shutdown,    \* plans of a task for its shutdown
  Endless      \* <<p, l>>: p may stay for ever in what it does holding l

ASSUME LifecycleAssumption ==
  /\ Procs = Tasks \cup Handlers \cup Detached \cup {Main}
  /\ Syncs \subseteq Tasks \cup Detached
  /\ Main \notin Tasks \cup Handlers \cup Detached
  /\ Handlers \cap Syncs = {}
  /\ Shutdown \in [Tasks -> SUBSET Seq(Op)]
  /\ Endless \subseteq Procs \X Locks

ShutdownOrdered == \A t \in Tasks : \A s \in Shutdown[t] : PlanOrdered(s)

VARIABLES
  stage,     \* of main
  timedOut,  \* shutdownCtx has expired
  loop,      \* of a task: running, ending (on ctx.Done) or ended
  syncing    \* who set syncSessionsRunning

lifeVars == <<stage, timedOut, loop, syncing>>
allVars == <<lockVars, lifeVars>>

\* When main returns the process ends, whatever the others are at.
Alive == stage # "exited"

Cancelled == stage # "serving"

\* A task does not sync again once it is ending.
Running(p) == p \in Tasks => loop[p] = "running"

Stages == {"serving", "stopping", "waiting", "cleaning", "exited"}

LifecycleTypeOK ==
  /\ LockTypeOK
  /\ stage \in Stages
  /\ timedOut \in BOOLEAN
  /\ loop \in [Tasks -> {"running", "ending", "ended"}]
  /\ syncing \in Syncs \cup {NoProc}
  /\ \A p \in Syncs : InRound(p) /\ Running(p) => syncing = p

LifecycleInit ==
  /\ LockInit
  /\ stage = "serving"
  /\ timedOut = FALSE
  /\ loop = [t \in Tasks |-> "running"]
  /\ syncing = NoProc

-----------------------------------------------------------------------------
(* syncSessions returns at once when another run of it is under way.       *)
MayRun(p) == p \in Syncs => syncing = NoProc

Round(p) ==
  /\ MayRun(p)
  /\ \E s \in Plans[p] : Begins(p, s)
  /\ syncing' = IF p \in Syncs THEN p ELSE syncing

(* Seeded fault: the flag is not kept to the end of the run.               *)
ReleasesEarly(p) ==
  /\ Alive
  /\ syncing = p
  /\ syncing' = NoProc
  /\ UNCHANGED <<lockVars, stage, timedOut, loop>>

SyncReturns(p) ==
  /\ Alive
  /\ syncing = p /\ ~ InRound(p)
  /\ syncing' = NoProc
  /\ UNCHANGED <<lockVars, stage, timedOut, loop>>

(* A tick may be taken also when ctx.Done is ready: select picks either.   *)
Tick(t) ==
  /\ Alive
  /\ loop[t] = "running" /\ syncing # t
  /\ Round(t)
  /\ UNCHANGED <<stage, timedOut, loop>>

Done(t) ==
  /\ Alive /\ Cancelled
  /\ loop[t] = "running" /\ syncing # t
  /\ \E s \in Shutdown[t] : Begins(t, s)
  /\ loop' = [loop EXCEPT ![t] = "ending"]
  /\ UNCHANGED <<stage, timedOut, syncing>>

TaskReturns(t) ==
  /\ Alive
  /\ loop[t] = "ending" /\ ~ InRound(t)
  /\ loop' = [loop EXCEPT ![t] = "ended"]
  /\ UNCHANGED <<lockVars, stage, timedOut, syncing>>

(* The server takes requests until it shuts down; GET /sync starts a run   *)
(* of syncSessions, and a batch starts workers unless it was cancelled.    *)
Request(h) ==
  /\ ~ Cancelled
  /\ \E s \in Plans[h] : Begins(h, s)
  /\ UNCHANGED lifeVars

Spawn(p) ==
  /\ ~ Cancelled
  /\ syncing # p
  /\ Round(p)
  /\ UNCHANGED <<stage, timedOut, loop>>

-----------------------------------------------------------------------------
Signal ==
  /\ stage = "serving"
  /\ stage' = "stopping"
  /\ UNCHANGED <<lockVars, timedOut, loop, syncing>>

Timeout ==
  /\ Alive /\ Cancelled /\ ~ timedOut
  /\ timedOut' = TRUE
  /\ UNCHANGED <<lockVars, stage, loop, syncing>>

ServerStops ==
  /\ stage = "stopping"
  /\ timedOut \/ \A h \in Handlers : ~ InRound(h)
  /\ stage' = "waiting"
  /\ UNCHANGED <<lockVars, timedOut, loop, syncing>>

(* Seeded fault: main waits for the tasks without the timer.               *)
WaitsForAll ==
  /\ stage = "waiting"
  /\ \A t \in Tasks : loop[t] = "ended"
  /\ stage' = "cleaning"
  /\ \E s \in Plans[Main] : Begins(Main, s)
  /\ UNCHANGED <<timedOut, loop, syncing>>

WaitEnds ==
  /\ stage = "waiting"
  /\ timedOut \/ \A t \in Tasks : loop[t] = "ended"
  /\ stage' = "cleaning"
  /\ \E s \in Plans[Main] : Begins(Main, s)
  /\ UNCHANGED <<timedOut, loop, syncing>>

Exit ==
  /\ stage = "cleaning" /\ ~ InRound(Main)
  /\ stage' = "exited"
  /\ UNCHANGED <<lockVars, timedOut, loop, syncing>>

MainSteps == Timeout \/ ServerStops \/ WaitEnds \/ Exit

Steps(p) == Alive /\ LockStep(p) /\ UNCHANGED lifeVars

LifecycleNext ==
  \/ \E p \in Procs : Steps(p)
  \/ \E t \in Tasks : Tick(t) \/ Done(t) \/ TaskReturns(t)
  \/ \E p \in Syncs : SyncReturns(p)
  \/ \E h \in Handlers : Request(h)
  \/ \E p \in Detached : Spawn(p)
  \/ Signal \/ MainSteps

LifecycleSpec == LifecycleInit /\ [][LifecycleNext]_allVars

\* A goroutine is in something that need not end.
Lingers(p) ==
  /\ InRound(p) /\ NextOp(p).kind = "release"
  /\ <<p, NextOp(p).lock>> \in Endless

(* What else a goroutine does between its lock operations ends (commands,  *)
(* requests and waits have time limits).  A Mutex is handed to who waits   *)
(* longest, so a writer gets its turn when the lock comes free again and   *)
(* again; for a reader the queue of waiting says so.  Of the choice        *)
(* between a tick and ctx.Done nothing is assumed.                         *)
Fairness ==
  /\ \A p \in Procs : SF_allVars(Steps(p) /\ ~ Lingers(p))
  /\ WF_allVars(\E p \in Syncs : SyncReturns(p))
  /\ WF_allVars(MainSteps)

FairLifecycleSpec == LifecycleSpec /\ Fairness

-----------------------------------------------------------------------------
\* Whom a goroutine that is not free waits for.
WaitsFor(p) ==
  LET l == NextOp(p).lock IN
  CASE ~ InRound(p) \/ Free(p) -> {}
    [] writer[l] = p            -> readers[l]
    [] OTHER                    -> {writer[l]}

\* One who lingers, or waits for one who is held up in this way.
Behind(p) ==
  LET upTo[n \in 0 .. Cardinality(Procs)] ==
        IF n = 0 THEN {q \in Procs : Lingers(q)}
        ELSE LET held == upTo[n - 1] IN held \cup {q \in Procs : WaitsFor(q) \cap held # {}}
  IN  p \in upTo[Cardinality(Procs)]

(* After a signal the agent comes to its end, whatever the tasks are at:   *)
(* the wait is cut off by its timer (main.go:183-222), and the locks       *)
(* cleanupResources takes under tasks that still run come free.  Only one  *)
(* thing keeps it: main is for ever in Close, or behind the lock of one    *)
(* whom BIRD does not answer.                                              *)
ShutdownEnds == Cancelled ~> (~ Alive \/ []Behind(Main))

(* Every round ends: no reader is kept out by a run of writers, no writer  *)
(* by readers that keep coming, and nobody waits for one who waits; unless *)
(* it is held up for good by BIRD, by Close or by one who is (conn.go:45,  *)
(* bird.go:307-329).                                                       *)
RoundsEnd ==
  \A p \in Procs : <>[]InRound(p) => <>[](Behind(p) \/ ~ Alive)
=============================================================================
