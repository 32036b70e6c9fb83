------------------------------ MODULE BirdPool ------------------------------
(***************************************************************************)
(* The pool of BIRD control connections (bird/bird.go): NewBirdPool fills  *)
(* it, WithConnection takes an entry, runs a command on its connection and *)
(* returns the entry, poolMaintenance drops idle ones, Close ends it all.  *)
(* Every step between two points where another goroutine can act is an     *)
(* action; what happens under the pool's lock in one go is one action.     *)
(* Dial attempts with their delays are one step that succeeds or fails.    *)
(***************************************************************************)
EXTENDS Naturals, Sequences, SequencesExt

CONSTANTS
  Callers,      \* goroutines that call WithConnection
  Main,         \* the goroutine that builds and closes the pool
  Entries,      \* PooledConnection objects; one out of reach is used again
  PoolSize,     \* connections made at the start and kept
  PoolSizeMax,  \* as configured
  None          \* nobody, nothing

ASSUME PoolAssumption ==
  /\ PoolSize \in Nat
  /\ PoolSizeMax \in Nat
  /\ Main \notin Callers
  /\ None \notin Callers \cup Entries \cup {Main}

(* A maximum below the size counts as four times the size.                 *)
Limit == IF PoolSizeMax < PoolSize THEN PoolSize * 4 ELSE PoolSizeMax

VARIABLES
  pool,       \* bp.pool
  available,  \* bp.available, a channel of capacity Limit
  sealed,     \* close(bp.available) was called
  shutdown,   \* close(bp.shutdown) was called
  conn,       \* conn of each entry: nil, open, or closed but still there
  inUse,      \* inUse of each entry
  lock,       \* who holds the pool's mutex across steps
  stage,      \* where Main is
  built,      \* NewBirdPool has returned the pool
  tidying,    \* poolMaintenance is running
  pc,         \* where each caller is
  held        \* the entry each caller has

mainVars   == <<stage, built, tidying>>
sharedVars == <<pool, available, sealed, shutdown, conn, inUse>>
poolVars   == <<sharedVars, lock, mainVars, pc, held>>

Conn == {"none", "open", "closed"}
Place == {"idle", "mark", "grow", "dial", "wait", "check", "redial", "replace", "run",
          "reconnect", "swap", "release", "unmark", "send", "gone"}
Stage == {"build", "open", "lock", "channel", "drain", "closed", "gone"}

PoolTypeOK ==
  /\ pool \in Seq(Entries)
  /\ available \in Seq(Entries)
  /\ Len(available) <= Limit
  /\ sealed \in BOOLEAN
  /\ shutdown \in BOOLEAN
  /\ conn \in [Entries -> Conn]
  /\ inUse \in [Entries -> BOOLEAN]
  /\ lock \in Callers \cup {Main, None}
  /\ stage \in Stage
  /\ built \in BOOLEAN
  /\ tidying \in BOOLEAN
  /\ pc \in [Callers -> Place]
  /\ held \in [Callers -> Entries \cup {None}]

PoolInit ==
  /\ pool = <<>>
  /\ available = <<>>
  /\ sealed = FALSE
  /\ shutdown = FALSE
  /\ conn = [e \in Entries |-> "none"]
  /\ inUse = [e \in Entries |-> FALSE]
  /\ lock = None
  /\ stage = "build"
  /\ built = FALSE
  /\ tidying = FALSE
  /\ pc = [c \in Callers |-> "idle"]
  /\ held = [c \in Callers |-> None]

Reachable(e) == e \in ToSet(pool) \cup ToSet(available) \/ \E c \in Callers : held[c] = e

(* A new object: the first that nobody can reach.                          *)
Unused == {e \in Entries : ~ Reachable(e) /\ conn[e] # "open"}
New(e) == e \in Unused /\ e = CHOOSE x \in Unused : TRUE

Unlocked == lock = None

Go(c, place) == pc' = [pc EXCEPT ![c] = place]

-----------------------------------------------------------------------------
(* NewBirdPool: one connection after the other, then the maintenance.      *)
BuildOne(e) ==
  /\ stage = "build"
  /\ Len(pool) < PoolSize
  /\ New(e)
  /\ pool' = Append(pool, e)
  /\ available' = Append(available, e)
  /\ conn' = [conn EXCEPT ![e] = "open"]
  /\ inUse' = [inUse EXCEPT ![e] = FALSE]
  /\ UNCHANGED <<sealed, shutdown, lock, mainVars, pc, held>>

(* A connection that cannot be made ends it with Close; nobody gets the     *)
(* pool.                                                                   *)
BuildFails ==
  /\ stage = "build"
  /\ Len(pool) < PoolSize
  /\ shutdown' = TRUE
  /\ stage' = "lock"
  /\ UNCHANGED <<pool, available, sealed, conn, inUse, lock, built, tidying, pc, held>>

BuildDone ==
  /\ stage = "build"
  /\ Len(pool) = PoolSize
  /\ stage' = "open"
  /\ built' = TRUE
  /\ tidying' = TRUE
  /\ UNCHANGED <<sharedVars, lock, pc, held>>

-----------------------------------------------------------------------------
(* A receive from the channel by c: an entry without a connection is       *)
(* dropped and c goes on at place.                                         *)
Receive(c, place) ==
  LET e == Head(available) IN
  /\ available # <<>>
  /\ available' = Tail(available)
  /\ \/ conn[e] # "none" /\ held' = [held EXCEPT ![c] = e] /\ Go(c, "mark")
     \/ conn[e] = "none" /\ UNCHANGED held /\ Go(c, place)
  /\ UNCHANGED <<pool, sealed, shutdown, conn, inUse>>

(* GetConnection without waiting.  Calls go on after Close as before it.   *)
Get(c) ==
  /\ pc[c] = "idle"
  /\ built
  /\ \/ Receive(c, "grow")
     \/ available = <<>> /\ Go(c, "grow") /\ UNCHANGED <<sharedVars, held>>
  /\ UNCHANGED <<lock, mainVars>>

(* Seeded fault: an entry received is not marked.                          *)
SkipMark(c) ==
  /\ pc[c] = "mark"
  /\ Unlocked
  /\ Go(c, "check")
  /\ UNCHANGED <<sharedVars, held, lock, mainVars>>

MarkInUse(c) ==
  /\ pc[c] = "mark"
  /\ Unlocked
  /\ inUse' = [inUse EXCEPT ![held[c]] = TRUE]
  /\ Go(c, "check")
  /\ UNCHANGED <<pool, available, sealed, shutdown, conn, held, lock, mainVars>>

(* Seeded fault: the lock is given back to dial.                           *)
GrowUnlocked(c) ==
  /\ pc[c] = "grow"
  /\ Unlocked
  /\ Go(c, IF Len(pool) < Limit THEN "dial" ELSE "wait")
  /\ UNCHANGED <<sharedVars, held, lock, mainVars>>

(* Below the limit the lock is kept while dialling.                        *)
Grow(c) ==
  /\ pc[c] = "grow"
  /\ Unlocked
  /\ \/ Len(pool) < Limit /\ lock' = c /\ Go(c, "dial")
     \/ Len(pool) >= Limit /\ UNCHANGED lock /\ Go(c, "wait")
  /\ UNCHANGED <<sharedVars, held, mainVars>>

(* Seeded fault: the new entry is also offered to others.                  *)
DialledOffered(c, e) ==
  /\ pc[c] = "dial"
  /\ New(e)
  /\ Len(available) < Limit
  /\ pool' = Append(pool, e)
  /\ available' = Append(available, e)
  /\ conn' = [conn EXCEPT ![e] = "open"]
  /\ inUse' = [inUse EXCEPT ![e] = TRUE]
  /\ held' = [held EXCEPT ![c] = e]
  /\ lock' = None
  /\ Go(c, "check")
  /\ UNCHANGED <<sealed, shutdown, mainVars>>

Dialled(c, e) ==
  /\ pc[c] = "dial"
  /\ New(e)
  /\ pool' = Append(pool, e)
  /\ conn' = [conn EXCEPT ![e] = "open"]
  /\ inUse' = [inUse EXCEPT ![e] = TRUE]
  /\ held' = [held EXCEPT ![c] = e]
  /\ lock' = None
  /\ Go(c, "check")
  /\ UNCHANGED <<available, sealed, shutdown, mainVars>>

(* Seeded fault: the lock is not given back on the error path.             *)
DialFailsLocked(c) ==
  /\ pc[c] = "dial"
  /\ Go(c, "idle")
  /\ UNCHANGED <<sharedVars, held, lock, mainVars>>

DialFails(c) ==
  /\ pc[c] = "dial"
  /\ lock' = None
  /\ Go(c, "idle")
  /\ UNCHANGED <<sharedVars, held, mainVars>>

(* Waiting for an entry: one without a connection is dropped.              *)
WaitReceives(c) ==
  /\ pc[c] = "wait"
  /\ Receive(c, "wait")
  /\ UNCHANGED <<lock, mainVars>>

(* Five seconds are over, or the pool shuts down.                          *)
WaitEnds(c) ==
  /\ pc[c] = "wait"
  /\ Go(c, "idle")
  /\ UNCHANGED <<sharedVars, held, lock, mainVars>>

-----------------------------------------------------------------------------
(* WithConnection: the entry's connection may have gone meanwhile.         *)
CheckConnection(c) ==
  /\ pc[c] = "check"
  /\ Go(c, IF conn[held[c]] = "none" THEN "redial" ELSE "run")
  /\ UNCHANGED <<sharedVars, held, lock, mainVars>>

(* The command; it fails for certain on a connection that is not open.     *)
Run(c) ==
  /\ pc[c] = "run"
  /\ \/ conn[held[c]] = "open" /\ Go(c, "release")
     \/ Go(c, "reconnect")
  /\ UNCHANGED <<sharedVars, held, lock, mainVars>>

(* createConnection without the lock: for an entry that has none, or after *)
(* a failed command; when it fails the entry is returned as it is.         *)
Redial(c) ==
  /\ pc[c] \in {"redial", "reconnect"}
  /\ \/ Go(c, IF pc[c] = "redial" THEN "replace" ELSE "swap")
     \/ Go(c, "release")
  /\ UNCHANGED <<sharedVars, held, lock, mainVars>>

(* The new connection takes the place of the old, which is closed, and the *)
(* command is run or run again.                                            *)
Replace(c) ==
  /\ pc[c] \in {"replace", "swap"}
  /\ Unlocked
  /\ conn' = [conn EXCEPT ![held[c]] = "open"]
  /\ Go(c, IF pc[c] = "replace" THEN "run" ELSE "release")
  /\ UNCHANGED <<pool, available, sealed, shutdown, inUse, held, lock, mainVars>>

(* ReleaseConnection: during shutdown the connection is closed, otherwise  *)
(* the entry is to be returned, whatever happens to the pool meanwhile.    *)
Release(c) ==
  /\ pc[c] = "release"
  /\ \/ /\ shutdown
        /\ conn' = [conn EXCEPT ![held[c]] = IF @ = "open" THEN "closed" ELSE @]
        /\ held' = [held EXCEPT ![c] = None]
        /\ Go(c, "idle")
     \/ /\ ~ shutdown
        /\ Go(c, "unmark")
        /\ UNCHANGED <<conn, held>>
  /\ UNCHANGED <<pool, available, sealed, shutdown, inUse, lock, mainVars>>

(* Seeded fault: the caller's variable is cleared before it is returned.   *)
UnmarkForgets(c) ==
  /\ pc[c] = "unmark"
  /\ Unlocked
  /\ inUse' = [inUse EXCEPT ![held[c]] = FALSE]
  /\ held' = [held EXCEPT ![c] = None]
  /\ Go(c, "send")
  /\ UNCHANGED <<pool, available, sealed, shutdown, conn, lock, mainVars>>

Unmark(c) ==
  /\ pc[c] = "unmark"
  /\ Unlocked
  /\ inUse' = [inUse EXCEPT ![held[c]] = FALSE]
  /\ Go(c, "send")
  /\ UNCHANGED <<pool, available, sealed, shutdown, conn, held, lock, mainVars>>

(* A send on a closed channel panics, and the process with all goroutines  *)
(* is gone; on a full one the entry is dropped.                            *)
Send(c) ==
  /\ pc[c] = "send"
  /\ \/ /\ sealed
        /\ pc' = [d \in Callers |-> "gone"]
        /\ stage' = "gone"
        /\ tidying' = FALSE
        /\ UNCHANGED <<available, held>>
     \/ /\ ~ sealed
        /\ available' = IF Len(available) < Limit THEN Append(available, held[c]) ELSE available
        /\ held' = [held EXCEPT ![c] = None]
        /\ Go(c, "idle")
        /\ UNCHANGED <<stage, tidying>>
  /\ UNCHANGED <<pool, sealed, shutdown, conn, inUse, lock, built>>

-----------------------------------------------------------------------------
(* Seeded fault: the mark is not looked at.                                *)
KeepRecent(kept, e, old) ==
  IF Len(kept) < PoolSize \/ e \notin old THEN Append(kept, e) ELSE kept

(* poolMaintenance: beyond the base size, entries that are neither in use  *)
(* nor recent (not in old) are closed and leave the pool, not the channel. *)
Keep(kept, e, old) ==
  IF inUse[e] \/ Len(kept) < PoolSize \/ e \notin old THEN Append(kept, e) ELSE kept

Kept(old) ==
  LET kept[n \in 0 .. Len(pool)] == IF n = 0 THEN <<>> ELSE Keep(kept[n - 1], pool[n], old)
  IN  kept[Len(pool)]

Prune(old) ==
  LET dropped == ToSet(pool) \ ToSet(Kept(old)) IN
  /\ tidying
  /\ Unlocked
  /\ Len(pool) > PoolSize
  /\ pool' = Kept(old)
  /\ conn' = [e \in Entries |-> IF e \in dropped THEN "none" ELSE conn[e]]
  /\ UNCHANGED <<available, sealed, shutdown, inUse, lock, mainVars, pc, held>>

TidyingEnds ==
  /\ tidying
  /\ shutdown
  /\ tidying' = FALSE
  /\ UNCHANGED <<sharedVars, lock, stage, built, pc, held>>

-----------------------------------------------------------------------------
(* Close, called once the tasks are over or have had their thirty seconds. *)
Shutdown ==
  /\ stage = "open"
  /\ shutdown' = TRUE
  /\ stage' = "lock"
  /\ UNCHANGED <<pool, available, sealed, conn, inUse, lock, built, tidying, pc, held>>

CloseLocks ==
  /\ stage = "lock"
  /\ Unlocked
  /\ lock' = Main
  /\ stage' = "channel"
  /\ UNCHANGED <<sharedVars, built, tidying, pc, held>>

(* An entry in the channel is taken for a sign that it is closed already.  *)
CloseChannel ==
  /\ stage = "channel"
  /\ \/ available # <<>> /\ available' = Tail(available) /\ UNCHANGED sealed
     \/ available = <<>> /\ sealed' = TRUE /\ UNCHANGED available
  /\ stage' = "drain"
  /\ UNCHANGED <<pool, shutdown, conn, inUse, lock, built, tidying, pc, held>>

(* A closed channel that is empty goes on yielding nil: nothing changes.   *)
Drain ==
  /\ stage = "drain"
  /\ available # <<>>
  /\ available' = Tail(available)
  /\ conn' = [conn EXCEPT ![Head(available)] = IF @ = "open" THEN "closed" ELSE @]
  /\ UNCHANGED <<pool, sealed, shutdown, inUse, lock, mainVars, pc, held>>

Sweep ==
  /\ stage = "drain"
  /\ available = <<>>
  /\ ~ sealed
  /\ conn' = [e \in Entries |-> IF e \in ToSet(pool) THEN "none" ELSE conn[e]]
  /\ pool' = <<>>
  /\ lock' = None
  /\ stage' = "closed"
  /\ UNCHANGED <<available, sealed, shutdown, inUse, built, tidying, pc, held>>

-----------------------------------------------------------------------------
Use(c) ==
  \/ MarkInUse(c) \/ Grow(c) \/ DialFails(c) \/ WaitReceives(c) \/ WaitEnds(c)
  \/ \E e \in Entries : Dialled(c, e)
  \/ CheckConnection(c) \/ Run(c) \/ Redial(c) \/ Replace(c)
  \/ Release(c) \/ Unmark(c) \/ Send(c)

Build == BuildFails \/ BuildDone \/ \E e \in Entries : BuildOne(e)

Close == CloseLocks \/ CloseChannel \/ Drain \/ Sweep

PoolNext ==
  \/ \E c \in Callers : Get(c) \/ Use(c)
  \/ Build \/ Shutdown \/ Close
  \/ TidyingEnds \/ \E old \in SUBSET ToSet(pool) : Prune(old)

PoolSpec == PoolInit /\ [][PoolNext]_poolVars

(* Go's mutex lets every waiter in in the end, hence strong fairness; the  *)
(* timer of a waiting call runs whatever it receives.                      *)
FairPoolSpec ==
  /\ PoolSpec
  /\ WF_poolVars(Build)
  /\ SF_poolVars(Close)
  /\ \A c \in Callers : /\ SF_poolVars(Use(c))
                        /\ WF_poolVars(WaitEnds(c))

-----------------------------------------------------------------------------
(* Properties.                                                             *)

(* No two goroutines speak on one pooled connection: an entry is in the    *)
(* channel once, or with one caller, or with nobody, through timeouts,     *)
(* pruning, reconnects and shutdown (bird.go:203-294).                     *)
ExclusiveUse ==
  /\ \A i, j \in DOMAIN available : available[i] = available[j] => i = j
  /\ \A c \in Callers : held[c] # None =>
       /\ held[c] \notin ToSet(available)
       /\ \A d \in Callers : held[d] = held[c] => d = c

(* There are never more connections in the pool than configured, however   *)
(* many callers find the channel empty at a time (bird.go:229-250).        *)
PoolIsBounded == Len(pool) <= Limit

Using == {"check", "redial", "replace", "run", "reconnect", "swap", "release", "unmark"}

(* The maintenance never closes a connection under a caller that has been  *)
(* given it, however long the call takes (bird.go:355-375).                *)
PruneSparesUse ==
  [][\A old \in SUBSET ToSet(pool) : Prune(old) =>
       \A c \in Callers : pc[c] \in Using => conn'[held[c]] = conn[held[c]]]_poolVars

(* The pool as a lender.  An entry is lent from the moment it is marked for *)
(* a caller, or dialled for it, until its mark is taken away.              *)
Lent(c) == IF pc[c] \in Using THEN held[c] ELSE None

Loans == INSTANCE Lease WITH
       Users <- Callers, Items <- Entries, state <- conn, closing <- shutdown,
       lease <- [c \in Callers |-> Lent(c)]

(* Through dials, timeouts, reconnects, pruning and late returns, a caller  *)
(* has its connection for itself: nobody else is given it, and until the   *)
(* shutdown nobody else closes or replaces it (bird.go:203-294, 350-424).   *)
LendsOneByOne == Loans!LeaseSpec

(* Before the shutdown every call returns: none waits for an entry for     *)
(* ever, whoever dials, fails or prunes meanwhile.                         *)
CallsReturn ==
  \A c \in Callers : (pc[c] # "idle") ~> (pc[c] = "idle" \/ shutdown)

(* Close returns, with the pool in any state (main.go:257-261).            *)
CloseReturns == shutdown ~> (stage \in {"closed", "gone"})
=============================================================================
