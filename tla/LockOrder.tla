----------------------------- MODULE LockOrder ------------------------------
(***************************************************************************)
(* The locks of the agent and the goroutines that take them.  A goroutine  *)
(* works in rounds; a round follows one of its plans, the sequence of lock *)
(* operations some path through its code makes.  An RWMutex of Go holds    *)
(* back readers that come after a writer that waits, and lets in those it  *)
(* held back when that writer unlocks; a Mutex is one that is only taken   *)
(* for writing.                                                            *)
(***************************************************************************)
EXTENDS Integers, Sequences, FiniteSets

CONSTANTS
  Procs,    \* goroutines
  Locks,    \* locks under study
  Rank,     \* position of a lock in the order they are taken
  MaxRank,
  Plans,    \* for each goroutine the plans its rounds may follow
  NoProc

Op == [kind : {"read", "write", "release"}, lock : Locks]

ASSUME LockAssumption ==
  /\ MaxRank \in Nat
  /\ Rank \in [Locks -> 0 .. MaxRank]
  /\ Plans \in [Procs -> SUBSET Seq(Op)]
  /\ NoProc \notin Procs

\* Locks held before operation k of plan s: those it releases from there on
\* without taking them first.
HeldAt(s, k) ==
  {l \in Locks : \E i \in k .. Len(s) :
     /\ s[i] = [kind |-> "release", lock |-> l]
     /\ \A j \in k .. (i - 1) : s[j].lock # l}

\* A lock is only taken by one who holds none of its rank or above, and
\* taken and released in turn; at both ends of a round none is held.
Takes(op) == op.kind \in {"read", "write"}

Ordered(s) ==
  \A k \in 1 .. Len(s) :
    IF Takes(s[k])
      THEN /\ s[k].lock \in HeldAt(s, k + 1)
           /\ \A l \in HeldAt(s, k) : Rank[l] < Rank[s[k].lock]
      ELSE s[k].lock \notin HeldAt(s, k + 1)

PlanOrdered(s) == Ordered(s) /\ HeldAt(s, 1) = {}

PlansOrdered == \A p \in Procs : \A s \in Plans[p] : PlanOrdered(s)

VARIABLES
  todo,     \* the rest of the plan of a goroutine, empty between rounds
  readers,  \* who holds a lock for reading
  writer,   \* who has it for writing, or waits for the readers to leave
  waiting   \* readers that came since

lockVars == <<todo, readers, writer, waiting>>

LockTypeOK ==
  /\ todo \in [Procs -> Seq(Op)]
  /\ readers \in [Locks -> SUBSET Procs]
  /\ writer \in [Locks -> Procs \cup {NoProc}]
  /\ waiting \in [Locks -> SUBSET Procs]
  /\ \A l \in Locks : waiting[l] # {} => writer[l] # NoProc

LockInit ==
  /\ todo = [p \in Procs |-> <<>>]
  /\ readers = [l \in Locks |-> {}]
  /\ writer = [l \in Locks |-> NoProc]
  /\ waiting = [l \in Locks |-> {}]

InRound(p) == todo[p] # <<>>

NextOp(p) == Head(todo[p])

Begins(p, s) ==
  /\ ~ InRound(p)
  /\ todo' = [todo EXCEPT ![p] = s]
  /\ UNCHANGED <<readers, writer, waiting>>

\* Those who are let on go on behind their operation.
Advance(ps) == todo' = [q \in Procs |-> IF q \in ps THEN Tail(todo[q]) ELSE todo[q]]

RLock(p, l) ==
  /\ InRound(p) /\ NextOp(p) = [kind |-> "read", lock |-> l]
  /\ writer[l] = NoProc
  /\ readers' = [readers EXCEPT ![l] = @ \cup {p}]
  /\ Advance({p})
  /\ UNCHANGED <<writer, waiting>>

RLockWaits(p, l) ==
  /\ InRound(p) /\ NextOp(p) = [kind |-> "read", lock |-> l]
  /\ writer[l] # NoProc /\ p \notin waiting[l]
  /\ waiting' = [waiting EXCEPT ![l] = @ \cup {p}]
  /\ UNCHANGED <<todo, readers, writer>>

\* Lock keeps other writers out, and from then on also new readers ...
LockAnnounce(p, l) ==
  /\ InRound(p) /\ NextOp(p) = [kind |-> "write", lock |-> l]
  /\ writer[l] = NoProc
  /\ writer' = [writer EXCEPT ![l] = p]
  /\ UNCHANGED <<todo, readers, waiting>>

\* ... and returns when the readers have left.
LockEnter(p, l) ==
  /\ InRound(p) /\ NextOp(p) = [kind |-> "write", lock |-> l]
  /\ writer[l] = p /\ readers[l] = {}
  /\ Advance({p})
  /\ UNCHANGED <<readers, writer, waiting>>

RUnlock(p, l) ==
  /\ InRound(p) /\ NextOp(p) = [kind |-> "release", lock |-> l]
  /\ p \in readers[l]
  /\ readers' = [readers EXCEPT ![l] = @ \ {p}]
  /\ Advance({p})
  /\ UNCHANGED <<writer, waiting>>

Unlock(p, l) ==
  /\ InRound(p) /\ NextOp(p) = [kind |-> "release", lock |-> l]
  /\ writer[l] = p
  /\ writer' = [writer EXCEPT ![l] = NoProc]
  /\ readers' = [readers EXCEPT ![l] = waiting[l]]
  /\ waiting' = [waiting EXCEPT ![l] = {}]
  /\ Advance({p} \cup waiting[l])

LockStep(p) ==
  \E l \in Locks :
    \/ RLock(p, l) \/ RLockWaits(p, l) \/ RUnlock(p, l)
    \/ LockAnnounce(p, l) \/ LockEnter(p, l) \/ Unlock(p, l)

\* What keeps a goroutine from its next operation.
Free(p) ==
  LET l == NextOp(p).lock IN
  CASE NextOp(p).kind = "read"    -> writer[l] = NoProc
    [] NextOp(p).kind = "write"   -> writer[l] = NoProc \/ (writer[l] = p /\ readers[l] = {})
    [] NextOp(p).kind = "release" -> p \in readers[l] \/ writer[l] = p

(***************************************************************************)
(* As long as a goroutine is in a round, one that is can go on: no         *)
(* goroutines hold each other up for ever, neither with locks taken in     *)
(* different orders nor with a second read lock behind a waiting writer    *)
(* (the nested locks of main.go, handler.go, task_session_sync.go,         *)
(* session.go, task_filter_params_updater.go and bird.go).                 *)
(***************************************************************************)
NoDeadlock ==
  (\E p \in Procs : InRound(p)) => \E p \in Procs : InRound(p) /\ Free(p)
=============================================================================
