-------------------------- MODULE LockOrder_proofs --------------------------
(***************************************************************************)
(* The goroutines of the agent never hold each other up for ever, however  *)
(* many there are and whatever their plans, as long as every plan takes    *)
(* the locks in the order of their ranks.  The argument: of the goroutines *)
(* in a round take one whose next lock has the greatest rank.  If it could *)
(* not go on, somebody would hold that lock, who is in a round and is next *)
(* to take a lock of a greater rank, or could go on.                       *)
(* The plans of the agent do, for any number of sessions: parts that take  *)
(* no lock below a rank (Sound) can follow one another, be repeated, be    *)
(* enclosed by a lock of a lower rank, and lose the operations on some     *)
(* locks.                                                                  *)
(***************************************************************************)
EXTENDS MCLifecycle, LoopTheorems, TLAPS

-----------------------------------------------------------------------------
(* Plans.                                                                  *)

(* What is held before an operation of the rest of a plan.                 *)
LEMMA HeldAtTail ==
  ASSUME NEW s \in Seq(Op), s # <<>>, NEW k \in Nat, k >= 1
  PROVE  HeldAt(Tail(s), k) = HeldAt(s, k + 1)
<1>1. /\ Len(Tail(s)) = Len(s) - 1
      /\ Len(s) \in Nat /\ Len(s) > 0
      /\ \A i \in 1 .. Len(Tail(s)) : Tail(s)[i] = s[i + 1]
  OBVIOUS
<1>2. ASSUME NEW l \in HeldAt(Tail(s), k)
      PROVE  l \in HeldAt(s, k + 1)
  <2>1. PICK i \in k .. Len(Tail(s)) :
          /\ Tail(s)[i] = [kind |-> "release", lock |-> l]
          /\ \A j \in k .. (i - 1) : Tail(s)[j].lock # l
    BY <1>2 DEF HeldAt
  <2>2. i + 1 \in (k + 1) .. Len(s) /\ s[i + 1] = [kind |-> "release", lock |-> l]
    BY <1>1, <2>1
  <2>3. ASSUME NEW j \in (k + 1) .. ((i + 1) - 1)
        PROVE  s[j].lock # l
    <3>1. j - 1 \in k .. (i - 1) /\ Tail(s)[j - 1] = s[(j - 1) + 1] /\ (j - 1) + 1 = j
      BY <1>1, <2>1
    <3> QED  BY <2>1, <3>1
  <2> QED  BY <1>2, <2>2, <2>3 DEF HeldAt
<1>3. ASSUME NEW l \in HeldAt(s, k + 1)
      PROVE  l \in HeldAt(Tail(s), k)
  <2>1. PICK i \in (k + 1) .. Len(s) :
          /\ s[i] = [kind |-> "release", lock |-> l]
          /\ \A j \in (k + 1) .. (i - 1) : s[j].lock # l
    BY <1>3 DEF HeldAt
  <2>2. i - 1 \in k .. Len(Tail(s)) /\ Tail(s)[i - 1] = [kind |-> "release", lock |-> l]
    BY <1>1, <2>1
  <2>3. ASSUME NEW j \in k .. ((i - 1) - 1)
        PROVE  Tail(s)[j].lock # l
    BY <1>1, <2>1
  <2> QED  BY <1>3, <2>2, <2>3 DEF HeldAt
<1> QED  BY <1>2, <1>3

(* Taking and releasing is what changes the locks held.                    *)
LEMMA HeldAtStep ==
  ASSUME NEW s \in Seq(Op), NEW k \in 1 .. Len(s)
  PROVE  /\ Takes(s[k]) => HeldAt(s, k) = HeldAt(s, k + 1) \ {s[k].lock}
         /\ ~ Takes(s[k]) => HeldAt(s, k) = HeldAt(s, k + 1) \cup {s[k].lock}
<1>1. s[k] \in Op /\ Len(s) \in Nat
  OBVIOUS
<1>2. \A l \in HeldAt(s, k) : l = s[k].lock => ~ Takes(s[k])
  <2>1. SUFFICES ASSUME NEW l \in HeldAt(s, k), l = s[k].lock
                 PROVE  ~ Takes(s[k])
    OBVIOUS
  <2>2. PICK i \in k .. Len(s) :
          /\ s[i] = [kind |-> "release", lock |-> l]
          /\ \A j \in k .. (i - 1) : s[j].lock # l
    BY DEF HeldAt
  <2>3. i = k
    BY <2>1, <2>2
  <2> QED  BY <2>2, <2>3 DEF Takes
<1>3. ASSUME NEW l \in HeldAt(s, k), l # s[k].lock
      PROVE  l \in HeldAt(s, k + 1)
  <2>1. PICK i \in k .. Len(s) :
          /\ s[i] = [kind |-> "release", lock |-> l]
          /\ \A j \in k .. (i - 1) : s[j].lock # l
    BY <1>3 DEF HeldAt
  <2>2. i # k
    BY <1>3, <2>1
  <2>3. i \in (k + 1) .. Len(s) /\ \A j \in (k + 1) .. (i - 1) : s[j].lock # l
    BY <1>1, <2>1, <2>2
  <2> QED  BY <1>3, <2>1, <2>3 DEF HeldAt
<1>4. ASSUME NEW l \in HeldAt(s, k + 1), l # s[k].lock
      PROVE  l \in HeldAt(s, k)
  <2>1. PICK i \in (k + 1) .. Len(s) :
          /\ s[i] = [kind |-> "release", lock |-> l]
          /\ \A j \in (k + 1) .. (i - 1) : s[j].lock # l
    BY <1>4 DEF HeldAt
  <2>2. i \in k .. Len(s) /\ \A j \in k .. (i - 1) : s[j].lock # l
    BY <1>1, <1>4, <2>1
  <2> QED  BY <1>4, <2>1, <2>2 DEF HeldAt
<1>5. ~ Takes(s[k]) => s[k].lock \in HeldAt(s, k)
  <2>1. SUFFICES ASSUME ~ Takes(s[k])
                 PROVE  s[k].lock \in HeldAt(s, k)
    OBVIOUS
  <2>2. s[k] = [kind |-> "release", lock |-> s[k].lock] /\ s[k].lock \in Locks
    BY <1>1, <2>1 DEF Takes, Op
  <2>3. k \in k .. Len(s) /\ \A j \in k .. (k - 1) : s[j].lock # s[k].lock
    BY <1>1
  <2> QED  BY <2>2, <2>3 DEF HeldAt
<1> QED  BY <1>2, <1>3, <1>4, <1>5

(* The rest of an ordered plan is ordered, and its first operation changes *)
(* what is held as its kind says.                                          *)
LEMMA OrderedStep ==
  ASSUME NEW s \in Seq(Op), s # <<>>, Ordered(s)
  PROVE  /\ Ordered(Tail(s))
         /\ Head(s) \in Op
         /\ Takes(Head(s)) =>
              /\ Head(s).lock \notin HeldAt(s, 1)
              /\ HeldAt(Tail(s), 1) = HeldAt(s, 1) \cup {Head(s).lock}
              /\ \A l \in HeldAt(s, 1) : Rank[l] < Rank[Head(s).lock]
         /\ ~ Takes(Head(s)) =>
              /\ Head(s).lock \in HeldAt(s, 1)
              /\ HeldAt(Tail(s), 1) = HeldAt(s, 1) \ {Head(s).lock}
<1>1. /\ Len(Tail(s)) = Len(s) - 1
      /\ Len(s) \in Nat /\ Len(s) > 0
      /\ \A i \in 1 .. Len(Tail(s)) : Tail(s)[i] = s[i + 1]
      /\ Tail(s) \in Seq(Op)
      /\ Head(s) = s[1] /\ s[1] \in Op
  OBVIOUS
<1>2. Ordered(Tail(s))
  <2>1. SUFFICES ASSUME NEW k \in 1 .. Len(Tail(s))
                 PROVE  IF Takes(Tail(s)[k])
                          THEN /\ Tail(s)[k].lock \in HeldAt(Tail(s), k + 1)
                               /\ \A l \in HeldAt(Tail(s), k) : Rank[l] < Rank[Tail(s)[k].lock]
                          ELSE Tail(s)[k].lock \notin HeldAt(Tail(s), k + 1)
    BY DEF Ordered
  <2>2. k + 1 \in 1 .. Len(s) /\ Tail(s)[k] = s[k + 1] /\ k \in Nat /\ k >= 1
    BY <1>1
  <2>3. HeldAt(Tail(s), k) = HeldAt(s, k + 1)
    BY <2>2, HeldAtTail
  <2>4. HeldAt(Tail(s), k + 1) = HeldAt(s, (k + 1) + 1)
    BY <2>2, HeldAtTail
  <2>5. IF Takes(s[k + 1])
          THEN /\ s[k + 1].lock \in HeldAt(s, (k + 1) + 1)
               /\ \A l \in HeldAt(s, k + 1) : Rank[l] < Rank[s[k + 1].lock]
          ELSE s[k + 1].lock \notin HeldAt(s, (k + 1) + 1)
    BY <2>2 DEF Ordered
  <2> QED  BY <2>2, <2>3, <2>4, <2>5
<1>3. 1 \in 1 .. Len(s) /\ HeldAt(Tail(s), 1) = HeldAt(s, 1 + 1)
  BY <1>1, HeldAtTail
<1>4. /\ Takes(s[1]) => HeldAt(s, 1) = HeldAt(s, 1 + 1) \ {s[1].lock}
      /\ ~ Takes(s[1]) => HeldAt(s, 1) = HeldAt(s, 1 + 1) \cup {s[1].lock}
  BY <1>3, HeldAtStep
<1>5. IF Takes(s[1])
        THEN /\ s[1].lock \in HeldAt(s, 1 + 1)
             /\ \A l \in HeldAt(s, 1) : Rank[l] < Rank[s[1].lock]
        ELSE s[1].lock \notin HeldAt(s, 1 + 1)
  BY <1>3 DEF Ordered
<1> QED  BY <1>1, <1>2, <1>3, <1>4, <1>5

LEMMA HeldAtEmpty == HeldAt(<<>>, 1) = {} /\ Ordered(<<>>)
BY DEF HeldAt, Ordered

-----------------------------------------------------------------------------
(* The invariant: what a goroutine has of a lock is what its plan says.    *)
Held(p) == HeldAt(todo[p], 1)

ReadersHold == \A p \in Procs, l \in Locks : p \in readers[l] => l \in Held(p)

WriterHolds == \A p \in Procs, l \in Locks :
  writer[l] = p =>
    l \in Held(p) \/ (InRound(p) /\ NextOp(p) = [kind |-> "write", lock |-> l])

HoldersHave == \A p \in Procs, l \in Locks :
  l \in Held(p) => p \in readers[l] \/ writer[l] = p

WaitersWait == \A p \in Procs, l \in Locks :
  p \in waiting[l] => InRound(p) /\ NextOp(p) = [kind |-> "read", lock |-> l]

WriterAlone == \A p \in Procs, l \in Locks :
  writer[l] = p /\ l \in Held(p) => readers[l] = {}

LockInv ==
  /\ LockTypeOK
  /\ \A p \in Procs : Ordered(todo[p])
  /\ ReadersHold /\ WriterHolds /\ HoldersHave /\ WaitersWait /\ WriterAlone

(* Goroutines that go on behind their operations.                          *)
LEMMA AdvanceMoves ==
  ASSUME LockInv, NEW ps \in SUBSET Procs, \A q \in ps : InRound(q), Advance(ps)
  PROVE  /\ todo' \in [Procs -> Seq(Op)]
         /\ \A q \in Procs : Ordered(todo'[q])
         /\ \A q \in Procs \ ps : todo'[q] = todo[q]
         /\ \A q \in ps :
              /\ NextOp(q) \in Op
              /\ Takes(NextOp(q)) =>
                   /\ NextOp(q).lock \notin Held(q)
                   /\ HeldAt(todo'[q], 1) = Held(q) \cup {NextOp(q).lock}
              /\ ~ Takes(NextOp(q)) =>
                   /\ NextOp(q).lock \in Held(q)
                   /\ HeldAt(todo'[q], 1) = Held(q) \ {NextOp(q).lock}
<1>1. \A q \in Procs : todo[q] \in Seq(Op) /\ Ordered(todo[q])
  BY DEF LockInv, LockTypeOK
<1>2. \A q \in ps : todo[q] # <<>> /\ q \in Procs /\ todo'[q] = Tail(todo[q])
  BY DEF Advance, InRound
<1>3. \A q \in Procs \ ps : todo'[q] = todo[q]
  BY DEF Advance
<1>4. todo' \in [Procs -> Seq(Op)]
  BY <1>1, <1>2 DEF Advance, InRound
<1>5. ASSUME NEW q \in ps
      PROVE  /\ Ordered(todo'[q])
             /\ NextOp(q) \in Op
             /\ Takes(NextOp(q)) =>
                  /\ NextOp(q).lock \notin Held(q)
                  /\ HeldAt(todo'[q], 1) = Held(q) \cup {NextOp(q).lock}
             /\ ~ Takes(NextOp(q)) =>
                  /\ NextOp(q).lock \in Held(q)
                  /\ HeldAt(todo'[q], 1) = Held(q) \ {NextOp(q).lock}
  BY <1>1, <1>2, OrderedStep DEF Held, NextOp
<1> QED  BY <1>1, <1>3, <1>4, <1>5

LEMMA InvInit == LockInit => LockInv
<1> SUFFICES ASSUME LockInit PROVE LockInv
  OBVIOUS
<1>1. LockTypeOK
  <2>1. <<>> \in Seq(Op)
    OBVIOUS
  <2> QED  BY <2>1 DEF LockInit, LockTypeOK
<1>2. \A p \in Procs : todo[p] = <<>>
  BY DEF LockInit
<1>3. \A p \in Procs : Ordered(todo[p]) /\ Held(p) = {}
  BY <1>2, HeldAtEmpty DEF Held
<1>4. \A l \in Locks : readers[l] = {} /\ writer[l] = NoProc /\ waiting[l] = {}
  BY DEF LockInit
<1> QED
  BY <1>1, <1>3, <1>4, LockAssumption
  DEF LockInv, ReadersHold, WriterHolds, HoldersHave, WaitersWait, WriterAlone

(* A round begins with nothing held and nothing waited for.                *)
LEMMA InvBegins ==
  ASSUME LockInv, NEW p \in Procs, NEW s \in Seq(Op), PlanOrdered(s), Begins(p, s)
  PROVE  LockInv'
<1>1. /\ todo' = [todo EXCEPT ![p] = s] /\ todo[p] = <<>>
      /\ readers' = readers /\ writer' = writer /\ waiting' = waiting
  BY DEF Begins, InRound
<1>2. todo \in [Procs -> Seq(Op)]
  BY DEF LockInv, LockTypeOK
<1>3. todo' \in [Procs -> Seq(Op)]
  BY <1>1, <1>2
<1>4. /\ todo'[p] = s
      /\ \A q \in Procs : q # p => todo'[q] = todo[q]
  BY <1>1, <1>2
<1>5. Held(p) = {} /\ HeldAt(todo'[p], 1) = {} /\ Ordered(todo'[p])
  BY <1>1, <1>4, HeldAtEmpty DEF Held, PlanOrdered
<1>6. \A l \in Locks : p \notin readers[l] /\ writer[l] # p /\ p \notin waiting[l]
  BY <1>1, <1>5 DEF LockInv, ReadersHold, WriterHolds, WaitersWait, InRound
<1>7. LockTypeOK'
  BY <1>1, <1>3 DEF LockInv, LockTypeOK
<1>8. \A q \in Procs : Ordered(todo'[q])
  BY <1>4, <1>5 DEF LockInv
<1>9. (ReadersHold /\ HoldersHave /\ WriterAlone)'
  BY <1>1, <1>4, <1>5, <1>6 DEF LockInv, ReadersHold, HoldersHave, WriterAlone, Held
<1>10. (WriterHolds /\ WaitersWait)'
  BY <1>1, <1>4, <1>5, <1>6 DEF LockInv, WriterHolds, WaitersWait, Held, InRound, NextOp
<1> QED  BY <1>7, <1>8, <1>9, <1>10 DEF LockInv

(* Each operation on a lock.                                               *)
LEMMA InvRLock ==
  ASSUME LockInv, NEW p \in Procs, NEW l \in Locks, RLock(p, l)
  PROVE  LockInv'
<1>1. /\ InRound(p) /\ NextOp(p) = [kind |-> "read", lock |-> l]
      /\ writer[l] = NoProc /\ Advance({p})
      /\ readers' = [readers EXCEPT ![l] = @ \cup {p}]
      /\ writer' = writer /\ waiting' = waiting
  BY DEF RLock
<1>2. Takes(NextOp(p)) /\ NextOp(p).lock = l
  BY <1>1 DEF Takes
<1>3. /\ todo' \in [Procs -> Seq(Op)]
      /\ \A q \in Procs : Ordered(todo'[q])
      /\ \A q \in Procs \ {p} : todo'[q] = todo[q]
      /\ l \notin Held(p) /\ HeldAt(todo'[p], 1) = Held(p) \cup {l}
  BY <1>1, <1>2, AdvanceMoves
<1>4. readers \in [Locks -> SUBSET Procs]
  BY DEF LockInv, LockTypeOK
<1>5. \A m \in Locks : readers'[m] = IF m = l THEN readers[l] \cup {p} ELSE readers[m]
  BY <1>1, <1>4
<1>6. LockTypeOK'
  BY <1>1, <1>3, <1>4 DEF LockInv, LockTypeOK
<1>7. waiting[l] = {}
  BY <1>1 DEF LockInv, LockTypeOK
<1>8. \A m \in Locks : writer[m] = p => m \in Held(p) /\ m # l
  BY <1>1, LockAssumption DEF LockInv, WriterHolds
<1>9. (ReadersHold /\ HoldersHave)'
  <2>1. ASSUME NEW q \in Procs, NEW m \in Locks, q \in readers'[m]
        PROVE  m \in HeldAt(todo'[q], 1)
    <3>1. m \in Held(q) \/ (q = p /\ m = l)
      BY <1>5, <2>1 DEF LockInv, ReadersHold
    <3> QED
      BY <1>3, <3>1 DEF Held
  <2>2. ASSUME NEW q \in Procs, NEW m \in Locks, m \in HeldAt(todo'[q], 1)
        PROVE  q \in readers'[m] \/ writer'[m] = q
    <3>1. m \in Held(q) \/ (q = p /\ m = l)
      BY <1>3, <2>2 DEF Held
    <3>2. m \in Held(q) => q \in readers[m] \/ writer[m] = q
      BY DEF LockInv, HoldersHave
    <3> QED
      BY <1>1, <1>5, <3>1, <3>2
  <2> QED
    BY <2>1, <2>2 DEF ReadersHold, HoldersHave, Held
<1>10. WriterHolds'
  BY <1>1, <1>3, <1>8 DEF LockInv, WriterHolds, Held, InRound, NextOp
<1>11. WaitersWait'
  BY <1>1, <1>3, <1>7 DEF LockInv, WaitersWait, Held, InRound, NextOp
<1>12. WriterAlone'
  <2> SUFFICES ASSUME NEW q \in Procs, NEW m \in Locks, writer'[m] = q, m \in HeldAt(todo'[q], 1)
               PROVE  readers'[m] = {}
    BY DEF WriterAlone, Held
  <2>1. m # l /\ writer[m] = q
    BY <1>1, LockAssumption
  <2>2. m \in Held(q)
    BY <1>3, <2>1 DEF Held
  <2> QED
    BY <1>5, <2>1, <2>2 DEF LockInv, WriterAlone
<1> QED  BY <1>3, <1>6, <1>9, <1>10, <1>11, <1>12 DEF LockInv

LEMMA InvRLockWaits ==
  ASSUME LockInv, NEW p \in Procs, NEW l \in Locks, RLockWaits(p, l)
  PROVE  LockInv'
<1>1. /\ InRound(p) /\ NextOp(p) = [kind |-> "read", lock |-> l]
      /\ writer[l] # NoProc
      /\ waiting' = [waiting EXCEPT ![l] = @ \cup {p}]
      /\ todo' = todo /\ readers' = readers /\ writer' = writer
  BY DEF RLockWaits
<1>2. waiting \in [Locks -> SUBSET Procs]
  BY DEF LockInv, LockTypeOK
<1>3. \A m \in Locks : waiting'[m] = IF m = l THEN waiting[l] \cup {p} ELSE waiting[m]
  BY <1>1, <1>2
<1>4. LockTypeOK'
  BY <1>1, <1>2, <1>3 DEF LockInv, LockTypeOK
<1>5. WaitersWait'
  BY <1>1, <1>3 DEF LockInv, WaitersWait, InRound, NextOp
<1>6. (ReadersHold /\ WriterHolds /\ HoldersHave /\ WriterAlone)'
  BY <1>1 DEF LockInv, ReadersHold, WriterHolds, HoldersHave, WriterAlone, Held, InRound, NextOp
<1> QED  BY <1>1, <1>4, <1>5, <1>6 DEF LockInv

LEMMA InvLockAnnounce ==
  ASSUME LockInv, NEW p \in Procs, NEW l \in Locks, LockAnnounce(p, l)
  PROVE  LockInv'
<1>1. /\ InRound(p) /\ NextOp(p) = [kind |-> "write", lock |-> l]
      /\ writer[l] = NoProc
      /\ writer' = [writer EXCEPT ![l] = p]
      /\ todo' = todo /\ readers' = readers /\ waiting' = waiting
  BY DEF LockAnnounce
<1>2. writer \in [Locks -> Procs \cup {NoProc}]
  BY DEF LockInv, LockTypeOK
<1>3. \A m \in Locks : writer'[m] = IF m = l THEN p ELSE writer[m]
  BY <1>1, <1>2
<1>4. l \notin Held(p)
  <2>1. todo[p] \in Seq(Op) /\ todo[p] # <<>> /\ Ordered(todo[p])
    BY <1>1 DEF LockInv, LockTypeOK, InRound
  <2>2. Takes(Head(todo[p])) /\ Head(todo[p]).lock = l
    BY <1>1 DEF Takes, NextOp
  <2> QED  BY <2>1, <2>2, OrderedStep DEF Held
<1>5. LockTypeOK'
  BY <1>1, <1>2, <1>3, LockAssumption DEF LockInv, LockTypeOK
<1>6. (ReadersHold /\ WaitersWait)'
  BY <1>1 DEF LockInv, ReadersHold, WaitersWait, Held, InRound, NextOp
<1>7. WriterHolds'
  BY <1>1, <1>3 DEF LockInv, WriterHolds, Held, InRound, NextOp
<1>8. HoldersHave'
  BY <1>1, <1>3, LockAssumption DEF LockInv, HoldersHave, Held
<1>9. WriterAlone'
  BY <1>1, <1>3, <1>4 DEF LockInv, WriterAlone, Held
<1> QED  BY <1>1, <1>5, <1>6, <1>7, <1>8, <1>9 DEF LockInv

LEMMA InvLockEnter ==
  ASSUME LockInv, NEW p \in Procs, NEW l \in Locks, LockEnter(p, l)
  PROVE  LockInv'
<1>1. /\ InRound(p) /\ NextOp(p) = [kind |-> "write", lock |-> l]
      /\ writer[l] = p /\ readers[l] = {} /\ Advance({p})
      /\ readers' = readers /\ writer' = writer /\ waiting' = waiting
  BY DEF LockEnter
<1>2. Takes(NextOp(p)) /\ NextOp(p).lock = l
  BY <1>1 DEF Takes
<1>3. /\ todo' \in [Procs -> Seq(Op)]
      /\ \A q \in Procs : Ordered(todo'[q])
      /\ \A q \in Procs \ {p} : todo'[q] = todo[q]
      /\ l \notin Held(p) /\ HeldAt(todo'[p], 1) = Held(p) \cup {l}
  BY <1>1, <1>2, AdvanceMoves
<1>4. LockTypeOK'
  BY <1>1, <1>3 DEF LockInv, LockTypeOK
<1>5. \A m \in Locks : p \notin waiting[m]
  BY <1>1 DEF LockInv, WaitersWait
<1>6. \A m \in Locks : writer[m] = p => m \in Held(p) \/ m = l
  BY <1>1 DEF LockInv, WriterHolds
<1>7. ReadersHold'
  BY <1>1, <1>3 DEF LockInv, ReadersHold, Held
<1>8. HoldersHave'
  BY <1>1, <1>3 DEF LockInv, HoldersHave, Held
<1>9. WriterAlone'
  BY <1>1, <1>3 DEF LockInv, WriterAlone, Held
<1>10. WriterHolds'
  BY <1>1, <1>3, <1>6 DEF LockInv, WriterHolds, Held, InRound, NextOp
<1>11. WaitersWait'
  BY <1>1, <1>3, <1>5 DEF LockInv, WaitersWait, InRound, NextOp
<1> QED  BY <1>3, <1>4, <1>7, <1>8, <1>9, <1>10, <1>11 DEF LockInv

LEMMA InvRUnlock ==
  ASSUME LockInv, NEW p \in Procs, NEW l \in Locks, RUnlock(p, l)
  PROVE  LockInv'
<1>1. /\ InRound(p) /\ NextOp(p) = [kind |-> "release", lock |-> l]
      /\ p \in readers[l] /\ Advance({p})
      /\ readers' = [readers EXCEPT ![l] = @ \ {p}]
      /\ writer' = writer /\ waiting' = waiting
  BY DEF RUnlock
<1>2. ~ Takes(NextOp(p)) /\ NextOp(p).lock = l
  BY <1>1 DEF Takes
<1>3. /\ todo' \in [Procs -> Seq(Op)]
      /\ \A q \in Procs : Ordered(todo'[q])
      /\ \A q \in Procs \ {p} : todo'[q] = todo[q]
      /\ l \in Held(p) /\ HeldAt(todo'[p], 1) = Held(p) \ {l}
  BY <1>1, <1>2, AdvanceMoves
<1>4. readers \in [Locks -> SUBSET Procs]
  BY DEF LockInv, LockTypeOK
<1>5. \A m \in Locks : readers'[m] = IF m = l THEN readers[l] \ {p} ELSE readers[m]
  BY <1>1, <1>4
<1>6. LockTypeOK'
  BY <1>1, <1>3, <1>4 DEF LockInv, LockTypeOK
<1>7. \A m \in Locks : p \notin waiting[m]
  BY <1>1 DEF LockInv, WaitersWait
<1>8. \A m \in Locks : writer[m] = p => m \in Held(p) /\ m # l
  BY <1>1, <1>3 DEF LockInv, WriterHolds, WriterAlone
<1>9. (ReadersHold /\ HoldersHave /\ WriterAlone)'
  <2>1. ASSUME NEW q \in Procs, NEW m \in Locks
        PROVE  m \in HeldAt(todo'[q], 1) <=> m \in Held(q) /\ ~ (q = p /\ m = l)
    BY <1>3 DEF Held
  <2>2. ASSUME NEW q \in Procs, NEW m \in Locks
        PROVE  q \in readers'[m] <=> q \in readers[m] /\ ~ (q = p /\ m = l)
    BY <1>5
  <2>3. ReadersHold'
    BY <2>1, <2>2 DEF LockInv, ReadersHold, Held
  <2>4. HoldersHave'
    <3> SUFFICES ASSUME NEW q \in Procs, NEW m \in Locks, m \in HeldAt(todo'[q], 1)
                 PROVE  q \in readers'[m] \/ writer'[m] = q
      BY DEF HoldersHave, Held
    <3>1. m \in Held(q) /\ ~ (q = p /\ m = l)
      BY <2>1
    <3>2. q \in readers[m] \/ writer[m] = q
      BY <3>1 DEF LockInv, HoldersHave
    <3> QED
      BY <1>1, <2>2, <3>1, <3>2
  <2>5. WriterAlone'
    BY <1>1, <1>3, <1>5, <1>8, <2>1 DEF LockInv, WriterAlone, Held
  <2> QED
    BY <2>3, <2>4, <2>5
<1>10. WriterHolds'
  BY <1>1, <1>3, <1>8 DEF LockInv, WriterHolds, Held, InRound, NextOp
<1>11. WaitersWait'
  BY <1>1, <1>3, <1>7 DEF LockInv, WaitersWait, InRound, NextOp
<1> QED  BY <1>3, <1>6, <1>9, <1>10, <1>11 DEF LockInv

(* Unlock also moves the readers that came since the writer.               *)
LEMMA InvUnlock ==
  ASSUME LockInv, NEW p \in Procs, NEW l \in Locks, Unlock(p, l)
  PROVE  LockInv'
<1>1. /\ InRound(p) /\ NextOp(p) = [kind |-> "release", lock |-> l]
      /\ writer[l] = p /\ Advance({p} \cup waiting[l])
      /\ readers' = [readers EXCEPT ![l] = waiting[l]]
      /\ writer' = [writer EXCEPT ![l] = NoProc]
      /\ waiting' = [waiting EXCEPT ![l] = {}]
  BY DEF Unlock
<1>2. /\ readers \in [Locks -> SUBSET Procs] /\ waiting \in [Locks -> SUBSET Procs]
      /\ writer \in [Locks -> Procs \cup {NoProc}]
  BY DEF LockInv, LockTypeOK
<1>3. \A q \in waiting[l] :
        /\ q \in Procs /\ q # p
        /\ InRound(q) /\ NextOp(q) = [kind |-> "read", lock |-> l]
  BY <1>1, <1>2 DEF LockInv, WaitersWait
<1>4. ~ Takes(NextOp(p)) /\ NextOp(p).lock = l
  BY <1>1 DEF Takes
<1>5. \A q \in waiting[l] : Takes(NextOp(q)) /\ NextOp(q).lock = l
  BY <1>3 DEF Takes
<1>6. {p} \cup waiting[l] \in SUBSET Procs /\ \A q \in {p} \cup waiting[l] : InRound(q)
  BY <1>1, <1>2, <1>3
<1>7. /\ todo' \in [Procs -> Seq(Op)]
      /\ \A q \in Procs : Ordered(todo'[q])
      /\ \A q \in Procs : q # p /\ q \notin waiting[l] => todo'[q] = todo[q]
      /\ l \in Held(p) /\ HeldAt(todo'[p], 1) = Held(p) \ {l}
      /\ \A q \in waiting[l] : l \notin Held(q) /\ HeldAt(todo'[q], 1) = Held(q) \cup {l}
  <2> DEFINE ps == {p} \cup waiting[l]
  <2>1. ps \in SUBSET Procs /\ (\A q \in ps : InRound(q)) /\ Advance(ps)
    BY <1>1, <1>6
  <2>2. p \in ps /\ (\A q \in waiting[l] : q \in ps)
    OBVIOUS
  <2>3. \A q \in Procs : q # p /\ q \notin waiting[l] => q \in Procs \ ps
    OBVIOUS
  <2> HIDE DEF ps
  <2>4. /\ todo' \in [Procs -> Seq(Op)]
        /\ \A q \in Procs : Ordered(todo'[q])
        /\ \A q \in Procs \ ps : todo'[q] = todo[q]
        /\ \A q \in ps :
             /\ Takes(NextOp(q)) =>
                  /\ NextOp(q).lock \notin Held(q)
                  /\ HeldAt(todo'[q], 1) = Held(q) \cup {NextOp(q).lock}
             /\ ~ Takes(NextOp(q)) =>
                  /\ NextOp(q).lock \in Held(q)
                  /\ HeldAt(todo'[q], 1) = Held(q) \ {NextOp(q).lock}
    BY <2>1, AdvanceMoves
  <2> QED  BY <1>4, <1>5, <2>2, <2>3, <2>4
<1>8. \A m \in Locks :
        /\ readers'[m] = IF m = l THEN waiting[l] ELSE readers[m]
        /\ writer'[m] = IF m = l THEN NoProc ELSE writer[m]
        /\ waiting'[m] = IF m = l THEN {} ELSE waiting[m]
  BY <1>1, <1>2
<1>9. readers[l] = {}
  BY <1>1, <1>7 DEF LockInv, WriterAlone
<1>10. LockTypeOK'
  BY <1>1, <1>2, <1>7, <1>8 DEF LockInv, LockTypeOK
<1>11. ReadersHold'
  BY <1>7, <1>8 DEF LockInv, ReadersHold, Held
<1>12. \A q \in Procs : writer[l] = q => q = p
  BY <1>1
<1>13. HoldersHave'
  <2>1. SUFFICES ASSUME NEW q \in Procs, NEW m \in Locks, m \in HeldAt(todo'[q], 1)
                 PROVE  q \in readers'[m] \/ writer'[m] = q
    BY DEF HoldersHave, Held
  <2>2. m # l => m \in Held(q)
    BY <1>7, <2>1 DEF Held
  <2>3. CASE m # l
    BY <1>8, <2>2, <2>3 DEF LockInv, HoldersHave
  <2>4. CASE m = l
    <3>1. q # p
      BY <1>7, <2>1, <2>4
    <3>2. q \in waiting[l] \/ l \in Held(q)
      BY <1>7, <2>1, <2>4, <3>1 DEF Held
    <3>3. l \notin Held(q)
      BY <1>7, <1>9, <1>12, <3>1, <3>2 DEF LockInv, HoldersHave
    <3> QED  BY <1>8, <2>4, <3>2, <3>3
  <2> QED  BY <2>3, <2>4
<1>14. WaitersWait'
  <2>1. SUFFICES ASSUME NEW q \in Procs, NEW m \in Locks, q \in waiting'[m]
                 PROVE  todo'[q] # <<>> /\ Head(todo'[q]) = [kind |-> "read", lock |-> m]
    BY DEF WaitersWait, InRound, NextOp
  <2>2. m # l /\ q \in waiting[m]
    BY <1>8, <2>1
  <2>3. InRound(q) /\ NextOp(q) = [kind |-> "read", lock |-> m]
    BY <2>2 DEF LockInv, WaitersWait
  <2>4. q # p /\ q \notin waiting[l]
    BY <1>1, <1>3, <2>2, <2>3
  <2> QED  BY <1>7, <2>3, <2>4 DEF InRound, NextOp
<1>15. WriterHolds'
  <2>1. SUFFICES ASSUME NEW q \in Procs, NEW m \in Locks, writer'[m] = q
                 PROVE  \/ m \in HeldAt(todo'[q], 1)
                        \/ todo'[q] # <<>> /\ Head(todo'[q]) = [kind |-> "write", lock |-> m]
    BY DEF WriterHolds, Held, InRound, NextOp
  <2>2. m # l /\ writer[m] = q
    BY <1>8, <2>1, LockAssumption
  <2>3. CASE m \in Held(q)
    BY <1>7, <2>2, <2>3 DEF Held
  <2>4. CASE InRound(q) /\ NextOp(q) = [kind |-> "write", lock |-> m]
    <3>1. q # p /\ q \notin waiting[l]
      BY <1>1, <1>3, <2>4
    <3> QED  BY <1>7, <2>4, <3>1 DEF InRound, NextOp
  <2> QED  BY <2>2, <2>3, <2>4 DEF LockInv, WriterHolds
<1>16. WriterAlone'
  <2>1. SUFFICES ASSUME NEW q \in Procs, NEW m \in Locks, writer'[m] = q,
                        m \in HeldAt(todo'[q], 1)
                 PROVE  readers'[m] = {}
    BY DEF WriterAlone, Held
  <2>2. m # l /\ writer[m] = q
    BY <1>8, <2>1, LockAssumption
  <2>3. m \in Held(q)
    BY <1>7, <2>1, <2>2 DEF Held
  <2> QED  BY <1>8, <2>2, <2>3 DEF LockInv, WriterAlone
<1> QED  BY <1>7, <1>10, <1>11, <1>13, <1>14, <1>15, <1>16 DEF LockInv

LEMMA InvLockStep ==
  ASSUME LockInv, NEW p \in Procs, LockStep(p)
  PROVE  LockInv'
BY InvRLock, InvRLockWaits, InvLockAnnounce, InvLockEnter, InvRUnlock, InvUnlock DEF LockStep

LEMMA InvStutters == LockInv /\ UNCHANGED lockVars => LockInv'
BY DEF LockInv, LockTypeOK, ReadersHold, WriterHolds, HoldersHave, WaitersWait, WriterAlone,
       Held, InRound, NextOp, lockVars

-----------------------------------------------------------------------------
(* The argument against deadlock.                                          *)

(* A goroutine that can not go on is about to take a lock, and another one *)
(* in a round holds that lock or can not go on either because of a third   *)
(* one that does.                                                          *)
LEMMA SomebodyHolds ==
  ASSUME LockInv, NEW p \in Procs, InRound(p), ~ Free(p)
  PROVE  /\ Takes(NextOp(p)) /\ NextOp(p).lock \in Locks
         /\ \E q \in Procs : InRound(q) /\
              \/ NextOp(p).lock \in Held(q)
              \/ Free(q)
<1> DEFINE l == NextOp(p).lock
<1>1. /\ NextOp(p) \in Op /\ l \in Locks
      /\ ~ Takes(NextOp(p)) => l \in Held(p)
  <2>1. todo[p] \in Seq(Op) /\ todo[p] # <<>> /\ Ordered(todo[p])
    BY DEF LockInv, LockTypeOK, InRound
  <2> QED  BY <2>1, OrderedStep DEF Held, NextOp, Op
<1>2. NextOp(p).kind \in {"read", "write", "release"}
  BY <1>1 DEF Op
<1>3. Takes(NextOp(p))
  BY <1>1, <1>2 DEF Takes, Free, LockInv, HoldersHave
<1>4. \A q \in Procs : l \in Held(q) => InRound(q)
  BY HeldAtEmpty DEF Held, InRound
<1>5. CASE readers[l] # {}
  <2>1. PICK q \in Procs : q \in readers[l]
    BY <1>1, <1>5 DEF LockInv, LockTypeOK
  <2> QED  BY <1>1, <1>3, <1>4, <2>1 DEF LockInv, ReadersHold
<1>6. CASE readers[l] = {}
  <2>1. writer[l] # NoProc /\ writer[l] \in Procs
    BY <1>1, <1>2, <1>3, <1>6 DEF Free, Takes, LockInv, LockTypeOK
  <2>2. PICK q \in Procs : writer[l] = q
    BY <2>1
  <2>3. CASE l \in Held(q)
    BY <1>1, <1>3, <1>4, <2>3
  <2>4. CASE InRound(q) /\ NextOp(q) = [kind |-> "write", lock |-> l]
    <3>1. Free(q)
      BY <1>6, <2>2, <2>4 DEF Free
    <3> QED  BY <1>1, <1>3, <2>4, <3>1
  <2> QED  BY <1>1, <2>2, <2>3, <2>4 DEF LockInv, WriterHolds
<1> QED  BY <1>5, <1>6

LEMMA InvNoDeadlock == LockInv => NoDeadlock
<1> SUFFICES ASSUME LockInv, NEW b \in Procs, InRound(b), \A p \in Procs : InRound(p) => ~ Free(p)
             PROVE  FALSE
  BY DEF NoDeadlock
<1> DEFINE Left(p) == MaxRank - Rank[NextOp(p).lock]
           T == {Left(p) : p \in {q \in Procs : InRound(q)}}
<1>1. \A p \in Procs : InRound(p) => Takes(NextOp(p)) /\ NextOp(p).lock \in Locks
  BY SomebodyHolds
<1>2. \A m \in Locks : Rank[m] \in Nat /\ Rank[m] <= MaxRank
  BY LockAssumption
<1>3. T \subseteq Nat /\ T # {}
  BY <1>1, <1>2, LockAssumption
<1>4. IsWellFoundedOn(OpToRel(<, Nat), Nat)
  BY NatLessThanWellFounded
<1>5. PICK t \in T : \A y \in T : ~ (<<y, t>> \in OpToRel(<, Nat))
  <2> HIDE DEF T
  <2> QED  BY <1>3, <1>4, WFMin
<1>6. \A y \in T : ~ (y < t)
  <2>1. \A y \in Nat : y < t => <<y, t>> \in OpToRel(<, Nat)
    BY <1>3, <1>5 DEF OpToRel
  <2> QED  BY <1>3, <1>5, <2>1
<1>7. PICK p \in Procs : InRound(p) /\ t = Left(p)
  BY <1>5
<1>8. PICK q \in Procs : InRound(q) /\ NextOp(p).lock \in Held(q)
  BY <1>7, SomebodyHolds
<1>9. Rank[NextOp(p).lock] < Rank[NextOp(q).lock]
  <2>1. todo[q] \in Seq(Op) /\ todo[q] # <<>> /\ Ordered(todo[q])
    BY <1>8 DEF LockInv, LockTypeOK, InRound
  <2> QED  BY <1>1, <1>8, <2>1, OrderedStep DEF Held, NextOp
<1>10. Left(q) < Left(p)
  BY <1>1, <1>2, <1>7, <1>8, <1>9, LockAssumption
<1>11. Left(q) \in T
  BY <1>8
<1> QED  BY <1>6, <1>7, <1>10, <1>11

-----------------------------------------------------------------------------
(* The agent.                                                              *)

LEMMA AgentKeepsLockInv ==
  ASSUME PlansOrdered, ShutdownOrdered, LockInv, [LifecycleNext]_allVars
  PROVE  LockInv'
<1>1. ASSUME NEW p \in Procs, \E s \in Plans[p] : Begins(p, s)
      PROVE  LockInv'
  <2>1. PICK s \in Plans[p] : Begins(p, s)
    BY <1>1
  <2>2. s \in Seq(Op) /\ PlanOrdered(s)
    BY LockAssumption DEF PlansOrdered
  <2> QED  BY <2>1, <2>2, InvBegins
<1>2. Tasks \cup Handlers \cup Detached \cup {Main} = Procs
  BY LifecycleAssumption
<1>3. ASSUME NEW p \in Procs, Steps(p) PROVE LockInv'
  BY <1>3, InvLockStep DEF Steps
<1>4. ASSUME NEW t \in Tasks, Tick(t) PROVE LockInv'
  BY <1>1, <1>2, <1>4 DEF Tick, Round
<1>5. ASSUME NEW t \in Tasks, Done(t) PROVE LockInv'
  <2>1. PICK s \in Shutdown[t] : Begins(t, s)
    BY <1>5 DEF Done
  <2>2. s \in Seq(Op) /\ PlanOrdered(s) /\ t \in Procs
    BY <1>2, LifecycleAssumption DEF ShutdownOrdered
  <2> QED  BY <2>1, <2>2, InvBegins
<1>6. ASSUME NEW t \in Tasks, TaskReturns(t) PROVE LockInv'
  BY <1>6, InvStutters DEF TaskReturns
<1>7. ASSUME NEW p \in Syncs, SyncReturns(p) PROVE LockInv'
  BY <1>7, InvStutters DEF SyncReturns
<1>8. ASSUME NEW h \in Handlers, Request(h) PROVE LockInv'
  BY <1>1, <1>2, <1>8 DEF Request
<1>9. ASSUME NEW p \in Detached, Spawn(p) PROVE LockInv'
  BY <1>1, <1>2, <1>9 DEF Spawn, Round
<1>10. ASSUME WaitEnds PROVE LockInv'
  BY <1>1, <1>2, <1>10 DEF WaitEnds
<1>11. ASSUME Signal \/ Timeout \/ ServerStops \/ Exit PROVE LockInv'
  BY <1>11, InvStutters DEF Signal, Timeout, ServerStops, Exit
<1>12. ASSUME UNCHANGED allVars PROVE LockInv'
  BY <1>12, InvStutters DEF allVars
<1> QED
  BY <1>3, <1>4, <1>5, <1>6, <1>7, <1>8, <1>9, <1>10, <1>11, <1>12
  DEF LifecycleNext, MainSteps

(* Whatever plans the goroutines follow, if each of them takes the locks   *)
(* in the order of their ranks, then as long as one of them is in a round  *)
(* some goroutine can go on, also while main shuts down and clears the     *)
(* tables under tasks that have not ended (main.go:145-291).               *)
THEOREM NobodyIsStuck ==
  ASSUME PlansOrdered, ShutdownOrdered
  PROVE  LifecycleSpec => []NoDeadlock
<1>1. LifecycleInit => LockInv
  BY InvInit DEF LifecycleInit
<1>2. LockInv /\ [LifecycleNext]_allVars => LockInv'
  BY AgentKeepsLockInv
<1>3. LockInv => NoDeadlock
  BY InvNoDeadlock
<1> QED  BY <1>1, <1>2, <1>3, PTL DEF LifecycleSpec

-----------------------------------------------------------------------------
(* The flag of syncSessions.                                               *)
FlagIsHeld == \A p \in Syncs : InRound(p) /\ Running(p) => syncing = p

Stays ==
  /\ stage \in Stages
  /\ timedOut \in BOOLEAN
  /\ loop \in [Tasks -> {"running", "ending", "ended"}]
  /\ syncing \in Syncs \cup {NoProc}

(* An operation on a lock starts no round.                                 *)
LEMMA StepsStartNothing ==
  ASSUME LockInv, NEW p \in Procs, LockStep(p)
  PROVE  \A q \in Procs : InRound(q)' => InRound(q)
<1>1. ASSUME NEW ps \in SUBSET Procs, Advance(ps), \A q \in ps : InRound(q)
      PROVE  \A q \in Procs : InRound(q)' => InRound(q)
  BY <1>1 DEF Advance, InRound
<1>2. ASSUME Advance({p}), InRound(p)
      PROVE  \A q \in Procs : InRound(q)' => InRound(q)
  BY <1>1, <1>2
<1>3. ASSUME NEW l \in Locks, Unlock(p, l)
      PROVE  \A q \in Procs : InRound(q)' => InRound(q)
  <2>1. \A q \in waiting[l] : q \in Procs /\ InRound(q)
    BY DEF LockInv, LockTypeOK, WaitersWait
  <2>2. InRound(p) /\ Advance({p} \cup waiting[l])
    BY <1>3 DEF Unlock
  <2>3. {p} \cup waiting[l] \in SUBSET Procs
    BY <2>1
  <2> QED  BY <1>1, <2>1, <2>2, <2>3
<1>4. UNCHANGED todo => \A q \in Procs : InRound(q)' => InRound(q)
  BY DEF InRound
<1> QED
  BY <1>2, <1>3, <1>4
  DEF LockStep, RLock, RLockWaits, RUnlock, LockAnnounce, LockEnter

LEMMA BeginsOne ==
  ASSUME NEW p \in Procs, NEW s, Begins(p, s), LockInv
  PROVE  \A q \in Procs : q # p => (InRound(q)' <=> InRound(q))
  BY DEF Begins, InRound, LockInv, LockTypeOK

(* A round of a goroutine that syncs takes the flag, the others leave it.  *)
LEMMA RoundTakesFlag ==
  ASSUME LockInv, Stays, FlagIsHeld, NEW p \in Procs, Round(p), loop' = loop
  PROVE  FlagIsHeld' /\ syncing' \in Syncs \cup {NoProc}
<1>1. PICK s \in Plans[p] : Begins(p, s)
  BY DEF Round
<1>2. \A q \in Procs : q # p => (InRound(q)' <=> InRound(q))
  BY <1>1, BeginsOne
<1>3. Syncs \subseteq Procs /\ NoProc \notin Syncs
  BY LifecycleAssumption, LockAssumption
<1>4. \A q \in Procs : Running(q)' <=> Running(q)
  BY DEF Running
<1>5. CASE p \in Syncs
  BY <1>2, <1>3, <1>4, <1>5 DEF Round, MayRun, FlagIsHeld
<1>6. CASE p \notin Syncs
  BY <1>2, <1>3, <1>4, <1>6 DEF Round, FlagIsHeld, Stays
<1> QED  BY <1>5, <1>6

LEMMA FlagStep ==
  ASSUME LockInv, Stays, FlagIsHeld, [LifecycleNext]_allVars
  PROVE  Stays' /\ FlagIsHeld'
<1>1. /\ Tasks \subseteq Procs /\ Detached \subseteq Procs /\ Handlers \subseteq Procs
      /\ Syncs \subseteq Procs /\ Main \in Procs
      /\ \A q \in Syncs : q \notin Handlers /\ q # Main
      /\ NoProc \notin Procs
  BY LifecycleAssumption, LockAssumption
<1>2. ASSUME NEW p \in Procs, Steps(p) PROVE Stays' /\ FlagIsHeld'
  <2>1. \A q \in Procs : InRound(q)' => InRound(q)
    BY <1>2, StepsStartNothing DEF Steps
  <2> QED
    BY <1>1, <1>2, <2>1 DEF Steps, lifeVars, Stays, FlagIsHeld, Running
<1>3. ASSUME NEW t \in Tasks, Tick(t) PROVE Stays' /\ FlagIsHeld'
  BY <1>1, <1>3, RoundTakesFlag DEF Tick, Stays
<1>4. ASSUME NEW t \in Tasks, Done(t) PROVE Stays' /\ FlagIsHeld'
  <2>1. PICK s \in Shutdown[t] : Begins(t, s)
    BY <1>4 DEF Done
  <2>2. \A q \in Procs : q # t => (InRound(q)' <=> InRound(q))
    BY <1>1, <2>1, BeginsOne
  <2>3. Stays'
    BY <1>4 DEF Done, Stays
  <2>4. ~ Running(t)' /\ \A q \in Procs : q # t => (Running(q)' <=> Running(q))
    BY <1>4 DEF Done, Running, Stays
  <2> QED
    BY <1>1, <1>4, <2>2, <2>3, <2>4 DEF Done, FlagIsHeld
<1>5. ASSUME NEW t \in Tasks, TaskReturns(t) PROVE Stays' /\ FlagIsHeld'
  <2>1. Stays' /\ \A q \in Procs : Running(q)' => Running(q)
    BY <1>5 DEF TaskReturns, Stays, Running
  <2> QED
    BY <1>1, <1>5, <2>1 DEF TaskReturns, lockVars, FlagIsHeld, InRound
<1>6. ASSUME NEW p \in Syncs, SyncReturns(p) PROVE Stays' /\ FlagIsHeld'
  BY <1>1, <1>6 DEF SyncReturns, lockVars, Stays, FlagIsHeld, InRound, Running
<1>7. ASSUME NEW p \in Procs, p \notin Syncs, NEW s, Begins(p, s), loop' = loop, syncing' = syncing
      PROVE  FlagIsHeld'
  <2>1. \A q \in Procs : q # p => (InRound(q)' <=> InRound(q))
    BY <1>7, BeginsOne
  <2> QED
    BY <1>1, <1>7, <2>1 DEF FlagIsHeld, Running
<1>8. ASSUME NEW h \in Handlers, Request(h) PROVE Stays' /\ FlagIsHeld'
  BY <1>1, <1>7, <1>8 DEF Request, lifeVars, Stays
<1>9. ASSUME NEW p \in Detached, Spawn(p) PROVE Stays' /\ FlagIsHeld'
  BY <1>1, <1>9, RoundTakesFlag DEF Spawn, Stays
<1>10. ASSUME WaitEnds PROVE Stays' /\ FlagIsHeld'
  BY <1>1, <1>7, <1>10 DEF WaitEnds, Stays, Stages
<1>11. ASSUME Signal \/ Timeout \/ ServerStops \/ Exit PROVE Stays' /\ FlagIsHeld'
  BY <1>11
  DEF Signal, Timeout, ServerStops, Exit, lockVars, Stays, Stages, FlagIsHeld, InRound, Running
<1>12. ASSUME UNCHANGED allVars PROVE Stays' /\ FlagIsHeld'
  BY <1>12 DEF allVars, lockVars, lifeVars, Stays, FlagIsHeld, InRound, Running
<1> QED
  BY <1>2, <1>3, <1>4, <1>5, <1>6, <1>8, <1>9, <1>10, <1>11, <1>12
  DEF LifecycleNext, MainSteps

(* The types of the locks' and of main's state, and that whoever is in a   *)
(* run of syncSessions holds the flag that keeps others from running it,   *)
(* the ticker's task and the goroutines of GET /sync alike, until the task *)
(* takes its shutdown (task_session_sync.go:424, main.go:145-291).         *)
THEOREM SyncHoldsFlag ==
  ASSUME PlansOrdered, ShutdownOrdered
  PROVE  LifecycleSpec => []LifecycleTypeOK
<1> DEFINE Inv == LockInv /\ Stays /\ FlagIsHeld
<1>1. LifecycleInit => Inv
  <2>1. Syncs \subseteq Procs
    BY LifecycleAssumption
  <2> QED
    BY <2>1, InvInit DEF LifecycleInit, LockInit, Stays, Stages, FlagIsHeld, InRound
<1>2. Inv /\ [LifecycleNext]_allVars => Inv'
  BY AgentKeepsLockInv, FlagStep
<1>3. Inv => LifecycleTypeOK
  BY DEF LockInv, Stays, FlagIsHeld, LifecycleTypeOK
<1> HIDE DEF Inv
<1> QED  BY <1>1, <1>2, <1>3, PTL DEF LifecycleSpec

-----------------------------------------------------------------------------
(* The plans of the agent.  A part of a plan is sound above a rank when it *)
(* is ordered by itself and takes no lock of a lower rank: such parts can  *)
(* follow one another, and be enclosed by a lock of a lower rank.          *)
Sound(r) == {s \in Seq(Op) : PlanOrdered(s) /\ \A i \in 1 .. Len(s) : Rank[s[i].lock] >= r}

LEMMA SoundAbove ==
  ASSUME NEW r \in Nat, NEW q \in Nat, q <= r, NEW s \in Sound(r)
  PROVE  s \in Sound(q)
<1>1. \A i \in 1 .. Len(s) : s[i] \in Op
  BY DEF Sound
<1>2. \A i \in 1 .. Len(s) : Rank[s[i].lock] \in Nat
  BY <1>1, LockAssumption DEF Op
<1> QED
  BY <1>2 DEF Sound

LEMMA SoundEmpty ==
  ASSUME NEW r \in Nat
  PROVE  <<>> \in Sound(r)
  BY HeldAtEmpty DEF Sound, PlanOrdered

(* The locks held in a plan that is put together of two.                   *)
LEMMA HeldAtFirst ==
  ASSUME NEW a \in Seq(Op), NEW b \in Seq(Op), HeldAt(b, 1) = {}, NEW k \in 1 .. (Len(a) + 1)
  PROVE  HeldAt(a \o b, k) = HeldAt(a, k)
<1> DEFINE s == a \o b
<1>1. /\ Len(a) \in Nat /\ Len(b) \in Nat /\ Len(s) = Len(a) + Len(b)
      /\ \A i \in 1 .. Len(a) : s[i] = a[i]
      /\ \A i \in 1 .. Len(b) : s[Len(a) + i] = b[i]
  OBVIOUS
<1> HIDE DEF s
<1>2. ASSUME NEW l \in HeldAt(s, k) PROVE l \in HeldAt(a, k)
  <2>1. l \in Locks
    BY <1>2 DEF HeldAt
  <2>2. PICK i \in k .. Len(s) : /\ s[i] = [kind |-> "release", lock |-> l]
                                 /\ \A j \in k .. (i - 1) : s[j].lock # l
    BY <1>2 DEF HeldAt
  <2>3. CASE i <= Len(a)
    <3>1. i \in k .. Len(a) /\ a[i] = [kind |-> "release", lock |-> l]
      BY <1>1, <2>2, <2>3
    <3>2. \A j \in k .. (i - 1) : a[j].lock # l
      BY <1>1, <2>2, <2>3
    <3> QED
      BY <2>1, <3>1, <3>2 DEF HeldAt
  <2>4. CASE i > Len(a)
    <3> DEFINE n == i - Len(a)
    <3>1. n \in 1 .. Len(b) /\ b[n] = [kind |-> "release", lock |-> l]
      <4>1. n \in 1 .. Len(b) /\ Len(a) + n = i
        BY <1>1, <2>2, <2>4
      <4> QED
        BY <1>1, <2>2, <4>1
    <3>2. ASSUME NEW j \in 1 .. (n - 1) PROVE b[j].lock # l
      <4>1. j \in 1 .. Len(b) /\ Len(a) + j \in k .. (i - 1)
        BY <1>1, <2>2, <2>4
      <4> QED
        BY <1>1, <2>2, <4>1
    <3> HIDE DEF n
    <3>3. l \in HeldAt(b, 1)
      BY <2>1, <3>1, <3>2 DEF HeldAt
    <3> QED
      BY <3>3
  <2> QED
    BY <1>1, <2>2, <2>3, <2>4
<1>3. ASSUME NEW l \in HeldAt(a, k) PROVE l \in HeldAt(s, k)
  <2>1. l \in Locks
    BY <1>3 DEF HeldAt
  <2>2. PICK i \in k .. Len(a) : /\ a[i] = [kind |-> "release", lock |-> l]
                                 /\ \A j \in k .. (i - 1) : a[j].lock # l
    BY <1>3 DEF HeldAt
  <2>3. i \in k .. Len(s) /\ s[i] = [kind |-> "release", lock |-> l]
    BY <1>1, <2>2
  <2>4. ASSUME NEW j \in k .. (i - 1) PROVE s[j].lock # l
    <3>1. j \in 1 .. Len(a)
      BY <1>1, <2>2
    <3> QED
      BY <1>1, <2>2, <3>1
  <2> QED
    BY <2>1, <2>3, <2>4 DEF HeldAt
<1> QED
  BY <1>2, <1>3 DEF s

LEMMA HeldAtSecond ==
  ASSUME NEW a \in Seq(Op), NEW b \in Seq(Op), NEW k \in Nat, k >= 1
  PROVE  HeldAt(a \o b, Len(a) + k) = HeldAt(b, k)
<1> DEFINE s == a \o b
           n == Len(a)
<1>1. /\ n \in Nat /\ Len(b) \in Nat /\ Len(s) = n + Len(b)
      /\ \A i \in 1 .. Len(b) : s[n + i] = b[i]
  OBVIOUS
<1> HIDE DEF s, n
<1>2. ASSUME NEW l \in HeldAt(s, n + k) PROVE l \in HeldAt(b, k)
  <2>1. l \in Locks
    BY <1>2 DEF HeldAt
  <2>2. PICK i \in (n + k) .. Len(s) : /\ s[i] = [kind |-> "release", lock |-> l]
                                       /\ \A j \in (n + k) .. (i - 1) : s[j].lock # l
    BY <1>2 DEF HeldAt
  <2> DEFINE m == i - n
  <2>3. m \in k .. Len(b) /\ n + m = i /\ m \in 1 .. Len(b)
    BY <1>1, <2>2
  <2>4. b[m] = [kind |-> "release", lock |-> l]
    BY <1>1, <2>2, <2>3
  <2>5. ASSUME NEW j \in k .. (m - 1) PROVE b[j].lock # l
    <3>1. n + j \in (n + k) .. (i - 1) /\ j \in 1 .. Len(b)
      BY <1>1, <2>2, <2>3
    <3> QED
      BY <1>1, <2>2, <3>1
  <2> HIDE DEF m
  <2> QED
    BY <2>1, <2>3, <2>4, <2>5 DEF HeldAt
<1>3. ASSUME NEW l \in HeldAt(b, k) PROVE l \in HeldAt(s, n + k)
  <2>1. l \in Locks
    BY <1>3 DEF HeldAt
  <2>2. PICK m \in k .. Len(b) : /\ b[m] = [kind |-> "release", lock |-> l]
                                 /\ \A j \in k .. (m - 1) : b[j].lock # l
    BY <1>3 DEF HeldAt
  <2> DEFINE i == n + m
  <2>3. i \in (n + k) .. Len(s) /\ s[i] = [kind |-> "release", lock |-> l]
    BY <1>1, <2>2
  <2>4. ASSUME NEW j \in (n + k) .. (i - 1) PROVE s[j].lock # l
    <3>1. m \in k .. Len(b)
      BY <2>2
    <3>2. j - n \in k .. (m - 1) /\ j - n \in 1 .. Len(b) /\ n + (j - n) = j
      BY <1>1, <3>1
    <3> QED
      BY <1>1, <2>2, <3>2
  <2> HIDE DEF i
  <2> QED
    BY <2>1, <2>3, <2>4 DEF HeldAt
<1> QED
  BY <1>2, <1>3 DEF s, n

LEMMA SoundConcat ==
  ASSUME NEW r \in Nat, NEW a \in Sound(r), NEW b \in Sound(r)
  PROVE  a \o b \in Sound(r)
<1> DEFINE s == a \o b
           n == Len(a)
<1>1. a \in Seq(Op) /\ b \in Seq(Op) /\ s \in Seq(Op)
  BY DEF Sound
<1>2. /\ n \in Nat /\ Len(b) \in Nat /\ Len(s) = n + Len(b)
      /\ \A i \in 1 .. n : s[i] = a[i]
      /\ \A i \in 1 .. Len(b) : s[n + i] = b[i]
  BY <1>1
<1>3. \A k \in 1 .. (n + 1) : HeldAt(s, k) = HeldAt(a, k)
  BY <1>1, HeldAtFirst DEF Sound, PlanOrdered
<1>4. \A k \in Nat : k >= 1 => HeldAt(s, n + k) = HeldAt(b, k)
  BY <1>1, HeldAtSecond
<1>5. Ordered(a) /\ Ordered(b) /\ HeldAt(a, 1) = {}
  BY DEF Sound, PlanOrdered
<1>6. /\ \A i \in 1 .. n : Rank[a[i].lock] >= r
      /\ \A i \in 1 .. Len(b) : Rank[b[i].lock] >= r
  BY DEF Sound
<1> HIDE DEF s, n
<1>7. \A i \in 1 .. Len(s) : i \in 1 .. n \/ (i - n \in 1 .. Len(b) /\ n + (i - n) = i)
  BY <1>2
<1>8. ASSUME NEW k \in 1 .. Len(s)
      PROVE  IF Takes(s[k])
               THEN /\ s[k].lock \in HeldAt(s, k + 1)
                    /\ \A l \in HeldAt(s, k) : Rank[l] < Rank[s[k].lock]
               ELSE s[k].lock \notin HeldAt(s, k + 1)
  <2>1. CASE k \in 1 .. n
    <3>1. s[k] = a[k] /\ HeldAt(s, k) = HeldAt(a, k) /\ HeldAt(s, k + 1) = HeldAt(a, k + 1)
      BY <1>2, <1>3, <2>1
    <3> QED
      BY <1>5, <2>1, <3>1 DEF Ordered, n
  <2>2. CASE k - n \in 1 .. Len(b) /\ n + (k - n) = k
    <3> DEFINE m == k - n
    <3>1. m \in 1 .. Len(b) /\ n + m = k /\ n + (m + 1) = k + 1 /\ m \in Nat /\ m + 1 \in Nat
      BY <1>2, <2>2
    <3> HIDE DEF m
    <3>2. s[n + m] = b[m]
      BY <1>2, <3>1
    <3>3. HeldAt(s, n + m) = HeldAt(b, m) /\ HeldAt(s, n + (m + 1)) = HeldAt(b, m + 1)
      BY <1>4, <3>1
    <3>4. s[k] = b[m] /\ HeldAt(s, k) = HeldAt(b, m) /\ HeldAt(s, k + 1) = HeldAt(b, m + 1)
      BY <3>1, <3>2, <3>3
    <3> QED
      BY <1>5, <3>1, <3>4 DEF Ordered
  <2> QED
    BY <1>7, <2>1, <2>2
<1>9. Ordered(s)
  BY <1>8 DEF Ordered
<1>10. HeldAt(s, 1) = {}
  BY <1>2, <1>3, <1>5
<1>11. ASSUME NEW i \in 1 .. Len(s) PROVE Rank[s[i].lock] >= r
  <2>1. CASE i \in 1 .. n
    <3>1. s[i] = a[i]
      BY <1>2, <2>1
    <3>2. Rank[a[i].lock] >= r
      BY <1>6, <2>1
    <3> QED
      BY <3>1, <3>2
  <2>2. CASE i - n \in 1 .. Len(b) /\ n + (i - n) = i
    <3> DEFINE m == i - n
    <3>1. m \in 1 .. Len(b) /\ n + m = i
      BY <2>2
    <3> HIDE DEF m
    <3>2. s[i] = b[m]
      BY <1>2, <3>1
    <3>3. Rank[b[m].lock] >= r
      BY <1>6, <3>1
    <3> QED
      BY <3>2, <3>3
  <2> QED
    BY <1>7, <2>1, <2>2
<1> QED
  BY <1>1, <1>9, <1>10, <1>11 DEF Sound, PlanOrdered, s

(* A lock that is held over a plan which takes higher ones only.           *)
Around(kind, l, inside) ==
  <<[kind |-> kind, lock |-> l]>> \o inside \o <<[kind |-> "release", lock |-> l]>>

LEMMA SoundHold ==
  ASSUME NEW l \in Locks, NEW kind \in {"read", "write"}, NEW r \in Nat, r <= Rank[l],
         NEW x \in Sound(Rank[l] + 1)
  PROVE  Around(kind, l, x) \in Sound(r)
<1> DEFINE s == Around(kind, l, x)
           n == Len(x)
           take == [kind |-> kind, lock |-> l]
           free == [kind |-> "release", lock |-> l]
<1>1. x \in Seq(Op) /\ take \in Op /\ free \in Op /\ Rank[l] \in Nat
  BY LockAssumption DEF Sound, Op
<1> HIDE DEF take, free
<1>2. s = <<take>> \o x \o <<free>>
  BY DEF Around, take, free
<1> HIDE DEF s
<1>3. /\ n \in Nat /\ s \in Seq(Op) /\ Len(s) = n + 2
      /\ s[1] = take /\ s[n + 2] = free
      /\ \A i \in 1 .. n : s[i + 1] = x[i]
  BY <1>1, <1>2
<1>4. /\ Ordered(x) /\ HeldAt(x, 1) = {}
      /\ \A i \in 1 .. n : x[i] \in Op /\ Rank[x[i].lock] >= Rank[l] + 1
  BY DEF Sound, PlanOrdered
<1> HIDE DEF n
<1>5. \A i \in 1 .. n : x[i].lock # l /\ x[i].lock \in Locks /\ Rank[x[i].lock] \in Nat
  BY <1>1, <1>4, LockAssumption DEF Op
<1>6. \A i \in 2 .. (n + 1) : s[i] = x[i - 1] /\ i - 1 \in 1 .. n
  <2>1. ASSUME NEW i \in 2 .. (n + 1) PROVE s[i] = x[i - 1] /\ i - 1 \in 1 .. n
    <3>1. i - 1 \in 1 .. n /\ (i - 1) + 1 = i
      BY <1>3
    <3> QED
      BY <1>3, <3>1
  <2> QED
    BY <2>1
<1>7. ~ Takes(free) /\ Takes(take) /\ take.lock = l /\ free.lock = l
  BY DEF Takes, take, free
<1>8. HeldAt(s, n + 3) = {}
  BY <1>3 DEF HeldAt
<1>9. HeldAt(s, n + 2) = {l}
  <2>1. (n + 2) + 1 = n + 3 /\ n + 2 \in 1 .. Len(s)
    BY <1>3
  <2>2. HeldAt(s, n + 2) = HeldAt(s, n + 3) \cup {s[n + 2].lock}
    BY <1>3, <1>7, <2>1, HeldAtStep
  <2> QED
    BY <1>3, <1>7, <1>8, <2>2
<1>10. ASSUME NEW k \in 1 .. (n + 1)
       PROVE  HeldAt(s, k + 1) = HeldAt(x, k) \cup {l}
  <2>1. ASSUME NEW m \in HeldAt(s, k + 1), m # l PROVE m \in HeldAt(x, k)
    <3>1. m \in Locks
      BY <2>1 DEF HeldAt
    <3>2. PICK i \in (k + 1) .. Len(s) : /\ s[i] = [kind |-> "release", lock |-> m]
                                         /\ \A j \in (k + 1) .. (i - 1) : s[j].lock # m
      BY <2>1 DEF HeldAt
    <3>3. i # n + 2
      BY <1>3, <1>7, <2>1, <3>2
    <3>4. i \in 2 .. (n + 1) /\ i - 1 \in k .. n
      BY <1>3, <3>2, <3>3
    <3>5. x[i - 1] = [kind |-> "release", lock |-> m]
      BY <1>6, <3>2, <3>4
    <3>6. ASSUME NEW j \in k .. ((i - 1) - 1) PROVE x[j].lock # m
      <4>1. j \in 1 .. n /\ j + 1 \in (k + 1) .. (i - 1)
        BY <1>3, <3>2, <3>4
      <4> QED
        BY <1>3, <3>2, <4>1
    <3> QED
      BY <3>1, <3>4, <3>5, <3>6 DEF HeldAt, n
  <2>2. ASSUME NEW m \in HeldAt(x, k) PROVE m \in HeldAt(s, k + 1)
    <3>1. m \in Locks
      BY <2>2 DEF HeldAt
    <3>2. PICK i \in k .. n : /\ x[i] = [kind |-> "release", lock |-> m]
                              /\ \A j \in k .. (i - 1) : x[j].lock # m
      BY <2>2 DEF HeldAt, n
    <3>3. i + 1 \in (k + 1) .. Len(s) /\ i \in 1 .. n
      BY <1>3, <3>2
    <3>4. s[i + 1] = [kind |-> "release", lock |-> m]
      BY <1>3, <3>2, <3>3
    <3>5. ASSUME NEW j \in (k + 1) .. ((i + 1) - 1) PROVE s[j].lock # m
      <4>1. j \in 2 .. (n + 1) /\ j - 1 \in k .. (i - 1)
        BY <1>3, <3>2, <3>3
      <4> QED
        BY <1>6, <3>2, <4>1
    <3> QED
      BY <3>1, <3>3, <3>4, <3>5 DEF HeldAt
  <2>3. l \in HeldAt(s, k + 1)
    <3>1. n + 2 \in (k + 1) .. Len(s)
      BY <1>3
    <3>2. \A j \in (k + 1) .. ((n + 2) - 1) : j \in 2 .. (n + 1)
      BY <1>3
    <3>3. \A j \in (k + 1) .. ((n + 2) - 1) : s[j].lock # l
      BY <1>5, <1>6, <3>2
    <3> QED
      BY <1>3, <3>1, <3>3 DEF HeldAt, free
  <2> QED
    BY <2>1, <2>2, <2>3
<1>11. HeldAt(s, 2) = {l}
  <2>1. 1 \in 1 .. (n + 1) /\ 1 + 1 = 2
    BY <1>3
  <2>2. HeldAt(s, 1 + 1) = HeldAt(x, 1) \cup {l}
    BY <1>10, <2>1
  <2> QED
    BY <1>4, <2>1, <2>2
<1>12. HeldAt(s, 1) = {}
  <2>1. 1 \in 1 .. Len(s) /\ 1 + 1 = 2
    BY <1>3
  <2>2. HeldAt(s, 1) = HeldAt(s, 1 + 1) \ {s[1].lock}
    BY <1>3, <1>7, <2>1, HeldAtStep
  <2> QED
    BY <1>3, <1>7, <1>11, <2>1, <2>2
<1>13. ASSUME NEW k \in 1 .. Len(s)
       PROVE  IF Takes(s[k])
                THEN /\ s[k].lock \in HeldAt(s, k + 1)
                     /\ \A m \in HeldAt(s, k) : Rank[m] < Rank[s[k].lock]
                ELSE s[k].lock \notin HeldAt(s, k + 1)
  <2>1. CASE k = 1
    BY <1>3, <1>7, <1>11, <1>12, <2>1
  <2>2. CASE k = n + 2
    <3>1. k + 1 = n + 3 /\ s[k] = free
      BY <1>3, <2>2
    <3> QED
      BY <1>7, <1>8, <3>1
  <2>3. CASE k \in 2 .. (n + 1)
    <3> DEFINE i == k - 1
    <3>1. i \in 1 .. n /\ i \in 1 .. (n + 1) /\ i + 1 \in 1 .. (n + 1) /\ i + 1 = k
      BY <1>3, <2>3
    <3>2. s[k] = x[i]
      BY <1>6, <2>3
    <3> HIDE DEF i
    <3>3. HeldAt(s, i + 1) = HeldAt(x, i) \cup {l}
      BY <1>10, <3>1
    <3>4. HeldAt(s, (i + 1) + 1) = HeldAt(x, i + 1) \cup {l}
      BY <1>10, <3>1
    <3>5. HeldAt(s, k) = HeldAt(x, i) \cup {l} /\ HeldAt(s, k + 1) = HeldAt(x, i + 1) \cup {l}
      BY <3>1, <3>3, <3>4
    <3>6. Rank[l] < Rank[x[i].lock] /\ x[i].lock # l
      BY <1>1, <1>4, <1>5, <3>1
    <3>7. IF Takes(x[i])
            THEN /\ x[i].lock \in HeldAt(x, i + 1)
                 /\ \A m \in HeldAt(x, i) : Rank[m] < Rank[x[i].lock]
            ELSE x[i].lock \notin HeldAt(x, i + 1)
      BY <1>4, <3>1 DEF Ordered, n
    <3> QED
      BY <3>2, <3>5, <3>6, <3>7
  <2> QED
    BY <1>3, <2>1, <2>2, <2>3
<1>14. Ordered(s)
  BY <1>13 DEF Ordered
<1>15. ASSUME NEW i \in 1 .. Len(s) PROVE Rank[s[i].lock] >= r
  <2>1. i = 1 \/ i = n + 2 \/ i \in 2 .. (n + 1)
    BY <1>3
  <2>2. i \in 2 .. (n + 1) => Rank[s[i].lock] >= Rank[l] + 1 /\ Rank[s[i].lock] \in Nat
    BY <1>4, <1>5, <1>6
  <2> QED
    BY <1>1, <1>3, <1>7, <2>1, <2>2
<1> QED
  BY <1>3, <1>12, <1>14, <1>15 DEF Sound, PlanOrdered, s

-----------------------------------------------------------------------------
(* Alternatives and repetitions.                                           *)
LEMMA SoundThen ==
  ASSUME NEW r \in Nat, NEW first \in SUBSET Sound(r), NEW second \in SUBSET Sound(r)
  PROVE  Then(first, second) \in SUBSET Sound(r)
<1>1. ASSUME NEW s \in Then(first, second) PROVE s \in Sound(r)
  <2>1. PICK a \in first, b \in second : s = a \o b
    BY DEF Then
  <2>2. a \in Sound(r) /\ b \in Sound(r)
    OBVIOUS
  <2>3. a \o b \in Sound(r)
    BY <2>2, SoundConcat
  <2> QED
    BY <2>1, <2>3
<1> QED
  BY <1>1

Times(ps) == CHOOSE g : g = [n \in 0 .. Count |-> IF n = 0 THEN {<<>>} ELSE Then(g[n - 1], ps)]

LEMMA SoundRepeated ==
  ASSUME NEW r \in Nat, NEW ps \in SUBSET Sound(r)
  PROVE  Repeated(ps) \in SUBSET Sound(r)
<1> DEFINE T == SUBSET Sound(r)
           step == [i \in 1 .. Count |-> [t \in T |-> Then(t, ps)]]
<1>1. Count \in Nat
  BY CountAssumption
<1>2. {<<>>} \in T
  BY SoundEmpty
<1>3. \A t \in T : Then(t, ps) \in T
  BY SoundThen
<1> HIDE DEF T
<1>4. step \in [1 .. Count -> [T -> T]]
  BY <1>3
<1>5. \A i \in 1 .. Count : \A t \in T : step[i][t] = Then(t, ps)
  OBVIOUS
<1> HIDE DEF step
<1>6. PICK g : Loops(g, Count, T, {<<>>}, step)
  BY <1>1, <1>2, <1>4, LoopExists
<1>7. ASSUME NEW n \in 0 .. Count
      PROVE  g[n] = IF n = 0 THEN {<<>>} ELSE Then(g[n - 1], ps)
  <2>1. CASE n = 0
    BY <1>6, <2>1 DEF Loops
  <2>2. CASE n # 0
    <3>1. n \in 1 .. Count /\ n - 1 \in 0 .. Count
      BY <1>1, <2>2
    <3>2. g[n - 1] \in T /\ g[n] = step[n][g[n - 1]]
      BY <1>6, <3>1 DEF Loops
    <3> QED
      BY <1>5, <2>2, <3>1, <3>2
  <2> QED
    BY <2>1, <2>2
<1>8. g = [n \in 0 .. Count |-> IF n = 0 THEN {<<>>} ELSE Then(g[n - 1], ps)]
  BY <1>6, <1>7 DEF Loops
<1> DEFINE times == Times(ps)
           S == {n \in 0 .. Count : times[n] \in T}
<1>9. times = [n \in 0 .. Count |-> IF n = 0 THEN {<<>>} ELSE Then(times[n - 1], ps)]
  BY <1>8 DEF Times
<1>10. Repeated(ps) = UNION {times[n] : n \in 0 .. Count}
  BY DEF Repeated, Times
<1> HIDE DEF times
<1>11. \A n \in 0 .. Count : times[n] = IF n = 0 THEN {<<>>} ELSE Then(times[n - 1], ps)
  BY <1>9
<1>12. 0 \in S
  BY <1>1, <1>2, <1>11
<1>13. ASSUME NEW n \in 1 .. Count, n - 1 \in S PROVE n \in S
  <2>1. n \in 0 .. Count /\ n # 0 /\ times[n - 1] \in T
    BY <1>1, <1>13
  <2>2. times[n] = Then(times[n - 1], ps)
    BY <1>11, <2>1
  <2> QED
    BY <1>3, <2>1, <2>2
<1> HIDE DEF S
<1>14. \A n \in 1 .. Count : n - 1 \in S => n \in S
  BY <1>13
<1>15. 0 .. Count \subseteq S
  BY <1>1, <1>12, <1>14, Climb
<1>16. \A n \in 0 .. Count : times[n] \in T
  BY <1>15 DEF S
<1> QED
  BY <1>10, <1>16 DEF T

-----------------------------------------------------------------------------
(* What is left of a plan when some locks are left out: places tells, for  *)
(* the first n operations, where in s those of f come from.                *)
From(f, s, locks, n, places) ==
  /\ places \in [1 .. Len(f) -> 1 .. n]
  /\ \A j, k \in 1 .. Len(f) : j < k => places[j] < places[k]
  /\ \A j \in 1 .. Len(f) : f[j] = s[places[j]] /\ f[j].lock \in locks
  /\ \A i \in 1 .. n : s[i].lock \in locks => \E j \in 1 .. Len(f) : places[j] = i

OnlyOf(s, locks) ==
  CHOOSE g : g = [n \in 0 .. Len(s) |->
                    IF n = 0 THEN <<>>
                    ELSE IF s[n].lock \in locks THEN Append(g[n - 1], s[n]) ELSE g[n - 1]]

LEMMA OnlyLoop ==
  ASSUME NEW s \in Seq(Op), NEW locks
  PROVE  /\ Only(s, locks) = OnlyOf(s, locks)[Len(s)]
         /\ \A n \in 0 .. Len(s) :
              OnlyOf(s, locks)[n] =
                IF n = 0 THEN <<>>
                ELSE IF s[n].lock \in locks THEN Append(OnlyOf(s, locks)[n - 1], s[n])
                     ELSE OnlyOf(s, locks)[n - 1]
<1> DEFINE N == Len(s)
           T == Seq(Op)
           Next(t, i) == IF s[i].lock \in locks THEN Append(t, s[i]) ELSE t
           step == [i \in 1 .. N |-> [t \in T |-> Next(t, i)]]
<1>1. N \in Nat /\ <<>> \in T /\ \A i \in 1 .. N : s[i] \in Op
  OBVIOUS
<1>2. \A i \in 1 .. N : \A t \in T : Next(t, i) \in T
  BY <1>1
<1> HIDE DEF N, T, Next
<1>3. step \in [1 .. N -> [T -> T]]
  BY <1>2
<1>4. \A i \in 1 .. N : \A t \in T : step[i][t] = Next(t, i)
  OBVIOUS
<1> HIDE DEF step
<1>5. PICK g : Loops(g, N, T, <<>>, step)
  BY <1>1, <1>3, LoopExists
<1>6. ASSUME NEW n \in 0 .. N
      PROVE  g[n] = IF n = 0 THEN <<>> ELSE Next(g[n - 1], n)
  <2>1. CASE n = 0
    BY <1>5, <2>1 DEF Loops
  <2>2. CASE n # 0
    <3>1. n \in 1 .. N /\ n - 1 \in 0 .. N
      BY <1>1, <2>2
    <3>2. g[n - 1] \in T /\ g[n] = step[n][g[n - 1]]
      BY <1>5, <3>1 DEF Loops
    <3> QED
      BY <1>4, <2>2, <3>1, <3>2
  <2> QED
    BY <2>1, <2>2
<1>7. g = [n \in 0 .. N |-> IF n = 0 THEN <<>> ELSE Next(g[n - 1], n)]
  BY <1>5, <1>6 DEF Loops
<1>8. OnlyOf(s, locks) =
        [n \in 0 .. N |-> IF n = 0 THEN <<>> ELSE Next(OnlyOf(s, locks)[n - 1], n)]
  BY <1>7 DEF OnlyOf, Next, N
<1>9. Only(s, locks) = OnlyOf(s, locks)[Len(s)]
  BY DEF Only, OnlyOf
<1> HIDE DEF OnlyOf
<1>10. ASSUME NEW n \in 0 .. N
       PROVE  OnlyOf(s, locks)[n] = IF n = 0 THEN <<>> ELSE Next(OnlyOf(s, locks)[n - 1], n)
  BY <1>8
<1> QED
  BY <1>9, <1>10 DEF N, Next

(* What is appended comes last, the rest is as before.                     *)
LEMMA Appended ==
  ASSUME NEW S, NEW a \in Seq(S), NEW x \in S
  PROVE  /\ Len(Append(a, x)) = Len(a) + 1
         /\ Append(a, x)[Len(a) + 1] = x
         /\ \A j \in 1 .. Len(a) : Append(a, x)[j] = a[j]
  OBVIOUS

LEMMA FromStep ==
  ASSUME NEW s \in Seq(Op), NEW locks, NEW n \in 1 .. Len(s), NEW f \in Seq(Op),
         NEW places, From(f, s, locks, n - 1, places)
  PROVE  /\ s[n].lock \in locks => \E q : From(Append(f, s[n]), s, locks, n, q)
         /\ s[n].lock \notin locks => From(f, s, locks, n, places)
<1> DEFINE m == Len(f)
<1>1. /\ n \in Nat /\ n >= 1 /\ m \in Nat /\ s[n] \in Op
      /\ \A i \in 1 .. n : i = n \/ i \in 1 .. (n - 1)
      /\ \A i \in 1 .. (n - 1) : i \in 1 .. n /\ i < n
  OBVIOUS
<1>2. /\ places \in [1 .. m -> 1 .. (n - 1)]
      /\ \A j, k \in 1 .. m : j < k => places[j] < places[k]
      /\ \A j \in 1 .. m : f[j] = s[places[j]] /\ f[j].lock \in locks
      /\ \A i \in 1 .. (n - 1) : s[i].lock \in locks => \E j \in 1 .. m : places[j] = i
  BY DEF From
<1>3. CASE s[n].lock \in locks
  <2> DEFINE g == Append(f, s[n])
             q == [j \in 1 .. (m + 1) |-> IF j = m + 1 THEN n ELSE places[j]]
  <2>1. Len(g) = m + 1 /\ g[m + 1] = s[n] /\ \A j \in 1 .. m : g[j] = f[j]
    BY <1>1, Appended
  <2>2. /\ \A j \in 1 .. (m + 1) : j = m + 1 \/ j \in 1 .. m
        /\ \A j \in 1 .. m : j \in 1 .. (m + 1) /\ j # m + 1
        /\ m + 1 \in 1 .. (m + 1)
    BY <1>1
  <2>3. q[m + 1] = n /\ \A j \in 1 .. m : q[j] = places[j] /\ q[j] \in 1 .. (n - 1)
    <3>1. q[m + 1] = n
      BY <2>2
    <3>2. ASSUME NEW j \in 1 .. m PROVE q[j] = places[j]
      BY <2>2
    <3>3. ASSUME NEW j \in 1 .. m PROVE places[j] \in 1 .. (n - 1)
      BY <1>2
    <3> QED
      BY <3>1, <3>2, <3>3
  <2>4. DOMAIN q = 1 .. (m + 1) /\ q = [j \in 1 .. (m + 1) |-> q[j]]
    OBVIOUS
  <2> HIDE DEF g, q, m
  <2>5. q \in [1 .. (m + 1) -> 1 .. n]
    <3>1. \A j \in 1 .. (m + 1) : q[j] \in 1 .. n
      BY <1>1, <2>2, <2>3
    <3> QED
      BY <2>4, <3>1
  <2>6. ASSUME NEW j \in 1 .. (m + 1), NEW k \in 1 .. (m + 1), j < k PROVE q[j] < q[k]
    <3>1. j \in 1 .. m
      BY <1>1, <2>6
    <3>2. CASE k = m + 1
      BY <1>1, <2>3, <3>1, <3>2
    <3>3. CASE k \in 1 .. m
      BY <1>2, <2>3, <2>6, <3>1, <3>3
    <3> QED
      BY <2>2, <3>2, <3>3
  <2>7. ASSUME NEW j \in 1 .. (m + 1) PROVE g[j] = s[q[j]] /\ g[j].lock \in locks
    BY <1>2, <1>3, <2>1, <2>2, <2>3
  <2>8. ASSUME NEW i \in 1 .. n, s[i].lock \in locks PROVE \E j \in 1 .. (m + 1) : q[j] = i
    <3>1. CASE i = n
      <4>1. m + 1 \in 1 .. (m + 1)
        BY <1>1
      <4> QED
        BY <2>3, <3>1, <4>1
    <3>2. CASE i \in 1 .. (n - 1)
      <4>1. PICK j \in 1 .. m : places[j] = i
        BY <1>2, <2>8, <3>2
      <4>2. j \in 1 .. (m + 1) /\ q[j] = i
        BY <1>1, <2>3, <4>1
      <4> QED
        BY <4>2
    <3> QED
      BY <1>1, <3>1, <3>2
  <2>9. From(g, s, locks, n, q)
    BY <2>1, <2>5, <2>6, <2>7, <2>8 DEF From
  <2> QED
    BY <1>3, <2>9 DEF g
<1>4. CASE s[n].lock \notin locks
  <2>1. places \in [1 .. m -> 1 .. n]
    BY <1>1, <1>2
  <2>2. \A i \in 1 .. n : s[i].lock \in locks => \E j \in 1 .. m : places[j] = i
    BY <1>1, <1>2, <1>4
  <2> QED
    BY <1>2, <1>4, <2>1, <2>2 DEF From
<1> QED
  BY <1>3, <1>4

LEMMA OnlyFrom ==
  ASSUME NEW s \in Seq(Op), NEW locks
  PROVE  /\ Only(s, locks) \in Seq(Op)
         /\ \E places : From(Only(s, locks), s, locks, Len(s), places)
<1> DEFINE N == Len(s)
           g == OnlyOf(s, locks)
           Good(n, f) == f \in Seq(Op) /\ \E places : From(f, s, locks, n, places)
           S == {n \in 0 .. N : Good(n, g[n])}
<1>1. N \in Nat
  OBVIOUS
<1>2. \A n \in 0 .. N :
        g[n] = IF n = 0 THEN <<>>
               ELSE IF s[n].lock \in locks THEN Append(g[n - 1], s[n]) ELSE g[n - 1]
  BY OnlyLoop
<1>3. Only(s, locks) = g[N]
  BY OnlyLoop
<1> HIDE DEF g
<1>4. Good(0, <<>>)
  <2> DEFINE q == [j \in 1 .. 0 |-> 0]
  <2>1. 1 .. 0 = {} /\ q \in [1 .. 0 -> 1 .. 0] /\ Len(<<>>) = 0 /\ <<>> \in Seq(Op)
    OBVIOUS
  <2> HIDE DEF q
  <2>2. From(<<>>, s, locks, 0, q)
    BY <2>1 DEF From
  <2> QED
    BY <2>1, <2>2
<1>5. 0 \in S
  <2>1. 0 \in 0 .. N
    BY <1>1
  <2>2. g[0] = <<>>
    BY <1>2, <2>1
  <2> HIDE DEF Good
  <2> QED
    BY <1>4, <2>1, <2>2
<1>6. ASSUME NEW n \in 1 .. N, n - 1 \in S PROVE n \in S
  <2>1. n \in 0 .. N /\ n # 0 /\ s[n] \in Op /\ Good(n - 1, g[n - 1])
    BY <1>1, <1>6
  <2>5. g[n - 1] \in Seq(Op)
    BY <2>1
  <2>2. PICK places : From(g[n - 1], s, locks, n - 1, places)
    BY <2>1
  <2>3. CASE s[n].lock \in locks
    <3>3. g[n] = Append(g[n - 1], s[n])
      BY <1>2, <2>1, <2>3
    <3>4. Append(g[n - 1], s[n]) \in Seq(Op)
      BY <2>1, <2>5
    <3>1. g[n] = Append(g[n - 1], s[n]) /\ g[n] \in Seq(Op)
      BY <3>3, <3>4
    <3>2. \E q : From(g[n], s, locks, n, q)
      BY <2>1, <2>2, <2>3, <3>1, FromStep
    <3> QED
      BY <2>1, <3>1, <3>2
  <2>4. CASE s[n].lock \notin locks
    <3>3. g[n] = g[n - 1]
      BY <1>2, <2>1, <2>4
    <3>1. g[n] = g[n - 1] /\ g[n] \in Seq(Op)
      BY <2>5, <3>3
    <3>2. From(g[n], s, locks, n, places)
      BY <2>1, <2>2, <2>4, <3>1, FromStep
    <3> QED
      BY <2>1, <3>1, <3>2
  <2> QED
    BY <2>3, <2>4
<1> HIDE DEF Good, S
<1>7. \A n \in 1 .. N : n - 1 \in S => n \in S
  BY <1>6
<1>8. 0 .. N \subseteq S
  BY <1>1, <1>5, <1>7, Climb
<1>9. Good(N, g[N])
  BY <1>1, <1>8 DEF S
<1> QED
  BY <1>3, <1>9 DEF Good

(* Of those locks the same are held at corresponding places.               *)
LEMMA HeldAtFrom ==
  ASSUME NEW s \in Seq(Op), NEW locks, NEW f \in Seq(Op), NEW places,
         From(f, s, locks, Len(s), places),
         NEW k \in Nat, k >= 1, NEW p \in Nat, p >= 1,
         \A j \in 1 .. Len(f) : j >= k <=> places[j] >= p
  PROVE  HeldAt(f, k) = HeldAt(s, p) \cap locks
<1> DEFINE m == Len(f)
           n == Len(s)
<1>1. /\ m \in Nat /\ n \in Nat
      /\ \A j \in 1 .. m : places[j] \in 1 .. n /\ f[j] = s[places[j]] /\ f[j].lock \in locks
      /\ \A j, i \in 1 .. m : j < i => places[j] < places[i]
      /\ \A i \in 1 .. n : s[i].lock \in locks => \E j \in 1 .. m : places[j] = i
  BY DEF From
<1>2. \A j \in 1 .. m : j >= k <=> places[j] >= p
  OBVIOUS
<1>3. ASSUME NEW l \in HeldAt(f, k) PROVE l \in HeldAt(s, p) /\ l \in locks
  <2>1. l \in Locks
    BY <1>3 DEF HeldAt
  <2>2. PICK i \in k .. m : /\ f[i] = [kind |-> "release", lock |-> l]
                            /\ \A j \in k .. (i - 1) : f[j].lock # l
    BY <1>3 DEF HeldAt
  <2> HIDE DEF m, n
  <2>3. i \in 1 .. m /\ i >= k
    BY <1>1, <2>2
  <2>4. /\ places[i] \in p .. n /\ s[places[i]] = [kind |-> "release", lock |-> l]
        /\ l \in locks
    BY <1>1, <1>2, <2>2, <2>3
  <2>5. ASSUME NEW j \in p .. (places[i] - 1), s[j].lock = l PROVE FALSE
    <3>1. j \in 1 .. n /\ j >= p /\ j < places[i]
      BY <1>1, <2>4
    <3>2. PICK h \in 1 .. m : places[h] = j
      BY <1>1, <2>4, <2>5, <3>1
    <3>3. h >= k
      BY <1>2, <3>1, <3>2
    <3>4. h < i
      BY <1>1, <2>3, <3>1, <3>2
    <3>5. h \in k .. (i - 1)
      BY <1>1, <2>3, <3>3, <3>4
    <3> QED
      BY <1>1, <2>2, <2>5, <3>2, <3>5
  <2> QED
    BY <2>1, <2>4, <2>5 DEF HeldAt, n
<1>4. ASSUME NEW l \in HeldAt(s, p), l \in locks PROVE l \in HeldAt(f, k)
  <2>1. l \in Locks
    BY <1>4 DEF HeldAt
  <2>2. PICK j \in p .. n : /\ s[j] = [kind |-> "release", lock |-> l]
                            /\ \A i \in p .. (j - 1) : s[i].lock # l
    BY <1>4 DEF HeldAt
  <2> HIDE DEF m, n
  <2>3. j \in 1 .. n /\ j >= p /\ s[j].lock = l
    BY <1>1, <2>2
  <2>4. PICK i \in 1 .. m : places[i] = j
    BY <1>1, <1>4, <2>3
  <2>5. i \in k .. m /\ f[i] = [kind |-> "release", lock |-> l]
    BY <1>1, <1>2, <2>2, <2>3, <2>4
  <2>6. ASSUME NEW h \in k .. (i - 1) PROVE f[h].lock # l
    <3>1. h \in 1 .. m /\ h >= k /\ h < i
      BY <1>1, <2>5
    <3>2. places[h] >= p /\ places[h] < j /\ places[h] \in 1 .. n
      BY <1>1, <1>2, <2>4, <3>1
    <3>3. places[h] \in p .. (j - 1)
      BY <1>1, <2>3, <3>2
    <3> QED
      BY <1>1, <2>2, <3>1, <3>3
  <2> QED
    BY <2>1, <2>5, <2>6 DEF HeldAt, m
<1> QED
  BY <1>3, <1>4

LEMMA SoundOnly ==
  ASSUME NEW r \in Nat, NEW s \in Sound(r), NEW locks
  PROVE  Only(s, locks) \in Sound(r)
<1> DEFINE f == Only(s, locks)
           m == Len(f)
           n == Len(s)
<1>1. s \in Seq(Op) /\ Ordered(s) /\ HeldAt(s, 1) = {} /\ \A i \in 1 .. n : Rank[s[i].lock] >= r
  BY DEF Sound, PlanOrdered
<1>2. f \in Seq(Op) /\ \E places : From(f, s, locks, n, places)
  BY <1>1, OnlyFrom
<1> HIDE DEF f
<1>3. PICK places : From(f, s, locks, n, places)
  BY <1>2
<1>9. m \in Nat /\ n \in Nat
  BY <1>1, <1>2
<1>10. /\ places \in [1 .. m -> 1 .. n]
       /\ \A j, i \in 1 .. m : j < i => places[j] < places[i]
       /\ \A j \in 1 .. m : f[j] = s[places[j]] /\ f[j].lock \in locks
  BY <1>3 DEF From
<1>4. /\ m \in Nat /\ n \in Nat
      /\ \A j \in 1 .. m : places[j] \in 1 .. n /\ f[j] = s[places[j]] /\ f[j].lock \in locks
      /\ \A j, i \in 1 .. m : j < i => places[j] < places[i]
  <2> HIDE DEF m, n
  <2> QED
    BY <1>9, <1>10
<1>5. HeldAt(f, 1) = {}
  <2>1. \A j \in 1 .. m : j >= 1 <=> places[j] >= 1
    BY <1>4
  <2>2. HeldAt(f, 1) = HeldAt(s, 1) \cap locks
    BY <1>1, <1>2, <1>3, <2>1, HeldAtFrom
  <2> QED
    BY <1>1, <2>2
<1>6. ASSUME NEW k \in 1 .. m
      PROVE  IF Takes(f[k])
               THEN /\ f[k].lock \in HeldAt(f, k + 1)
                    /\ \A l \in HeldAt(f, k) : Rank[l] < Rank[f[k].lock]
               ELSE f[k].lock \notin HeldAt(f, k + 1)
  <2> DEFINE p == places[k]
  <2> HIDE DEF m, n
  <2>1. k \in Nat /\ k >= 1 /\ p \in Nat /\ p >= 1 /\ p \in 1 .. n
    BY <1>4
  <2>2. \A j \in 1 .. m : j >= k <=> places[j] >= p
    BY <1>4
  <2>3. \A j \in 1 .. m : j >= k + 1 <=> places[j] >= p + 1
    BY <1>4
  <2> HIDE DEF p
  <2>4. HeldAt(f, k) = HeldAt(s, p) \cap locks
    BY <1>1, <1>2, <1>3, <2>1, <2>2, HeldAtFrom DEF m, n
  <2>5. k + 1 \in Nat /\ k + 1 >= 1 /\ p + 1 \in Nat /\ p + 1 >= 1
    BY <2>1
  <2>9. \A j \in 1 .. Len(f) : j >= k + 1 <=> places[j] >= p + 1
    BY <2>3 DEF m, p
  <2>6. HeldAt(f, k + 1) = HeldAt(s, p + 1) \cap locks
    <3>1. From(f, s, locks, Len(s), places)
      BY <1>3 DEF n
    <3> DEFINE k1 == k + 1
               p1 == p + 1
    <3>2. /\ k1 \in Nat /\ k1 >= 1 /\ p1 \in Nat /\ p1 >= 1
          /\ \A j \in 1 .. Len(f) : j >= k1 <=> places[j] >= p1
      BY <2>5, <2>9
    <3> HIDE DEF k1, p1
    <3>3. HeldAt(f, k1) = HeldAt(s, p1) \cap locks
      BY <1>1, <1>2, <3>1, <3>2, HeldAtFrom
    <3> QED
      BY <3>3 DEF k1, p1
  <2>7. IF Takes(s[p])
          THEN /\ s[p].lock \in HeldAt(s, p + 1)
               /\ \A l \in HeldAt(s, p) : Rank[l] < Rank[s[p].lock]
          ELSE s[p].lock \notin HeldAt(s, p + 1)
    BY <1>1, <2>1 DEF Ordered, n
  <2>8. f[k] = s[p] /\ f[k].lock \in locks
    BY <1>4 DEF p
  <2> QED
    BY <2>4, <2>6, <2>7, <2>8
<1>7. Ordered(f)
  BY <1>6 DEF Ordered
<1>8. \A j \in 1 .. m : Rank[f[j].lock] >= r
  BY <1>1, <1>4
<1> QED
  BY <1>2, <1>5, <1>7, <1>8 DEF Sound, PlanOrdered, f
-----------------------------------------------------------------------------
(* The plans of AgentPlans are sound, those of every path of every         *)
(* goroutine and for every number of sessions a round works on.            *)
AgentLocks == Locks = MCLocks /\ Rank = MCRank

LEMMA Ranks ==
  ASSUME AgentLocks
  PROVE  /\ {"session", "birdConf", "pool", "dial", "metric", "traffic", "rtt", "probe", "bird"}
              = Locks
         /\ Rank["session"] = 0 /\ Rank["birdConf"] = 1 /\ Rank["pool"] = 2
         /\ \A l \in {"dial", "metric", "traffic", "rtt", "probe", "bird"} : Rank[l] = 3
  BY DEF AgentLocks, MCLocks, MCRank

LEMMA HoldingIsAround ==
  ASSUME NEW l, NEW x \in Seq(Op)
  PROVE  /\ Holding(Read(l), x) = Around("read", l, x)
         /\ Holding(Write(l), x) = Around("write", l, x)
  BY DEF Holding, Read, Write, Around

LEMMA SoundHolding ==
  ASSUME NEW l \in Locks, NEW r \in Nat, r <= Rank[l], NEW x \in Sound(Rank[l] + 1)
  PROVE  Holding(Read(l), x) \in Sound(r) /\ Holding(Write(l), x) \in Sound(r)
<1>1. x \in Seq(Op)
  BY DEF Sound
<1>2. Around("read", l, x) \in Sound(r) /\ Around("write", l, x) \in Sound(r)
  BY SoundHold
<1> QED
  BY <1>1, <1>2, HoldingIsAround

LEMMA PairConcat ==
  ASSUME NEW S, NEW x \in S, NEW y \in S
  PROVE  <<x>> \o <<>> \o <<y>> = <<x, y>>
<1> DEFINE a == <<x>>
           b == <<y>>
           p == <<x, y>>
<1>1. /\ a \in Seq(S) /\ Len(a) = 1 /\ a[1] = x
      /\ b \in Seq(S) /\ Len(b) = 1 /\ b[1] = y
      /\ p \in Seq(S) /\ Len(p) = 2 /\ p[1] = x /\ p[2] = y
  OBVIOUS
<1> HIDE DEF a, b, p
<1>7. a \in Seq(S) /\ b \in Seq(S)
  BY <1>1
<1>2. a \o <<>> = a
  BY <1>1
<1>3. /\ a \o b \in Seq(S) /\ Len(a \o b) = Len(a) + Len(b)
      /\ \A i \in 1 .. Len(a) : (a \o b)[i] = a[i]
      /\ \A i \in 1 .. Len(b) : (a \o b)[Len(a) + i] = b[i]
  BY <1>7
<1>4. (a \o b)[1] = x /\ (a \o b)[1 + 1] = y /\ Len(a \o b) = 2
  BY <1>1, <1>3
<1>5. \A i \in 1 .. 2 : (a \o b)[i] = p[i]
  <2>1. \A i \in 1 .. 2 : i = 1 \/ i = 2
    OBVIOUS
  <2>2. 1 + 1 = 2
    OBVIOUS
  <2> QED
    BY <1>1, <1>4, <2>1, <2>2
<1>6. a \o b = p
  BY <1>1, <1>3, <1>4, <1>5
<1> QED
  BY <1>2, <1>6 DEF a, b, p

LEMMA SoundLock ==
  ASSUME NEW l \in Locks, NEW r \in Nat, r <= Rank[l]
  PROVE  Read(l) \in Sound(r) /\ Write(l) \in Sound(r)
<1>1. Rank[l] + 1 \in Nat
  BY LockAssumption
<1>2. Holding(Read(l), <<>>) \in Sound(r) /\ Holding(Write(l), <<>>) \in Sound(r)
  BY <1>1, SoundEmpty, SoundHolding
<1>3. \A x, y \in Op : <<x>> \o <<>> \o <<y>> = <<x, y>>
  BY PairConcat
<1>4. /\ [kind |-> "read", lock |-> l] \in Op /\ [kind |-> "write", lock |-> l] \in Op
      /\ [kind |-> "release", lock |-> l] \in Op
  BY DEF Op
<1>5. /\ Read(l)[1] = [kind |-> "read", lock |-> l]
      /\ Write(l)[1] = [kind |-> "write", lock |-> l]
      /\ Read(l)[2] = [kind |-> "release", lock |-> l]
      /\ Write(l)[2] = [kind |-> "release", lock |-> l]
  BY DEF Read, Write
<1>6. Holding(Read(l), <<>>) = Read(l) /\ Holding(Write(l), <<>>) = Write(l)
  BY <1>3, <1>4, <1>5, Zenon DEF Holding, Read, Write
<1> QED
  BY <1>2, <1>6

LEMMA SoundSetAbove ==
  ASSUME NEW r \in Nat, NEW q \in Nat, q <= r, NEW ps \in SUBSET Sound(r)
  PROVE  ps \in SUBSET Sound(q)
  BY SoundAbove

(* Any lock may be taken by one who holds none.                            *)
LEMMA SoundAlone ==
  ASSUME AgentLocks, NEW l \in MCLocks
  PROVE  Read(l) \in Sound(0) /\ Write(l) \in Sound(0)
<1>1. l \in Locks /\ 0 \in Nat /\ 0 <= Rank[l]
  BY Ranks, LockAssumption DEF AgentLocks
<1> QED
  BY <1>1, SoundLock

(* A conversation with BIRD, and what makes a connection for one.          *)
LEMMA SoundDials ==
  ASSUME AgentLocks
  PROVE  /\ {Read("bird")} \in SUBSET Sound(3) /\ {<<>>} \in SUBSET Sound(3)
         /\ Creates \in SUBSET Sound(3) /\ CreateFails \in SUBSET Sound(3)
         /\ Configure \in SUBSET Sound(3)
<1>1. /\ "dial" \in Locks /\ "bird" \in Locks /\ Rank["dial"] = 3 /\ Rank["bird"] = 3
      /\ 3 \in Nat /\ 3 <= 3
  BY Ranks
<1>2. Write("dial") \in Sound(3) /\ Read("bird") \in Sound(3) /\ <<>> \in Sound(3)
  BY <1>1, SoundLock, SoundEmpty
<1>3. DialFails \in Sound(3)
  BY <1>1, <1>2, SoundConcat DEF DialFails
<1>4. Dialled \in Sound(3)
  <2>1. Write("dial") \o Read("bird") \in Sound(3)
    BY <1>1, <1>2, SoundConcat
  <2> QED
    BY <1>1, <1>2, <2>1, SoundConcat DEF Dialled
<1>5. Restricted \in Sound(3) /\ Dialled \o Read("bird") \in Sound(3)
  BY <1>1, <1>2, <1>4, SoundConcat DEF Restricted
<1>6. Restricted \o Write("dial") \in Sound(3)
  BY <1>1, <1>2, <1>5, SoundConcat
<1>7. Repeated({DialFails}) \in SUBSET Sound(3)
  <2>1. {DialFails} \in SUBSET Sound(3)
    BY <1>3
  <2> QED
    BY <1>1, <2>1, SoundRepeated
<1>8. {Restricted} \in SUBSET Sound(3) /\ {DialFails, Restricted \o Write("dial")} \in SUBSET Sound(3)
  BY <1>3, <1>5, <1>6
<1>9. Creates \in SUBSET Sound(3) /\ CreateFails \in SUBSET Sound(3)
  BY <1>1, <1>7, <1>8, SoundThen DEF Creates, CreateFails
<1>10. Configure \in SUBSET Sound(3)
  BY <1>3, <1>4, <1>5 DEF Configure
<1> QED
  BY <1>2, <1>9, <1>10

LEMMA SoundBirdCommand ==
  ASSUME AgentLocks
  PROVE  BirdCommand \in SUBSET Sound(2)
<1>1. /\ "pool" \in Locks /\ Rank["pool"] = 2
      /\ 2 \in Nat /\ 3 \in Nat /\ 2 <= 3 /\ 2 <= 2 /\ 2 + 1 = 3
  BY Ranks
<1>2. /\ {Read("bird")} \in SUBSET Sound(2) /\ {<<>>} \in SUBSET Sound(2)
      /\ Creates \in SUBSET Sound(2) /\ CreateFails \in SUBSET Sound(2)
  BY <1>1, SoundDials, SoundSetAbove
<1>3. Write("pool") \in Sound(2) /\ Write("pool") \o Write("pool") \in Sound(2)
  <2>1. Write("pool") \in Sound(2)
    BY <1>1, SoundLock
  <2> QED
    BY <1>1, <2>1, SoundConcat
<1>4. ASSUME NEW c \in Creates \cup CreateFails PROVE Holding(Write("pool"), c) \in Sound(2)
  <2>1. c \in Sound(3)
    BY SoundDials
  <2> QED
    BY <1>1, <2>1, SoundHolding
<1>5. Lent \in SUBSET Sound(2) /\ Refused \in SUBSET Sound(2)
  BY <1>3, <1>4 DEF Lent, Refused
<1>6. {Write("pool")} \in SUBSET Sound(2) /\ {<<>>, Write("pool")} \in SUBSET Sound(2)
      /\ {<<>>, Read("bird")} \in SUBSET Sound(2)
  BY <1>2, <1>3
<1>7. Renewed \in SUBSET Sound(2)
  BY <1>1, <1>2, <1>6, SoundThen DEF Renewed
<1>8. Answered \in SUBSET Sound(2)
  <2>1. Then(Renewed, {<<>>, Read("bird")}) \in SUBSET Sound(2)
    BY <1>1, <1>6, <1>7, SoundThen
  <2> QED
    BY <1>2, <2>1 DEF Answered
<1>9. Used \in SUBSET Sound(2)
  <2>1. {<<>>} \cup Renewed \in SUBSET Sound(2)
    BY <1>2, <1>7
  <2>2. Then({<<>>} \cup Renewed, Answered) \in SUBSET Sound(2)
    BY <1>1, <1>8, <2>1, SoundThen
  <2> QED
    BY <1>2, <2>2 DEF Used
<1>10. Then(Used, {<<>>, Write("pool")}) \in SUBSET Sound(2)
  BY <1>1, <1>6, <1>9, SoundThen
<1>11. Then(Lent, Then(Used, {<<>>, Write("pool")})) \in SUBSET Sound(2)
  BY <1>1, <1>5, <1>10, SoundThen
<1> QED
  BY <1>5, <1>11 DEF BirdCommand

(* What is done under the file lock is sound above it.                     *)
LEMMA SoundFileCommands ==
  ASSUME AgentLocks
  PROVE  /\ WriteConfig \in SUBSET Sound(1) /\ ConfigureBird \in SUBSET Sound(1)
         /\ DeleteBird \in SUBSET Sound(1)
<1>1. /\ "birdConf" \in Locks /\ "probe" \in Locks /\ Rank["birdConf"] = 1 /\ Rank["probe"] = 3
      /\ 1 \in Nat /\ 2 \in Nat /\ 3 \in Nat /\ 1 <= 1 /\ 2 <= 3 /\ 1 + 1 = 2
  BY Ranks
<1>2. Flags \in SUBSET Sound(2)
  <2>1. Read("probe") \in Sound(2) /\ <<>> \in Sound(2)
    BY <1>1, SoundLock, SoundEmpty
  <2>2. Read("probe") \o Read("probe") \in Sound(2)
    BY <1>1, <2>1, SoundConcat
  <2>3. (Read("probe") \o Read("probe")) \o (Read("probe") \o Read("probe")) \in Sound(2)
    BY <1>1, <2>2, SoundConcat
  <2> QED
    BY <2>1, <2>2, <2>3 DEF Flags
<1>3. Configure \in SUBSET Sound(2)
  BY <1>1, SoundDials, SoundSetAbove
<1>4. Then(Flags, Configure) \in SUBSET Sound(2)
  BY <1>1, <1>2, <1>3, SoundThen
<1>5. ASSUME NEW x \in Sound(2) PROVE Holding(Write("birdConf"), x) \in Sound(1)
  BY <1>1, SoundHolding
<1>6. Write("birdConf") \in Sound(1)
  BY <1>1, SoundLock
<1>7. WriteConfig \in SUBSET Sound(1)
  BY <1>2, <1>5 DEF WriteConfig
<1>8. {Holding(Write("birdConf"), f) : f \in Then(Flags, Configure)} \in SUBSET Sound(1)
  BY <1>4, <1>5
<1>9. DeleteBird \in SUBSET Sound(1)
  BY <1>3, <1>5, <1>6 DEF DeleteBird
<1> QED
  BY <1>7, <1>8, <1>9 DEF ConfigureBird

LEMMA SoundSyncSessions ==
  ASSUME AgentLocks
  PROVE  SyncSessions \in SUBSET Sound(0)
<1>1. /\ "session" \in Locks /\ Rank["session"] = 0 /\ "session" \in MCLocks
      /\ 0 \in Nat /\ 1 \in Nat /\ 0 <= 1 /\ 0 <= 0 /\ 0 + 1 = 1
  BY Ranks DEF MCLocks
<1>2. Read("session") \in Sound(0) /\ Write("session") \in Sound(0) /\ <<>> \in Sound(0)
  BY <1>1, SoundAlone, SoundEmpty
<1>3. ConfigureBird \in SUBSET Sound(0) /\ DeleteBird \in SUBSET Sound(0)
  BY <1>1, SoundFileCommands, SoundSetAbove
<1>4. ProcessSession \in SUBSET Sound(0)
  <2>1. {Read("session")} \in SUBSET Sound(0)
        /\ {<<>>} \cup ConfigureBird \cup DeleteBird \in SUBSET Sound(0)
    BY <1>2, <1>3
  <2> QED
    BY <1>1, <2>1, SoundThen DEF ProcessSession
<1>5. DeleteGone \in SUBSET Sound(0)
  <2>1. Repeated(DeleteBird) \in SUBSET Sound(1)
    BY <1>1, SoundFileCommands, SoundRepeated
  <2>2. ASSUME NEW s \in DeleteGone PROVE s \in Sound(0)
    <3>1. PICK d \in Repeated(DeleteBird) : s = Holding(Read("session"), d)
      BY <2>2 DEF DeleteGone
    <3> QED
      BY <1>1, <2>1, <3>1, SoundHolding
  <2> QED
    BY <2>2
<1>6. Repeated(ProcessSession) \in SUBSET Sound(0)
  BY <1>1, <1>4, SoundRepeated
<1>7. Then(DeleteGone, {Write("session")}) \in SUBSET Sound(0)
  <2>1. {Write("session")} \in SUBSET Sound(0)
    BY <1>2
  <2> QED
    BY <1>1, <1>5, <2>1, SoundThen
<1>8. Then(Repeated(ProcessSession), Then(DeleteGone, {Write("session")})) \in SUBSET Sound(0)
  BY <1>1, <1>6, <1>7, SoundThen
<1>9. Then({Read("session")},
           Then(Repeated(ProcessSession), Then(DeleteGone, {Write("session")})))
        \in SUBSET Sound(0)
  <2>1. {Read("session")} \in SUBSET Sound(0)
    BY <1>2
  <2> QED
    BY <1>1, <1>8, <2>1, SoundThen
<1> QED
  BY <1>2, <1>9 DEF SyncSessions

LEMMA SoundUpdateFilterParams ==
  ASSUME AgentLocks
  PROVE  UpdateFilterParams \in SUBSET Sound(0)
<1>1. /\ {"session", "metric", "rtt"} \subseteq MCLocks
      /\ 0 \in Nat /\ 1 \in Nat /\ 3 \in Nat /\ 0 <= 1 /\ 0 <= 3
  BY DEF MCLocks
<1>2. Read("session") \in Sound(0) /\ Read("metric") \in Sound(0) /\ Read("rtt") \in Sound(0)
      /\ <<>> \in Sound(0)
  BY <1>1, SoundAlone, SoundEmpty
<1>3. WriteConfig \in SUBSET Sound(0)
  BY <1>1, SoundFileCommands, SoundSetAbove
<1>4. UpdateBirdConfig \in SUBSET Sound(0)
  <2>1. {<<>>, Read("metric")} \in SUBSET Sound(0)
    BY <1>2
  <2> QED
    BY <1>1, <1>3, <2>1, SoundThen DEF UpdateBirdConfig
<1>5. Repeated(UpdateBirdConfig) \in SUBSET Sound(0)
  BY <1>1, <1>4, SoundRepeated
<1>6. Configure \in SUBSET Sound(0)
  BY <1>1, SoundDials, SoundSetAbove
<1>7. Then(Repeated(UpdateBirdConfig), Configure) \in SUBSET Sound(0)
  BY <1>1, <1>5, <1>6, SoundThen
<1>8. {Read("session") \o Read("rtt")} \in SUBSET Sound(0)
  BY <1>1, <1>2, SoundConcat
<1>9. Then({Read("session") \o Read("rtt")}, Then(Repeated(UpdateBirdConfig), Configure))
        \in SUBSET Sound(0)
  BY <1>1, <1>7, <1>8, SoundThen
<1> QED
  BY <1>2, <1>9 DEF UpdateFilterParams

LEMMA SoundCollectMetrics ==
  ASSUME AgentLocks
  PROVE  /\ CollectMetrics \in SUBSET Sound(0)
         /\ Heartbeat \in SUBSET Sound(0) /\ LookingGlass \in SUBSET Sound(0)
<1>1. {"session", "metric", "rtt", "traffic"} \subseteq MCLocks /\ 0 \in Nat /\ 2 \in Nat /\ 0 <= 2
  BY DEF MCLocks
<1>2. /\ Read("session") \in Sound(0) /\ Read("traffic") \in Sound(0)
      /\ Read("rtt") \in Sound(0) /\ Write("metric") \in Sound(0)
  BY <1>1, SoundAlone
<1>3. BirdCommand \in SUBSET Sound(0)
  BY <1>1, SoundBirdCommand, SoundSetAbove
<1>4. {Read("traffic") \o Read("rtt")} \in SUBSET Sound(0)
  BY <1>1, <1>2, SoundConcat
<1>5. CollectSession \in SUBSET Sound(0)
  <2>1. Repeated(BirdCommand) \in SUBSET Sound(0)
    BY <1>1, <1>3, SoundRepeated
  <2> QED
    BY <1>1, <1>4, <2>1, SoundThen DEF CollectSession
<1>6. Repeated(CollectSession) \in SUBSET Sound(0)
  BY <1>1, <1>5, SoundRepeated
<1>7. {Write("metric") \o Read("session")} \in SUBSET Sound(0)
  BY <1>1, <1>2, SoundConcat
<1>8. Then(Repeated(CollectSession), {Write("metric") \o Read("session")}) \in SUBSET Sound(0)
  BY <1>1, <1>6, <1>7, SoundThen
<1>9. Then({Read("session")},
           Then(Repeated(CollectSession), {Write("metric") \o Read("session")}))
        \in SUBSET Sound(0)
  <2>1. {Read("session")} \in SUBSET Sound(0)
    BY <1>2
  <2> QED
    BY <1>1, <1>8, <2>1, SoundThen
<1> QED
  BY <1>2, <1>3, <1>9 DEF CollectMetrics, Heartbeat, LookingGlass

LEMMA SoundSmallTasks ==
  ASSUME AgentLocks
  PROVE  /\ MeasureRTT \in SUBSET Sound(0) /\ CleanupRTT \in SUBSET Sound(0)
         /\ PeerProbe \in SUBSET Sound(0) /\ CopySessions \in SUBSET Sound(0)
         /\ MonitorTraffic \in SUBSET Sound(0) /\ Status \in SUBSET Sound(0)
         /\ PoolMaintenance \in SUBSET Sound(0) /\ CleanupResources \in SUBSET Sound(0)
<1>1. /\ {"session", "metric", "rtt", "traffic", "pool", "probe"} \subseteq MCLocks
      /\ {"session", "metric"} \subseteq Locks /\ Rank["session"] = 0 /\ Rank["metric"] = 3
      /\ 0 \in Nat /\ 1 \in Nat /\ 0 <= 0 /\ 1 <= 3 /\ 0 + 1 = 1
  BY Ranks DEF MCLocks
<1>2. /\ Read("session") \in Sound(0) /\ Write("session") \in Sound(0)
      /\ Read("rtt") \in Sound(0) /\ Write("rtt") \in Sound(0)
      /\ Write("metric") \in Sound(0) /\ Write("traffic") \in Sound(0)
      /\ Write("pool") \in Sound(0) /\ Write("probe") \in Sound(0)
      /\ <<>> \in Sound(0)
  BY <1>1, SoundAlone, SoundEmpty
<1>3. MeasureRTT \in SUBSET Sound(0)
  <2>1. Read("rtt") \o Read("rtt") \in Sound(0)
    BY <1>1, <1>2, SoundConcat
  <2>2. (Read("rtt") \o Read("rtt")) \o Write("rtt") \in Sound(0)
    BY <1>1, <1>2, <2>1, SoundConcat
  <2>3. ((Read("rtt") \o Read("rtt")) \o Write("rtt")) \o Write("rtt") \in Sound(0)
    BY <1>1, <1>2, <2>2, SoundConcat
  <2> QED
    BY <2>3 DEF MeasureRTT
<1>4. CleanupRTT \in SUBSET Sound(0)
  BY <1>1, <1>2, SoundConcat DEF CleanupRTT
<1>5. PeerProbe \in SUBSET Sound(0)
  <2>1. {Read("session")} \in SUBSET Sound(0) /\ {<<>>, Write("probe")} \in SUBSET Sound(0)
    BY <1>2
  <2> QED
    BY <1>1, <2>1, SoundThen DEF PeerProbe
<1>6. CopySessions \in SUBSET Sound(0) /\ MonitorTraffic \in SUBSET Sound(0)
      /\ PoolMaintenance \in SUBSET Sound(0)
  BY <1>2 DEF CopySessions, MonitorTraffic, PoolMaintenance
<1>7. Status \in SUBSET Sound(0)
  <2>1. Read("metric") \in Sound(1)
    BY <1>1, SoundLock
  <2>2. Holding(Read("session"), Read("metric")) \in Sound(0)
    BY <1>1, <2>1, SoundHolding
  <2> QED
    BY <2>2 DEF Status
<1>8. CleanupResources \in SUBSET Sound(0)
  <2>1. Write("session") \o Write("metric") \in Sound(0)
    BY <1>1, <1>2, SoundConcat
  <2>2. (Write("session") \o Write("metric")) \o Write("traffic") \in Sound(0)
    BY <1>1, <1>2, <2>1, SoundConcat
  <2>3. ((Write("session") \o Write("metric")) \o Write("traffic")) \o Write("rtt") \in Sound(0)
    BY <1>1, <1>2, <2>2, SoundConcat
  <2>4. /\ {((Write("session") \o Write("metric")) \o Write("traffic")) \o Write("rtt")}
             \in SUBSET Sound(0)
        /\ PoolClose \in SUBSET Sound(0)
    BY <1>2, <2>3 DEF PoolClose
  <2> QED
    BY <1>1, <2>4, SoundThen DEF CleanupResources
<1> QED
  BY <1>3, <1>4, <1>5, <1>6, <1>7, <1>8

LEMMA SoundPlans ==
  ASSUME AgentLocks, NEW g \in Goroutines
  PROVE  PlansOf(g) \in SUBSET Sound(0) /\ ShutdownOf(g) \in SUBSET Sound(0)
<1>1. ShutdownOf(g) \in SUBSET Sound(0)
  <2>1. {"session", "metric", "traffic"} \subseteq MCLocks /\ 0 \in Nat
    BY DEF MCLocks
  <2>2. /\ Read("session") \in Sound(0) /\ Write("metric") \in Sound(0)
        /\ Write("traffic") \in Sound(0) /\ <<>> \in Sound(0)
    BY <2>1, SoundAlone, SoundEmpty
  <2>3. ShutdownOf(g) \in {{Read("session")}, {Write("metric")}, {Write("traffic")}, {<<>>}}
    BY DEF ShutdownOf
  <2> QED
    BY <2>2, <2>3
<1>2. PlansOf(g) \in {SyncSessions, UpdateFilterParams, CollectMetrics, MeasureRTT,
                      CopySessions \cup CleanupRTT, PeerProbe, CopySessions, MonitorTraffic,
                      Status, Heartbeat, LookingGlass, PoolMaintenance, CleanupResources}
  BY DEF PlansOf, Goroutines
<1>3. \A ps \in {SyncSessions, UpdateFilterParams, CollectMetrics, MeasureRTT,
                 CopySessions \cup CleanupRTT, PeerProbe, CopySessions, MonitorTraffic,
                 Status, Heartbeat, LookingGlass, PoolMaintenance, CleanupResources} : ps \in SUBSET Sound(0)
  BY SoundSyncSessions, SoundUpdateFilterParams, SoundCollectMetrics, SoundSmallTasks
<1> QED
  BY <1>1, <1>2, <1>3

LEMMA SoundOver ==
  ASSUME NEW ps \in SUBSET Sound(0), NEW locks
  PROVE  Over(ps, locks) \in SUBSET Sound(0)
<1>1. 0 \in Nat
  OBVIOUS
<1>2. ASSUME NEW f \in Over(ps, locks) PROVE f \in Sound(0)
  <2>1. PICK s \in ps : f = Only(s, locks)
    BY <1>2 DEF Over
  <2> QED
    BY <1>1, <2>1, SoundOnly
<1> QED
  BY <1>2
(* The constants of the runs, with any of the goroutines, any of the locks *)
(* and any number of sessions.                                             *)
AgentConstants ==
  /\ AgentLocks
  /\ Plans = MCPlans /\ Shutdown = MCShutdown
  /\ Procs \subseteq Goroutines

LEMMA AgentIsOrdered ==
  ASSUME AgentConstants
  PROVE  AgentPlansOrdered
<1>1. AgentLocks /\ Tasks \subseteq Goroutines
  BY LifecycleAssumption DEF AgentConstants
<1>2. ASSUME NEW g \in Goroutines, NEW locks
      PROVE  /\ Over(PlansOf(g), locks) \in SUBSET Sound(0)
             /\ Over(ShutdownOf(g), locks) \in SUBSET Sound(0)
  BY <1>1, SoundPlans, SoundOver
<1>3. \A s \in Sound(0) : PlanOrdered(s)
  BY DEF Sound
<1>4. \A g \in Goroutines : \A s \in PlansOf(g) \cup ShutdownOf(g) : PlanOrdered(s)
  BY <1>1, <1>3, SoundPlans
<1>5. ASSUME NEW p \in Procs, NEW s \in Plans[p] PROVE PlanOrdered(s)
  <2>1. p \in Goroutines /\ s \in Over(PlansOf(p), Studied)
    BY DEF AgentConstants, MCPlans
  <2> QED
    BY <1>2, <1>3, <2>1
<1>6. ASSUME NEW t \in Tasks, NEW s \in Shutdown[t] PROVE PlanOrdered(s)
  <2>1. t \in Goroutines /\ s \in Over(ShutdownOf(t), Studied)
    BY <1>1 DEF AgentConstants, MCShutdown
  <2> QED
    BY <1>2, <1>3, <2>1
<1> QED
  BY <1>4, <1>5, <1>6 DEF AgentPlansOrdered, PlansOrdered, ShutdownOrdered

(* Every path of every goroutine of the agent takes the locks in one order *)
(* and gives back what it took, however many sessions its round works on,  *)
(* and so does at any time what is left of every round (the critical       *)
(* sections of task_session_sync.go, task_filter_params_updater.go,        *)
(* task_metric.go, task_rtt.go, handler.go, bird.go and main.go).          *)
THEOREM AgentOrdersItsLocks ==
  ASSUME AgentConstants
  PROVE  LifecycleSpec => []LocksAreOrdered
<1>1. AgentPlansOrdered /\ PlansOrdered /\ ShutdownOrdered
  BY AgentIsOrdered DEF AgentPlansOrdered
<1>2. LifecycleInit => LockInv
  BY InvInit DEF LifecycleInit
<1>3. LockInv /\ [LifecycleNext]_allVars => LockInv'
  BY <1>1, AgentKeepsLockInv
<1>4. LockInv => LocksAreOrdered
  BY <1>1 DEF LockInv, LocksAreOrdered
<1> QED
  BY <1>2, <1>3, <1>4, PTL DEF LifecycleSpec

(* So the agent with the plans of its code never comes to a stop on its    *)
(* locks, and never runs two syncs at once.                                *)
COROLLARY AgentIsNeverStuck ==
  ASSUME AgentConstants
  PROVE  LifecycleSpec => [](NoDeadlock /\ LifecycleTypeOK)
<1>1. PlansOrdered /\ ShutdownOrdered
  BY AgentIsOrdered DEF AgentPlansOrdered
<1>2. (LifecycleSpec => []NoDeadlock) /\ (LifecycleSpec => []LifecycleTypeOK)
  BY <1>1, NobodyIsStuck, SyncHoldsFlag
<1> QED
  BY <1>2, PTL
=============================================================================
