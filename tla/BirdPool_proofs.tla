--------------------------- MODULE BirdPool_proofs --------------------------
(***************************************************************************)
(* Proofs that no two goroutines share a pooled connection, that the pool  *)
(* and its channel keep to their limits, that the maintenance closes       *)
(* nothing in use, and that the pool implements Lease, for any number of   *)
(* callers and any sizes of the pool.                                      *)
(***************************************************************************)
EXTENDS BirdPool, LoopTheorems, TLAPS

Distinct(s) == \A i, j \in DOMAIN s : s[i] = s[j] => i = j

(* Places at which a caller has an entry.                                  *)
Holding == Using \cup {"mark", "send"}

Ownership ==
  /\ available \in Seq(Entries)
  /\ held \in [Callers -> Entries \cup {None}]
  /\ pc \in [Callers -> Place]
  /\ \A c \in Callers : pc[c] \in Holding => held[c] # None
  /\ ExclusiveUse

-----------------------------------------------------------------------------
(* What is left after a receive, and what a send adds.                     *)
LEMMA TailOf ==
  ASSUME NEW S, NEW s \in Seq(S), s # <<>>
  PROVE  /\ Head(s) \in S /\ Head(s) \in ToSet(s)
         /\ Tail(s) \in Seq(S)
         /\ ToSet(Tail(s)) \subseteq ToSet(s)
         /\ Distinct(s) => Distinct(Tail(s)) /\ Head(s) \notin ToSet(Tail(s))
<1>1. Len(s) \in Nat \ {0} /\ DOMAIN s = 1 .. Len(s) /\ Head(s) = s[1]
  OBVIOUS
<1>2. /\ Tail(s) \in Seq(S) /\ Len(Tail(s)) = Len(s) - 1
      /\ DOMAIN Tail(s) = 1 .. (Len(s) - 1)
      /\ \A i \in 1 .. (Len(s) - 1) : Tail(s)[i] = s[i + 1]
  BY <1>1
<1>3. \A i \in 1 .. (Len(s) - 1) : i + 1 \in 1 .. Len(s) /\ i + 1 # 1
  BY <1>1
<1>4. Distinct(s) => Distinct(Tail(s)) /\ Head(s) \notin ToSet(Tail(s))
  BY <1>1, <1>2, <1>3 DEF Distinct, ToSet
<1>5. ToSet(Tail(s)) \subseteq ToSet(s) /\ Head(s) \in ToSet(s) /\ Head(s) \in S
  BY <1>1, <1>2, <1>3 DEF ToSet
<1> QED
  BY <1>1, <1>2, <1>4, <1>5

LEMMA AppendOf ==
  ASSUME NEW S, NEW s \in Seq(S), NEW e \in S
  PROVE  /\ Append(s, e) \in Seq(S)
         /\ ToSet(Append(s, e)) = ToSet(s) \cup {e}
         /\ Distinct(s) /\ e \notin ToSet(s) => Distinct(Append(s, e))
<1>1. /\ Append(s, e) \in Seq(S) /\ Len(Append(s, e)) = Len(s) + 1
      /\ DOMAIN s = 1 .. Len(s) /\ Len(s) \in Nat
      /\ DOMAIN Append(s, e) = 1 .. (Len(s) + 1)
      /\ \A i \in 1 .. Len(s) : Append(s, e)[i] = s[i]
      /\ Append(s, e)[Len(s) + 1] = e
  OBVIOUS
<1>2. \A i \in 1 .. (Len(s) + 1) : i \in 1 .. Len(s) \/ i = Len(s) + 1
  BY <1>1
<1>3. \A i \in 1 .. Len(s) : i \in 1 .. (Len(s) + 1)
  BY <1>1
<1>4. Len(s) + 1 \in 1 .. (Len(s) + 1)
  BY <1>1
<1>5. ToSet(Append(s, e)) = ToSet(s) \cup {e}
  BY <1>1, <1>2, <1>3, <1>4 DEF ToSet
<1>6. Distinct(s) /\ e \notin ToSet(s) => Distinct(Append(s, e))
  BY <1>1, <1>2 DEF Distinct, ToSet
<1> QED
  BY <1>1, <1>5, <1>6

-----------------------------------------------------------------------------
LEMMA InitOwnership == PoolInit => Ownership
  BY DEF PoolInit, Ownership, ExclusiveUse, Place, Holding, Using, ToSet

(* The channel and the entries held stay, and only one caller moves.       *)
LEMMA MoveOwnership ==
  ASSUME Ownership, NEW c \in Callers, NEW place \in Place, Go(c, place),
         UNCHANGED <<available, held>>,
         place \in Holding => held[c] # None
  PROVE  Ownership'
  BY DEF Ownership, ExclusiveUse, Go

LEMMA ReceiveOwnership ==
  ASSUME Ownership, NEW c \in Callers, NEW place \in {"grow", "wait"}, Receive(c, place)
  PROVE  Ownership'
<1> DEFINE e == Head(available)
<1>1. /\ available \in Seq(Entries) /\ available # <<>> /\ available' = Tail(available)
      /\ Distinct(available)
  BY DEF Ownership, Receive, ExclusiveUse, Distinct
<1>2. /\ e \in Entries /\ e \in ToSet(available)
      /\ available' \in Seq(Entries)
      /\ ToSet(available') \subseteq ToSet(available)
      /\ Distinct(available') /\ e \notin ToSet(available')
  BY <1>1, TailOf
<1> HIDE DEF e
<1>5. CASE held' = [held EXCEPT ![c] = e] /\ Go(c, "mark")
  <2>1. /\ held' \in [Callers -> Entries \cup {None}] /\ pc' \in [Callers -> Place]
        /\ \A d \in Callers : pc'[d] \in Holding => held'[d] # None
    BY <1>2, <1>5, PoolAssumption DEF Ownership, Go, Place
  <2>2. ExclusiveUse'
    BY <1>2, <1>5 DEF Ownership, ExclusiveUse, Distinct
  <2> QED
    BY <1>2, <2>1, <2>2 DEF Ownership
<1>6. CASE held' = held /\ Go(c, place)
  <2>1. /\ pc' \in [Callers -> Place]
        /\ \A d \in Callers : pc'[d] \in Holding => held'[d] # None
    BY <1>6 DEF Ownership, Go, Place, Holding, Using
  <2>2. ExclusiveUse'
    BY <1>2, <1>6 DEF Ownership, ExclusiveUse, Distinct
  <2> QED
    BY <1>2, <1>6, <2>1, <2>2 DEF Ownership
<1> QED
  BY <1>5, <1>6 DEF Receive, e

(* A receive that throws the entry away: Close and the drain.              *)
LEMMA DropOwnership ==
  ASSUME Ownership, available # <<>>, available' = Tail(available), UNCHANGED <<held, pc>>
  PROVE  Ownership'
<1>1. /\ available \in Seq(Entries) /\ Distinct(available)
  BY DEF Ownership, ExclusiveUse, Distinct
<1>2. /\ available' \in Seq(Entries)
      /\ ToSet(available') \subseteq ToSet(available) /\ Distinct(available')
  BY <1>1, TailOf
<1> QED
  BY <1>2 DEF Ownership, ExclusiveUse, Distinct

LEMMA StayOwnership ==
  ASSUME Ownership, UNCHANGED <<available, held, pc>>
  PROVE  Ownership'
  BY DEF Ownership, ExclusiveUse

(* An entry goes from hand to nobody, the channel stays.                   *)
LEMMA LetGoOwnership ==
  ASSUME Ownership, NEW c \in Callers, held' = [held EXCEPT ![c] = None],
         Go(c, "idle"), available' = available
  PROVE  Ownership'
  BY DEF Ownership, ExclusiveUse, Go, Place, Holding, Using

(* An entry goes into the channel, from the hand of c or new.              *)
LEMMA BuildOneOwnership ==
  ASSUME Ownership, NEW e \in Entries, BuildOne(e)
  PROVE  Ownership'
<1>1. /\ available \in Seq(Entries) /\ Distinct(available) /\ e \notin ToSet(available)
      /\ \A c \in Callers : held[c] # e
      /\ available' = Append(available, e) /\ held' = held /\ pc' = pc
  BY DEF Ownership, ExclusiveUse, Distinct, BuildOne, New, Unused, Reachable
<1>2. /\ available' \in Seq(Entries) /\ Distinct(available')
      /\ ToSet(available') = ToSet(available) \cup {e}
  BY <1>1, AppendOf
<1> QED
  BY <1>1, <1>2 DEF Ownership, ExclusiveUse, Distinct

LEMMA DialledOwnership ==
  ASSUME Ownership, NEW c \in Callers, NEW e \in Entries, Dialled(c, e)
  PROVE  Ownership'
<1>1. /\ e \notin ToSet(available) /\ \A d \in Callers : held[d] # e
      /\ available' = available /\ held' = [held EXCEPT ![c] = e] /\ Go(c, "check")
  BY DEF Dialled, New, Unused, Reachable
<1>2. e # None
  BY PoolAssumption
<1>3. /\ held' \in [Callers -> Entries \cup {None}] /\ pc' \in [Callers -> Place]
      /\ \A d \in Callers : pc'[d] \in Holding => held'[d] # None
  BY <1>1, <1>2 DEF Ownership, Go, Place
<1>4. ExclusiveUse'
  BY <1>1 DEF Ownership, ExclusiveUse
<1> QED
  BY <1>1, <1>3, <1>4 DEF Ownership

LEMMA SendOwnership ==
  ASSUME Ownership, NEW c \in Callers, Send(c)
  PROVE  Ownership'
<1>1. CASE UNCHANGED <<available, held>> /\ pc' = [d \in Callers |-> "gone"]
  BY <1>1 DEF Ownership, ExclusiveUse, Place, Holding, Using
<1>2. CASE held' = [held EXCEPT ![c] = None] /\ Go(c, "idle") /\ available' = available
  BY <1>2, LetGoOwnership
<1>3. CASE /\ held' = [held EXCEPT ![c] = None] /\ Go(c, "idle")
           /\ available' = Append(available, held[c])
  <2>1. /\ held[c] \in Entries /\ held[c] \notin ToSet(available)
        /\ available \in Seq(Entries) /\ Distinct(available)
        /\ \A d \in Callers : held[d] = held[c] => d = c
    BY DEF Send, Ownership, ExclusiveUse, Distinct, Holding
  <2>2. /\ available' \in Seq(Entries) /\ Distinct(available')
        /\ ToSet(available') = ToSet(available) \cup {held[c]}
    BY <1>3, <2>1, AppendOf
  <2>3. /\ held' \in [Callers -> Entries \cup {None}] /\ pc' \in [Callers -> Place]
        /\ \A d \in Callers : pc'[d] \in Holding => held'[d] # None
    BY <1>3 DEF Ownership, Go, Place, Holding, Using
  <2>4. ExclusiveUse'
    BY <1>3, <2>1, <2>2 DEF Ownership, ExclusiveUse, Distinct
  <2> QED
    BY <2>2, <2>3, <2>4 DEF Ownership
<1> QED
  BY <1>1, <1>2, <1>3 DEF Send

LEMMA UseOwnership ==
  ASSUME Ownership, NEW c \in Callers, Use(c)
  PROVE  Ownership'
<1>1. CASE MarkInUse(c)
  BY <1>1, MoveOwnership DEF MarkInUse, Ownership, Place, Holding
<1>2. CASE Grow(c)
  BY <1>2, MoveOwnership DEF Grow, Place, Holding, Using, sharedVars
<1>3. CASE DialFails(c)
  BY <1>3, MoveOwnership DEF DialFails, Place, Holding, Using, sharedVars
<1>4. CASE WaitReceives(c)
  BY <1>4, ReceiveOwnership DEF WaitReceives
<1>5. CASE WaitEnds(c)
  BY <1>5, MoveOwnership DEF WaitEnds, Place, Holding, Using, sharedVars
<1>6. CASE \E e \in Entries : Dialled(c, e)
  BY <1>6, DialledOwnership
<1>7. CASE CheckConnection(c)
  BY <1>7, MoveOwnership DEF CheckConnection, Ownership, Place, Holding, Using, sharedVars
<1>8. CASE Run(c)
  BY <1>8, MoveOwnership DEF Run, Ownership, Place, Holding, Using, sharedVars
<1>9. CASE Redial(c)
  BY <1>9, MoveOwnership DEF Redial, Ownership, Place, Holding, Using, sharedVars
<1>10. CASE Replace(c)
  BY <1>10, MoveOwnership DEF Replace, Ownership, Place, Holding, Using
<1>11. CASE Release(c)
  BY <1>11, MoveOwnership, LetGoOwnership DEF Release, Ownership, Place, Holding, Using
<1>12. CASE Unmark(c)
  BY <1>12, MoveOwnership DEF Unmark, Ownership, Place, Holding, Using
<1>13. CASE Send(c)
  BY <1>13, SendOwnership
<1> QED
  BY <1>1, <1>2, <1>3, <1>4, <1>5, <1>6, <1>7, <1>8, <1>9, <1>10, <1>11, <1>12, <1>13 DEF Use

LEMMA OwnershipStep ==
  ASSUME Ownership, [PoolNext]_poolVars
  PROVE  Ownership'
<1>1. ASSUME NEW c \in Callers, Get(c) PROVE Ownership'
  BY <1>1, ReceiveOwnership, MoveOwnership DEF Get, Place, Holding, Using, sharedVars
<1>2. CASE Build
  BY <1>2, BuildOneOwnership, StayOwnership DEF Build, BuildFails, BuildDone, sharedVars
<1>3. CASE Shutdown \/ TidyingEnds \/ \E old \in SUBSET ToSet(pool) : Prune(old)
  BY <1>3, StayOwnership DEF Shutdown, TidyingEnds, Prune, sharedVars
<1>4. CASE Close
  BY <1>4, StayOwnership, DropOwnership
  DEF Close, CloseLocks, CloseChannel, Drain, Sweep, mainVars, sharedVars
<1>5. CASE UNCHANGED poolVars
  BY <1>5, StayOwnership DEF poolVars, sharedVars
<1> QED
  BY <1>1, <1>2, <1>3, <1>4, <1>5, UseOwnership DEF PoolNext

(* With any number of callers and any sizes, through timeouts, pruning,    *)
(* reconnects and shutdown, an entry of the pool is never with two callers, *)
(* nor in the channel while a caller has it (GetConnection and             *)
(* ReleaseConnection, bird.go:203-294).                                    *)
THEOREM NoSharedConnection == PoolSpec => []ExclusiveUse
<1>1. Ownership => ExclusiveUse
  BY DEF Ownership
<1> QED
  BY <1>1, InitOwnership, OwnershipStep, PTL DEF PoolSpec

-----------------------------------------------------------------------------
(* The pool under its lock.                                                *)

(* A caller that has been given an entry has marked it; one that dials has *)
(* the lock, and found room.                                               *)
Marked(c)   == pc[c] \in Using => inUse[held[c]]
Dialling(c) == pc[c] = "dial" => lock = c /\ Len(pool) < Limit

(* While the pool is built nobody has it, and Close keeps the lock from    *)
(* the channel to the end.                                                 *)
Building ==
  stage = "build" =>
    /\ ~ built /\ ~ tidying
    /\ available = pool
    /\ \A c \in Callers : pc[c] = "idle"

Closing == stage \in {"channel", "drain"} => lock = Main

Pooled ==
  /\ Ownership
  /\ PoolTypeOK
  /\ PoolIsBounded
  /\ Building
  /\ Closing
  /\ \A c \in Callers : Marked(c) /\ Dialling(c)

LEMMA LimitFacts == Limit \in Nat /\ PoolSize \in Nat /\ PoolSize <= Limit
  BY PoolAssumption DEF Limit

-----------------------------------------------------------------------------
(* poolMaintenance's loop over the first n entries: it keeps no more than  *)
(* it has seen, and every one that is in use.                              *)
KeptOf(old) ==
  CHOOSE g : g = [n \in 0 .. Len(pool) |-> IF n = 0 THEN <<>> ELSE Keep(g[n - 1], pool[n], old)]

LEMMA KeepType ==
  ASSUME NEW kept \in Seq(Entries), NEW e \in Entries, NEW old
  PROVE  Keep(kept, e, old) \in Seq(Entries)
  BY DEF Keep

LEMMA KeptLoop ==
  ASSUME pool \in Seq(Entries), NEW old
  PROVE  /\ Kept(old) = KeptOf(old)[Len(pool)]
         /\ \A n \in 0 .. Len(pool) :
              KeptOf(old)[n] = IF n = 0 THEN <<>> ELSE Keep(KeptOf(old)[n - 1], pool[n], old)
<1> DEFINE N == Len(pool)
           T == Seq(Entries)
           step == [i \in 1 .. N |-> [t \in T |-> Keep(t, pool[i], old)]]
<1>1. N \in Nat /\ <<>> \in T /\ \A i \in 1 .. N : pool[i] \in Entries
  OBVIOUS
<1>2. step \in [1 .. N -> [T -> T]]
  BY <1>1, KeepType
<1>3. \A i \in 1 .. N : \A t \in T : step[i][t] = Keep(t, pool[i], old)
  OBVIOUS
<1> HIDE DEF N, T, step
<1>4. PICK g : Loops(g, N, T, <<>>, step)
  BY <1>1, <1>2, LoopExists
<1>5. ASSUME NEW n \in 0 .. N
      PROVE  g[n] = IF n = 0 THEN <<>> ELSE Keep(g[n - 1], pool[n], old)
  <2>1. CASE n = 0
    BY <1>4, <2>1 DEF Loops
  <2>2. CASE n # 0
    <3>1. n \in 1 .. N /\ n - 1 \in 0 .. N
      BY <1>1, <2>2
    <3>2. g[n - 1] \in T /\ g[n] = step[n][g[n - 1]]
      BY <1>4, <3>1 DEF Loops
    <3> QED
      BY <1>3, <2>2, <3>1, <3>2
  <2> QED
    BY <2>1, <2>2
<1>6. g = [n \in 0 .. N |-> IF n = 0 THEN <<>> ELSE Keep(g[n - 1], pool[n], old)]
  BY <1>4, <1>5 DEF Loops
<1>7. KeptOf(old) =
        [n \in 0 .. N |-> IF n = 0 THEN <<>> ELSE Keep(KeptOf(old)[n - 1], pool[n], old)]
  BY <1>6 DEF KeptOf, N
<1>8. Kept(old) = KeptOf(old)[Len(pool)]
  BY DEF Kept, KeptOf
<1> HIDE DEF KeptOf
<1>9. ASSUME NEW n \in 0 .. N
      PROVE  KeptOf(old)[n] = IF n = 0 THEN <<>> ELSE Keep(KeptOf(old)[n - 1], pool[n], old)
  BY <1>7
<1> QED
  BY <1>8, <1>9 DEF N

LEMMA KeptFacts ==
  ASSUME pool \in Seq(Entries), NEW old
  PROVE  /\ Kept(old) \in Seq(Entries)
         /\ Len(Kept(old)) <= Len(pool)
         /\ \A e \in ToSet(pool) : inUse[e] => e \in ToSet(Kept(old))
<1> DEFINE N == Len(pool)
           kept == KeptOf(old)
           Good(n, s) == /\ s \in Seq(Entries)
                         /\ Len(s) <= n
                         /\ \A i \in 1 .. n : inUse[pool[i]] => pool[i] \in ToSet(s)
           S == {n \in 0 .. N : Good(n, kept[n])}
<1>1. N \in Nat /\ ToSet(pool) = {pool[i] : i \in 1 .. N}
  BY DEF ToSet
<1>2. \A n \in 0 .. N : kept[n] = IF n = 0 THEN <<>> ELSE Keep(kept[n - 1], pool[n], old)
  BY KeptLoop
<1> HIDE DEF kept
<1>3. Good(0, <<>>)
  OBVIOUS
<1>4. ASSUME NEW n \in 1 .. N, NEW s, Good(n - 1, s)
      PROVE  Good(n, Keep(s, pool[n], old))
  <2> DEFINE e == pool[n]
  <2>1. n \in Nat /\ e \in Entries /\ s \in Seq(Entries) /\ Len(s) \in Nat /\ Len(s) <= n - 1
    BY <1>1, <1>4
  <2>2. \A i \in 1 .. n : i = n \/ i \in 1 .. (n - 1)
    BY <1>1
  <2>3. \A i \in 1 .. (n - 1) : inUse[pool[i]] => pool[i] \in ToSet(s)
    BY <1>4
  <2>4. CASE Keep(s, e, old) = Append(s, e)
    <3>1. Append(s, e) \in Seq(Entries) /\ ToSet(Append(s, e)) = ToSet(s) \cup {e}
      BY <2>1, AppendOf
    <3>2. Len(Append(s, e)) <= n
      BY <2>1
    <3>3. ASSUME NEW i \in 1 .. n, inUse[pool[i]] PROVE pool[i] \in ToSet(Append(s, e))
      BY <2>2, <2>3, <3>1, <3>3
    <3> QED
      BY <2>4, <3>1, <3>2, <3>3
  <2>5. CASE Keep(s, e, old) = s /\ ~ inUse[e]
    <3>1. Len(s) <= n
      BY <2>1
    <3>2. ASSUME NEW i \in 1 .. n, inUse[pool[i]] PROVE pool[i] \in ToSet(s)
      BY <2>2, <2>3, <2>5, <3>2
    <3> QED
      BY <2>1, <2>5, <3>1, <3>2
  <2> QED
    BY <2>4, <2>5 DEF Keep
<1> HIDE DEF Good
<1>5. 0 \in S
  BY <1>1, <1>2, <1>3
<1>6. ASSUME NEW n \in 1 .. N, n - 1 \in S PROVE n \in S
  <2>1. n \in 0 .. N /\ n # 0 /\ Good(n - 1, kept[n - 1])
    BY <1>1, <1>6
  <2>2. kept[n] = Keep(kept[n - 1], pool[n], old)
    BY <1>2, <2>1
  <2>3. Good(n, kept[n])
    BY <1>4, <2>1, <2>2
  <2> QED
    BY <2>1, <2>3
<1> HIDE DEF S
<1>7. \A n \in 1 .. N : n - 1 \in S => n \in S
  BY <1>6
<1>8. 0 .. N \subseteq S
  BY <1>1, <1>5, <1>7, Climb
<1>9. Good(N, kept[N])
  BY <1>1, <1>8 DEF S
<1>10. Good(N, Kept(old))
  BY <1>9, KeptLoop DEF kept
<1> QED
  BY <1>1, <1>10 DEF Good

-----------------------------------------------------------------------------
(* Types.                                                                  *)
LEMMA InitPooled == PoolInit => Pooled
<1> SUFFICES ASSUME PoolInit PROVE Pooled
  OBVIOUS
<1>1. Ownership
  BY InitOwnership
<1>2. PoolTypeOK /\ PoolIsBounded
  <2>1. <<>> \in Seq(Entries) /\ Len(<<>>) <= Limit
    BY LimitFacts
  <2>2. conn \in [Entries -> Conn] /\ inUse \in [Entries -> BOOLEAN]
    BY DEF PoolInit, Conn
  <2>3. pc \in [Callers -> Place] /\ held \in [Callers -> Entries \cup {None}]
    BY DEF PoolInit, Place
  <2> QED
    BY <2>1, <2>2, <2>3 DEF PoolInit, PoolTypeOK, PoolIsBounded, Stage
<1>3. Building /\ Closing /\ \A c \in Callers : Marked(c) /\ Dialling(c)
  BY DEF PoolInit, Building, Closing, Marked, Dialling, Using
<1> QED
  BY <1>1, <1>2, <1>3 DEF Pooled

LEMMA ReceiveTypes ==
  ASSUME Pooled, NEW c \in Callers, NEW place \in {"grow", "wait"}, Receive(c, place),
         UNCHANGED <<lock, mainVars>>
  PROVE  PoolTypeOK'
<1>1. PoolTypeOK /\ Limit \in Nat
  BY LimitFacts DEF Pooled
<1>2. available \in Seq(Entries) /\ available # <<>> /\ available' = Tail(available)
  BY <1>1 DEF PoolTypeOK, Receive
<1>3. Head(available) \in Entries /\ Tail(available) \in Seq(Entries)
  BY <1>2, TailOf
<1>4. Len(Tail(available)) = Len(available) - 1 /\ Len(available) \in Nat
  BY <1>2
<1>5. available' \in Seq(Entries) /\ Len(available') <= Limit
  BY <1>1, <1>2, <1>3, <1>4 DEF PoolTypeOK
<1>6. pc' \in [Callers -> Place] /\ held' \in [Callers -> Entries \cup {None}]
  BY <1>1, <1>3 DEF Receive, PoolTypeOK, Go, Place
<1> QED
  BY <1>1, <1>5, <1>6 DEF Receive, PoolTypeOK, mainVars

LEMMA BuildTypes ==
  ASSUME Pooled, Build
  PROVE  PoolTypeOK'
<1>1. PoolTypeOK /\ Limit \in Nat
  BY LimitFacts DEF Pooled
<1>2. CASE BuildFails \/ BuildDone
  BY <1>1, <1>2 DEF BuildFails, BuildDone, sharedVars, PoolTypeOK, Stage
<1>3. ASSUME NEW e \in Entries, BuildOne(e) PROVE PoolTypeOK'
  <2>1. pool \in Seq(Entries) /\ available = pool /\ Len(pool) < PoolSize
    BY <1>1, <1>3 DEF Pooled, Building, BuildOne, PoolTypeOK
  <2>2. Append(pool, e) \in Seq(Entries) /\ Len(Append(pool, e)) = Len(pool) + 1
    BY <2>1
  <2>3. Len(Append(pool, e)) <= Limit
    BY <2>1, <2>2, LimitFacts
  <2> QED
    BY <1>1, <1>3, <2>1, <2>2, <2>3 DEF BuildOne, mainVars, PoolTypeOK, Conn
<1> QED
  BY <1>2, <1>3 DEF Build

LEMMA SendTypes ==
  ASSUME Pooled, NEW c \in Callers, Send(c)
  PROVE  PoolTypeOK'
<1>1. PoolTypeOK /\ Limit \in Nat
  BY LimitFacts DEF Pooled
<1>2. CASE /\ pc' = [d \in Callers |-> "gone"] /\ stage' = "gone" /\ tidying' = FALSE
           /\ UNCHANGED <<available, held>>
  BY <1>1, <1>2 DEF Send, PoolTypeOK, Place, Stage
<1>3. CASE /\ available' = IF Len(available) < Limit THEN Append(available, held[c]) ELSE available
           /\ held' = [held EXCEPT ![c] = None]
           /\ Go(c, "idle")
           /\ UNCHANGED <<stage, tidying>>
  <2>1. held[c] \in Entries
    BY DEF Send, Pooled, Ownership, Holding
  <2>2. available' \in Seq(Entries) /\ Len(available') <= Limit
    BY <1>1, <1>3, <2>1 DEF PoolTypeOK
  <2>3. pc' \in [Callers -> Place] /\ held' \in [Callers -> Entries \cup {None}]
    BY <1>1, <1>3 DEF PoolTypeOK, Go, Place
  <2> QED
    BY <1>1, <1>3, <2>2, <2>3 DEF Send, PoolTypeOK
<1> QED
  BY <1>2, <1>3 DEF Send

LEMMA UseTypes ==
  ASSUME Pooled, NEW c \in Callers, Use(c)
  PROVE  PoolTypeOK'
<1>1. PoolTypeOK
  BY DEF Pooled
<1>2. CASE MarkInUse(c)
  BY <1>1, <1>2 DEF MarkInUse, PoolTypeOK, Go, Place, mainVars
<1>3. CASE Grow(c)
  BY <1>1, <1>3 DEF Grow, PoolTypeOK, Go, Place, mainVars, sharedVars
<1>4. CASE DialFails(c)
  BY <1>1, <1>4 DEF DialFails, PoolTypeOK, Go, Place, mainVars, sharedVars
<1>5. CASE WaitReceives(c)
  BY <1>5, ReceiveTypes DEF WaitReceives
<1>6. CASE WaitEnds(c)
  BY <1>1, <1>6 DEF WaitEnds, PoolTypeOK, Go, Place, mainVars, sharedVars
<1>7. ASSUME NEW e \in Entries, Dialled(c, e) PROVE PoolTypeOK'
  BY <1>1, <1>7 DEF Dialled, PoolTypeOK, Go, Place, mainVars, Conn
<1>8. CASE CheckConnection(c)
  BY <1>1, <1>8 DEF CheckConnection, PoolTypeOK, Go, Place, mainVars, sharedVars
<1>9. CASE Run(c)
  BY <1>1, <1>9 DEF Run, PoolTypeOK, Go, Place, mainVars, sharedVars
<1>10. CASE Redial(c)
  BY <1>1, <1>10 DEF Redial, PoolTypeOK, Go, Place, mainVars, sharedVars
<1>11. CASE Replace(c)
  BY <1>1, <1>11 DEF Replace, PoolTypeOK, Go, Place, mainVars, Conn
<1>12. CASE Release(c)
  BY <1>1, <1>12 DEF Release, PoolTypeOK, Go, Place, mainVars, Conn
<1>13. CASE Unmark(c)
  BY <1>1, <1>13 DEF Unmark, PoolTypeOK, Go, Place, mainVars
<1>14. CASE Send(c)
  BY <1>14, SendTypes
<1> QED
  BY <1>2, <1>3, <1>4, <1>5, <1>6, <1>7, <1>8, <1>9, <1>10, <1>11, <1>12, <1>13, <1>14 DEF Use

LEMMA CloseTypes ==
  ASSUME Pooled, Close
  PROVE  PoolTypeOK'
<1>1. PoolTypeOK /\ Limit \in Nat
  BY LimitFacts DEF Pooled
<1>2. available # <<>> =>
        /\ Head(available) \in Entries
        /\ Tail(available) \in Seq(Entries) /\ Len(Tail(available)) <= Limit
  BY <1>1 DEF PoolTypeOK
<1>3. CASE CloseLocks
  BY <1>1, <1>3 DEF CloseLocks, PoolTypeOK, sharedVars, Stage
<1>4. CASE CloseChannel
  BY <1>1, <1>2, <1>4 DEF CloseChannel, PoolTypeOK, Stage
<1>5. CASE Drain
  BY <1>1, <1>2, <1>5 DEF Drain, PoolTypeOK, mainVars, Conn
<1>6. CASE Sweep
  BY <1>1, <1>6 DEF Sweep, PoolTypeOK, Stage, Conn
<1> QED
  BY <1>3, <1>4, <1>5, <1>6 DEF Close

LEMMA PruneTypes ==
  ASSUME Pooled, NEW old, Prune(old)
  PROVE  PoolTypeOK' /\ PoolIsBounded'
<1>1. PoolTypeOK /\ PoolIsBounded /\ Limit \in Nat /\ pool \in Seq(Entries)
  BY LimitFacts DEF Pooled, PoolTypeOK
<1>2. pool' = Kept(old) /\ Kept(old) \in Seq(Entries) /\ Len(Kept(old)) <= Len(pool)
  BY <1>1, KeptFacts DEF Prune
<1>3. conn' \in [Entries -> Conn]
  BY <1>1 DEF Prune, PoolTypeOK, Conn
<1>4. Len(pool') <= Limit
  BY <1>1, <1>2 DEF PoolIsBounded
<1>5. PoolTypeOK'
  BY <1>1, <1>2, <1>3 DEF Prune, mainVars, PoolTypeOK
<1> QED
  BY <1>4, <1>5 DEF PoolIsBounded

LEMMA TypesStep ==
  ASSUME Pooled, [PoolNext]_poolVars
  PROVE  PoolTypeOK'
<1>1. PoolTypeOK
  BY DEF Pooled
<1>2. ASSUME NEW c \in Callers, Get(c) PROVE PoolTypeOK'
  <2>1. CASE Receive(c, "grow")
    BY <1>2, <2>1, ReceiveTypes DEF Get
  <2>2. CASE Go(c, "grow") /\ UNCHANGED <<sharedVars, held>>
    BY <1>1, <1>2, <2>2 DEF Get, Go, PoolTypeOK, Place, sharedVars, mainVars
  <2> QED
    BY <1>2, <2>1, <2>2 DEF Get
<1>3. CASE Shutdown
  BY <1>1, <1>3 DEF Shutdown, PoolTypeOK, Stage
<1>4. CASE TidyingEnds
  BY <1>1, <1>4 DEF TidyingEnds, PoolTypeOK, sharedVars
<1>5. CASE UNCHANGED poolVars
  BY <1>1, <1>5 DEF PoolTypeOK, poolVars, sharedVars, mainVars
<1> QED
  BY <1>2, <1>3, <1>4, <1>5, UseTypes, BuildTypes, CloseTypes, PruneTypes DEF PoolNext

-----------------------------------------------------------------------------
(* The lock.                                                               *)

(* A step of a caller's that leaves pool and lock alone, and does not dial. *)
LEMMA MoveDialling ==
  ASSUME Pooled, NEW c \in Callers, NEW place \in Place \ {"dial"}, Go(c, place),
         UNCHANGED <<pool, lock>>, NEW d \in Callers
  PROVE  Dialling(d)'
<1>1. PoolTypeOK /\ Dialling(d)
  BY DEF Pooled
<1>2. pc'[d] = "dial" => pc[d] = "dial"
  BY <1>1 DEF Go, PoolTypeOK
<1> QED
  BY <1>1, <1>2 DEF Dialling, Limit

(* ... one that gives the lock back.                                       *)
LEMMA UnlockDialling ==
  ASSUME Pooled, NEW c \in Callers, pc[c] = "dial", NEW place \in {"idle", "check"},
         Go(c, place), NEW d \in Callers
  PROVE  pc'[d] # "dial"
<1>1. PoolTypeOK /\ Dialling(d) /\ Dialling(c)
  BY DEF Pooled
<1>2. pc[d] = "dial" => d = c
  BY <1>1 DEF Dialling
<1> QED
  BY <1>1, <1>2 DEF Go, PoolTypeOK

LEMMA UseDialling ==
  ASSUME Pooled, NEW c \in Callers, Use(c), NEW d \in Callers
  PROVE  Dialling(d)' /\ PoolIsBounded'
<1>1. PoolTypeOK /\ PoolIsBounded /\ Dialling(c) /\ Dialling(d) /\ Limit \in Nat
  BY LimitFacts DEF Pooled
<1>2. UNCHANGED pool => PoolIsBounded'
  BY <1>1 DEF PoolIsBounded, Limit
<1>3. CASE MarkInUse(c)
  BY <1>2, <1>3, MoveDialling DEF MarkInUse, mainVars, Place
<1>4. CASE Grow(c)
  <2>1. UNCHANGED pool /\ lock = None
    BY <1>4 DEF Grow, sharedVars, Unlocked
  <2>2. CASE Len(pool) < Limit /\ lock' = c /\ Go(c, "dial")
    <3>1. d # c => pc'[d] = pc[d]
      BY <1>1, <2>2 DEF Go, PoolTypeOK
    <3>2. pc[d] # "dial"
      BY <1>1, <2>1, PoolAssumption DEF Dialling
    <3> QED
      BY <1>2, <2>1, <2>2, <3>1, <3>2 DEF Dialling, Limit
  <2>3. CASE UNCHANGED lock /\ Go(c, "wait")
    BY <1>2, <2>1, <2>3, MoveDialling DEF Place
  <2> QED
    BY <1>4, <2>2, <2>3 DEF Grow
<1>5. CASE DialFails(c)
  <2>1. UNCHANGED pool /\ pc'[d] # "dial"
    BY <1>5, UnlockDialling DEF DialFails, sharedVars
  <2> QED
    BY <1>2, <2>1 DEF Dialling
<1>6. CASE WaitReceives(c)
  BY <1>2, <1>6, MoveDialling DEF WaitReceives, Receive, Place
<1>7. CASE WaitEnds(c)
  BY <1>2, <1>7, MoveDialling DEF WaitEnds, sharedVars, Place
<1>8. ASSUME NEW e \in Entries, Dialled(c, e) PROVE Dialling(d)' /\ PoolIsBounded'
  <2>1. pc'[d] # "dial"
    BY <1>8, UnlockDialling DEF Dialled
  <2>2. pool \in Seq(Entries) /\ Len(pool) < Limit /\ pool' = Append(pool, e)
    BY <1>1, <1>8 DEF Dialled, Dialling, PoolTypeOK
  <2>3. Len(pool') <= Limit
    BY <1>1, <2>2
  <2> QED
    BY <2>1, <2>3 DEF Dialling, PoolIsBounded, Limit
<1>9. CASE CheckConnection(c)
  BY <1>2, <1>9, MoveDialling DEF CheckConnection, sharedVars, Place
<1>10. CASE Run(c)
  BY <1>2, <1>10, MoveDialling DEF Run, sharedVars, Place
<1>11. CASE Redial(c)
  BY <1>2, <1>11, MoveDialling DEF Redial, sharedVars, Place
<1>12. CASE Replace(c)
  BY <1>2, <1>12, MoveDialling DEF Replace, Place
<1>13. CASE Release(c)
  BY <1>2, <1>13, MoveDialling DEF Release, Place
<1>14. CASE Unmark(c)
  BY <1>2, <1>14, MoveDialling DEF Unmark, Place
<1>15. CASE Send(c)
  <2>1. CASE pc' = [x \in Callers |-> "gone"]
    BY <1>2, <1>15, <2>1 DEF Send, Dialling
  <2>2. CASE Go(c, "idle")
    BY <1>2, <1>15, <2>2, MoveDialling DEF Send, Place
  <2> QED
    BY <1>15, <2>1, <2>2 DEF Send
<1> QED
  BY <1>3, <1>4, <1>5, <1>6, <1>7, <1>8, <1>9, <1>10, <1>11, <1>12, <1>13, <1>14, <1>15 DEF Use

(* While someone dials, neither main nor the maintenance is at the pool.   *)
LEMMA DiallingStep ==
  ASSUME Pooled, [PoolNext]_poolVars, NEW d \in Callers
  PROVE  Dialling(d)'
<1>1. PoolTypeOK /\ Building /\ Closing /\ Dialling(d)
  BY DEF Pooled
<1>2. UNCHANGED <<pool, lock, pc>> => Dialling(d)'
  BY <1>1 DEF Dialling, Limit
<1>3. ASSUME NEW c \in Callers, Get(c) PROVE Dialling(d)'
  <2>1. UNCHANGED <<pool, lock>>
    BY <1>3 DEF Get, Receive, sharedVars
  <2>2. \E place \in Place \ {"dial"} : Go(c, place)
    BY <1>3 DEF Get, Receive, Place
  <2> QED
    BY <2>1, <2>2, MoveDialling
<1>4. CASE Build
  BY <1>1, <1>4 DEF Build, BuildOne, BuildFails, BuildDone, Building, Dialling
<1>5. CASE Shutdown \/ TidyingEnds \/ UNCHANGED poolVars
  BY <1>2, <1>5 DEF Shutdown, TidyingEnds, poolVars, sharedVars
<1>6. CASE CloseLocks
  BY <1>1, <1>6, PoolAssumption DEF CloseLocks, Unlocked, Dialling
<1>7. CASE CloseChannel \/ Drain
  BY <1>2, <1>7 DEF CloseChannel, Drain
<1>8. CASE Sweep
  BY <1>1, <1>8, PoolAssumption DEF Sweep, Closing, Dialling
<1>9. ASSUME NEW old, Prune(old) PROVE Dialling(d)'
  BY <1>1, <1>9, PoolAssumption DEF Prune, Unlocked, Dialling
<1> QED
  BY <1>3, <1>4, <1>5, <1>6, <1>7, <1>8, <1>9, UseDialling DEF PoolNext, Close

LEMMA BoundedStep ==
  ASSUME Pooled, [PoolNext]_poolVars
  PROVE  PoolIsBounded'
<1>1. PoolTypeOK /\ PoolIsBounded /\ Limit \in Nat
  BY LimitFacts DEF Pooled
<1>2. UNCHANGED pool => PoolIsBounded'
  BY <1>1 DEF PoolIsBounded, Limit
<1>3. ASSUME NEW e \in Entries, BuildOne(e) PROVE PoolIsBounded'
  <2>1. pool \in Seq(Entries) /\ Len(pool) < PoolSize /\ pool' = Append(pool, e)
    BY <1>1, <1>3 DEF BuildOne, PoolTypeOK
  <2>2. Len(pool') <= Limit
    BY <2>1, LimitFacts
  <2> QED
    BY <2>2 DEF PoolIsBounded, Limit
<1>4. CASE Sweep
  <2>1. pool' = <<>> /\ Len(<<>>) <= Limit
    BY <1>1, <1>4 DEF Sweep
  <2> QED
    BY <2>1 DEF PoolIsBounded, Limit
<1>5. ASSUME NEW c \in Callers, Use(c) PROVE PoolIsBounded'
  BY <1>5, UseDialling
<1>6. CASE UNCHANGED pool
  BY <1>2, <1>6
<1>7. CASE \E old \in SUBSET ToSet(pool) : Prune(old)
  BY <1>7, PruneTypes
<1>8. CASE \E c \in Callers : Get(c)
  BY <1>6, <1>8 DEF Get, Receive, sharedVars
<1> QED
  BY <1>3, <1>4, <1>5, <1>6, <1>7, <1>8
  DEF PoolNext, Build, BuildFails, BuildDone, Shutdown, Close, CloseLocks, CloseChannel, Drain,
      TidyingEnds, poolVars, sharedVars

LEMMA ClosingStep ==
  ASSUME Pooled, [PoolNext]_poolVars
  PROVE  Building' /\ Closing'
<1>1. PoolTypeOK /\ Building /\ Closing
  BY DEF Pooled
<1>2. ASSUME NEW c \in Callers, Get(c) PROVE Building' /\ Closing'
  <2>1. stage # "build" /\ UNCHANGED <<stage, lock>>
    BY <1>1, <1>2 DEF Get, Building, mainVars
  <2> QED
    BY <1>1, <2>1 DEF Building, Closing
<1>3. ASSUME NEW c \in Callers, Use(c) PROVE Building' /\ Closing'
  <2>1. pc[c] # "idle"
    BY <1>3 DEF Use, MarkInUse, Grow, DialFails, WaitReceives, WaitEnds, Dialled,
                CheckConnection, Run, Redial, Replace, Release, Unmark, Send
  <2>2. stage # "build"
    BY <1>1, <2>1 DEF Building
  <2>3. stage' \in {stage, "gone"}
    BY <1>3 DEF Use, MarkInUse, Grow, DialFails, WaitReceives, WaitEnds, Dialled,
                CheckConnection, Run, Redial, Replace, Release, Unmark, Send, mainVars
  <2>4. stage \in {"channel", "drain"} => lock' = lock
    <3>1. Dialling(c)
      BY DEF Pooled
    <3>2. lock = Main => pc[c] # "dial" /\ ~ Unlocked
      BY <3>1, PoolAssumption DEF Dialling, Unlocked
    <3> QED
      BY <1>1, <1>3, <3>2
      DEF Closing, Use, MarkInUse, Grow, DialFails, WaitReceives, WaitEnds, Dialled,
          CheckConnection, Run, Redial, Replace, Release, Unmark, Send
  <2> QED
    BY <1>1, <2>2, <2>3, <2>4 DEF Building, Closing
<1>4. CASE Build
  BY <1>1, <1>4 DEF Build, BuildOne, BuildFails, BuildDone, Building, Closing, mainVars
<1>5. CASE Shutdown \/ Close
  BY <1>1, <1>5 DEF Shutdown, Close, CloseLocks, CloseChannel, Drain, Sweep, Building, Closing,
                    mainVars
<1>6. CASE TidyingEnds \/ \E old \in SUBSET ToSet(pool) : Prune(old)
  BY <1>1, <1>6 DEF TidyingEnds, Prune, Building, Closing, mainVars
<1>7. CASE UNCHANGED poolVars
  BY <1>1, <1>7 DEF Building, Closing, poolVars, mainVars, sharedVars
<1> QED
  BY <1>2, <1>3, <1>4, <1>5, <1>6, <1>7 DEF PoolNext

-----------------------------------------------------------------------------
(* The marks.                                                              *)
LEMMA MarkedStep ==
  ASSUME Pooled, [PoolNext]_poolVars, NEW d \in Callers
  PROVE  Marked(d)'
<1>1. /\ PoolTypeOK /\ Ownership /\ Marked(d)
      /\ pc[d] \in Using => held[d] \in Entries
  BY PoolAssumption DEF Pooled, Ownership, Holding
<1>2. UNCHANGED inUse /\ pc'[d] = pc[d] /\ held'[d] = held[d] => Marked(d)'
  BY <1>1 DEF Marked
<1>3. ASSUME NEW c \in Callers, Get(c) PROVE Marked(d)'
  BY <1>1, <1>3 DEF Get, Receive, Go, PoolTypeOK, Marked, Using, sharedVars
<1>4. ASSUME NEW c \in Callers, Use(c) PROVE Marked(d)'
  <2>1. CASE MarkInUse(c)
    BY <1>1, <2>1 DEF MarkInUse, Go, PoolTypeOK, Marked, Ownership, Holding
  <2>2. CASE Grow(c) \/ DialFails(c) \/ WaitReceives(c) \/ WaitEnds(c)
    BY <1>1, <2>2 DEF Grow, DialFails, WaitReceives, WaitEnds, Receive, Go, PoolTypeOK, Marked,
                      Using, sharedVars
  <2>3. ASSUME NEW e \in Entries, Dialled(c, e) PROVE Marked(d)'
    BY <1>1, <2>3 DEF Dialled, Go, PoolTypeOK, Marked
  <2>4. CASE CheckConnection(c) \/ Run(c) \/ Redial(c) \/ Replace(c)
    BY <1>1, <2>4 DEF CheckConnection, Run, Redial, Replace, Go, PoolTypeOK, Marked, Using,
                      sharedVars
  <2>5. CASE Release(c)
    BY <1>1, <2>5 DEF Release, Go, PoolTypeOK, Marked, Using
  <2>6. CASE Unmark(c)
    <3>1. pc'[c] = "send" /\ "send" \notin Using
      BY <1>1, <2>6 DEF Unmark, Go, PoolTypeOK, Using
    <3>2. held[c] # None /\ (d # c => held[d] # held[c] /\ pc'[d] = pc[d])
      BY <1>1, <2>6 DEF Unmark, Go, PoolTypeOK, Ownership, ExclusiveUse, Holding, Using
    <3> QED
      BY <1>1, <2>6, <3>1, <3>2 DEF Unmark, Marked, PoolTypeOK
  <2>7. CASE Send(c)
    BY <1>1, <2>7 DEF Send, Go, PoolTypeOK, Marked, Using
  <2> QED
    BY <1>4, <2>1, <2>2, <2>3, <2>4, <2>5, <2>6, <2>7 DEF Use
<1>5. ASSUME NEW e \in Entries, BuildOne(e) PROVE Marked(d)'
  BY <1>1, <1>5 DEF BuildOne, New, Unused, Reachable, PoolTypeOK, Marked
<1>6. CASE BuildFails \/ BuildDone \/ Shutdown \/ Close \/ TidyingEnds \/ UNCHANGED poolVars
  BY <1>2, <1>6 DEF BuildFails, BuildDone, Shutdown, Close, CloseLocks, CloseChannel, Drain,
                    Sweep, TidyingEnds, poolVars, sharedVars
<1>7. ASSUME NEW old, Prune(old) PROVE Marked(d)'
  BY <1>2, <1>7 DEF Prune
<1> QED
  BY <1>3, <1>4, <1>5, <1>6, <1>7 DEF PoolNext, Build

LEMMA PooledStep ==
  ASSUME Pooled, [PoolNext]_poolVars
  PROVE  Pooled'
<1>1. PoolTypeOK' /\ Building' /\ Closing' /\ \A c \in Callers : Marked(c)' /\ Dialling(c)'
  BY TypesStep, ClosingStep, MarkedStep, DiallingStep
<1>2. Ownership'
  BY OwnershipStep DEF Pooled
<1>3. PoolIsBounded'
  BY BoundedStep
<1> QED
  BY <1>1, <1>2, <1>3 DEF Pooled

(* For any number of callers and any sizes, through the building of the    *)
(* pool, its growth, pruning, a shutdown at any time and the panic of a    *)
(* late return, every variable keeps its type, and the channel never has   *)
(* more entries than its capacity (bird.go:98, 288).                       *)
THEOREM PoolTypes == PoolSpec => []PoolTypeOK
<1>1. Pooled => PoolTypeOK
  BY DEF Pooled
<1> QED
  BY <1>1, InitPooled, PooledStep, PTL DEF PoolSpec

(* However many callers find the channel empty at the same time, and       *)
(* whatever is pruned between their look at the pool and their dial, the   *)
(* pool never exceeds its limit: the lock is kept from the one to the      *)
(* other (bird.go:229-250).                                                *)
THEOREM PoolStaysBounded == PoolSpec => []PoolIsBounded
<1>1. Pooled => PoolIsBounded
  BY DEF Pooled
<1> QED
  BY <1>1, InitPooled, PooledStep, PTL DEF PoolSpec

(* The maintenance, which takes no notice of the callers but their marks,  *)
(* closes no connection under one that has been given it: whatever the     *)
(* age of the entries and wherever in a call its caller is                 *)
(* (bird.go:350-375).                                                      *)
THEOREM MaintenanceSparesUse == PoolSpec => PruneSparesUse
<1>1. ASSUME Pooled, NEW old \in SUBSET ToSet(pool), Prune(old),
             NEW c \in Callers, pc[c] \in Using
      PROVE  conn'[held[c]] = conn[held[c]]
  <2>1. PoolTypeOK /\ Marked(c) /\ held[c] \in Entries
    BY <1>1, PoolAssumption DEF Pooled, Ownership, Holding
  <2>2. inUse[held[c]]
    BY <1>1, <2>1 DEF Marked
  <2>3. held[c] \in ToSet(pool) => held[c] \in ToSet(Kept(old))
    BY <2>1, <2>2, KeptFacts DEF PoolTypeOK
  <2> QED
    BY <1>1, <2>1, <2>3 DEF Prune
<1>2. Pooled /\ [PoolNext]_poolVars =>
        [\A old \in SUBSET ToSet(pool) : Prune(old) =>
           \A c \in Callers : pc[c] \in Using => conn'[held[c]] = conn[held[c]]]_poolVars
  BY <1>1
<1> QED
  BY <1>2, InitPooled, PooledStep, PTL DEF PoolSpec, PruneSparesUse

-----------------------------------------------------------------------------
(* The pool as a lender.  The channel is closed, and the last stages are   *)
(* entered, after the shutdown only, so that a panic comes with it.        *)
Ending ==
  /\ sealed => shutdown
  /\ stage \in {"build", "open"} \/ shutdown
  /\ stage = "build" => ~ shutdown

LEMMA EndingStep ==
  ASSUME Pooled, Ending, [PoolNext]_poolVars
  PROVE  Ending'
<1>1. UNCHANGED <<sealed, shutdown, stage>> => Ending'
  BY DEF Ending
<1>2. ASSUME NEW c \in Callers, Get(c) PROVE Ending'
  BY <1>1, <1>2 DEF Get, Receive, sharedVars, mainVars
<1>3. ASSUME NEW c \in Callers, Use(c) PROVE Ending'
  <2>1. CASE Send(c)
    BY <2>1 DEF Send, Ending
  <2>2. CASE ~ Send(c)
    <3>1. UNCHANGED <<sealed, shutdown, stage>>
      BY <1>3, <2>2 DEF Use, MarkInUse, Grow, DialFails, WaitReceives, WaitEnds, Dialled, Receive,
           CheckConnection, Run, Redial, Replace, Release, Unmark, sharedVars, mainVars
    <3> QED
      BY <1>1, <3>1
  <2> QED
    BY <2>1, <2>2
<1>4. CASE Build \/ Shutdown
  BY <1>4 DEF Build, BuildOne, BuildFails, BuildDone, Shutdown, Ending, sharedVars, mainVars
<1>5. CASE Close
  BY <1>5 DEF Close, CloseLocks, CloseChannel, Drain, Sweep, Ending, sharedVars, mainVars
<1>6. ASSUME NEW old, Prune(old) PROVE Ending'
  BY <1>1, <1>6 DEF Prune, mainVars
<1>7. CASE TidyingEnds \/ UNCHANGED poolVars
  BY <1>1, <1>7 DEF TidyingEnds, poolVars, sharedVars, mainVars
<1> QED
  BY <1>2, <1>3, <1>4, <1>5, <1>6, <1>7 DEF PoolNext

Lender == Pooled /\ Ending

(* Who has been lent an entry has it marked and nobody else has it.        *)
LEMMA LentFacts ==
  ASSUME Lender, NEW c \in Callers
  PROVE  /\ pc \in [Callers -> Place] /\ held \in [Callers -> Entries \cup {None}]
         /\ conn \in [Entries -> Conn]
         /\ pc[c] \in Holding => held[c] \in Entries /\ held[c] # None
         /\ pc[c] \in Holding => \A d \in Callers : d # c => Lent(d) # held[c]
         /\ Lent(c) # None => pc[c] \in Using /\ Lent(c) = held[c] /\ inUse[held[c]]
         /\ pc[c] \in Using => Lent(c) = held[c]
         /\ pc[c] \notin Using => Lent(c) = None
<1>1. Ownership /\ PoolTypeOK /\ Marked(c)
  BY DEF Lender, Pooled
<1>2. pc[c] \in Holding => held[c] \in Entries /\ held[c] # None
  BY <1>1 DEF Ownership
<1>3. ASSUME pc[c] \in Holding, NEW d \in Callers, d # c PROVE Lent(d) # held[c]
  BY <1>1, <1>2, <1>3 DEF Ownership, ExclusiveUse, Lent
<1> QED
  BY <1>1, <1>2, <1>3 DEF PoolTypeOK, Lent, Marked

(* The leases as a function, and what a step of one caller makes of it.    *)
Leases == [c \in Callers |-> Lent(c)]

LEMMA LeasesMove ==
  ASSUME NEW c \in Callers, NEW v, Lent(c)' = v,
         \A d \in Callers : d # c => Lent(d)' = Lent(d)
  PROVE  Leases' = [Leases EXCEPT ![c] = v]
  BY DEF Leases

(* A step of c that changes neither where others are nor what they have.   *)
Alone(c) == \A d \in Callers : d # c => pc'[d] = pc[d] /\ held'[d] = held[d]

LEMMA OthersStay ==
  ASSUME NEW c \in Callers, Alone(c)
  PROVE  \A d \in Callers : d # c => Lent(d)' = Lent(d)
  BY DEF Alone, Lent

Loan == [Loans!LeaseNext]_(Loans!leaseVars)

(* Nothing the callers have been lent changes, nor any connection.         *)
LEMMA LoansStay ==
  ASSUME UNCHANGED <<conn, shutdown>>, \A d \in Callers : Lent(d)' = Lent(d)
  PROVE  Loan
<1>1. [c \in Callers |-> Lent(c)]' = [c \in Callers |-> Lent(c)]
  OBVIOUS
<1> QED
  BY <1>1 DEF Loan, Loans!leaseVars

LEMMA LoanStays ==
  ASSUME Lender, NEW c \in Callers, NEW place \in Place, Go(c, place),
         UNCHANGED <<conn, shutdown>>,
         \/ pc[c] \in Using /\ place \in Using /\ held' = held
         \/ pc[c] \notin Using /\ place \notin Using /\ Alone(c)
  PROVE  Loan
<1>1. pc \in [Callers -> Place]
  BY LentFacts
<1>2. pc'[c] = place /\ Alone(c)
  BY <1>1 DEF Go, Alone
<1>3. Lent(c)' = Lent(c)
  BY <1>2 DEF Lent
<1> QED
  BY <1>2, <1>3, OthersStay, LoansStay

LEMMA Borrows ==
  ASSUME Lender, NEW c \in Callers, NEW e \in Entries,
         Go(c, "check"), held' = [held EXCEPT ![c] = e], UNCHANGED shutdown,
         pc[c] \notin Using, \A d \in Callers : Lent(d) # e,
         \/ conn' = conn
         \/ conn[e] # "open" /\ conn' = [conn EXCEPT ![e] = "open"]
  PROVE  Loan
<1>1. /\ pc \in [Callers -> Place] /\ held \in [Callers -> Entries \cup {None}]
      /\ Lent(c) = None
  BY LentFacts
<1>2. pc'[c] = "check" /\ held'[c] = e /\ Alone(c)
  BY <1>1 DEF Go, Alone
<1>3. Lent(c)' = e
  BY <1>2 DEF Lent, Using
<1>4. Leases' = [Leases EXCEPT ![c] = e] /\ Leases[c] = None
  BY <1>1, <1>2, <1>3, OthersStay, LeasesMove DEF Leases
<1>5. Loans!Borrow(c, e)
  BY <1>4 DEF Loans!Borrow, Loans!Free, Leases
<1> QED
  BY <1>5 DEF Loan, Loans!LeaseNext

LEMMA GivesBack ==
  ASSUME Lender, NEW c \in Callers, NEW place \in {"idle", "send"},
         Go(c, place), Alone(c), UNCHANGED shutdown, pc[c] \in Using,
         \/ conn' = conn
         \/ shutdown /\ \E as \in {"none", "closed"} : conn' = [conn EXCEPT ![held[c]] = as]
  PROVE  Loan
<1>1. /\ pc \in [Callers -> Place] /\ Lent(c) = held[c] /\ Lent(c) # None
  BY LentFacts DEF Holding
<1>2. Lent(c)' = None
  BY <1>1 DEF Go, Lent, Using
<1>3. Leases' = [Leases EXCEPT ![c] = None] /\ Leases[c] = held[c] /\ Leases[c] # None
  BY <1>1, <1>2, OthersStay, LeasesMove DEF Leases
<1>4. Loans!Return(c)
  BY <1>3 DEF Loans!Return, Leases
<1> QED
  BY <1>4 DEF Loan, Loans!LeaseNext

LEMMA UseLoan ==
  ASSUME Lender, NEW c \in Callers, Use(c)
  PROVE  Loan
<1>1. /\ pc \in [Callers -> Place] /\ held \in [Callers -> Entries \cup {None}]
      /\ conn \in [Entries -> Conn]
      /\ pc[c] \in Holding => held[c] \in Entries /\ held[c] # None
      /\ pc[c] \in Holding => \A d \in Callers : d # c => Lent(d) # held[c]
      /\ pc[c] \in Using => Lent(c) = held[c]
      /\ pc[c] \notin Using => Lent(c) = None
  BY LentFacts
<1>2. CASE MarkInUse(c)
  <2>1. held[c] \in Entries /\ pc[c] \notin Using /\ \A d \in Callers : Lent(d) # held[c]
    BY <1>1, <1>2 DEF MarkInUse, Holding, Using
  <2>2. held' = [held EXCEPT ![c] = held[c]]
    BY <1>1, <1>2 DEF MarkInUse
  <2> QED
    BY <1>2, <2>1, <2>2, Borrows DEF MarkInUse
<1>3. CASE Grow(c) \/ DialFails(c) \/ WaitEnds(c)
  <2>1. UNCHANGED <<conn, shutdown>> /\ held' = held /\ pc[c] \notin Using
    BY <1>3 DEF Grow, DialFails, WaitEnds, sharedVars, Using
  <2>2. \E place \in Place \ Using : Go(c, place)
    BY <1>3 DEF Grow, DialFails, WaitEnds, Place, Using
  <2> QED
    BY <1>1, <2>1, <2>2, LoanStays DEF Alone, Go
<1>4. CASE WaitReceives(c)
  <2>1. UNCHANGED <<conn, shutdown>> /\ pc[c] \notin Using
    BY <1>4 DEF WaitReceives, Receive, Using
  <2>2. \E place \in Place \ Using : Go(c, place)
    BY <1>4 DEF WaitReceives, Receive, Place, Using
  <2>3. Alone(c)
    BY <1>1, <1>4 DEF WaitReceives, Receive, Alone, Go
  <2> QED
    BY <2>1, <2>2, <2>3, LoanStays
<1>5. ASSUME NEW e \in Entries, Dialled(c, e) PROVE Loan
  <2>1. \A d \in Callers : held[d] # e
    BY <1>5 DEF Dialled, New, Unused, Reachable
  <2>2. \A d \in Callers : Lent(d) # e
    BY <2>1, PoolAssumption DEF Lent
  <2>3. conn[e] # "open" /\ pc[c] \notin Using
    BY <1>5 DEF Dialled, New, Unused, Using
  <2> QED
    BY <1>5, <2>2, <2>3, Borrows DEF Dialled
<1>6. CASE CheckConnection(c) \/ Run(c) \/ Redial(c)
  <2>1. UNCHANGED <<conn, shutdown>> /\ held' = held /\ pc[c] \in Using
    BY <1>6 DEF CheckConnection, Run, Redial, sharedVars, Using
  <2>2. \E place \in Place : place \in Using /\ Go(c, place)
    BY <1>6 DEF CheckConnection, Run, Redial, Place, Using
  <2> QED
    BY <2>1, <2>2, LoanStays
<1>7. CASE Replace(c)
  <2>1. /\ pc[c] \in Using /\ held' = held /\ shutdown' = shutdown
        /\ conn' = [conn EXCEPT ![held[c]] = "open"]
    BY <1>7 DEF Replace, Using
  <2>2. pc'[c] \in Using /\ Alone(c)
    BY <1>1, <1>7 DEF Replace, Go, Alone, Using
  <2>3. Lent(c)' = Lent(c) /\ Lent(c) = held[c] /\ Lent(c) # None
    BY <1>1, <2>1, <2>2 DEF Lent, Holding
  <2>4. Leases' = Leases /\ Leases[c] = held[c] /\ Leases[c] # None
    BY <2>2, <2>3, OthersStay DEF Leases
  <2>5. Loans!Renew(c)
    BY <2>1, <2>4 DEF Loans!Renew, Leases
  <2> QED
    BY <2>5 DEF Loan, Loans!LeaseNext
<1>8. CASE Release(c)
  <2>1. pc[c] \in Using /\ shutdown' = shutdown
    BY <1>8 DEF Release, Using
  <2>2. CASE /\ shutdown /\ Go(c, "idle") /\ held' = [held EXCEPT ![c] = None]
             /\ conn' = [conn EXCEPT ![held[c]] = IF @ = "open" THEN "closed" ELSE @]
    <3>1. Alone(c)
      BY <1>1, <2>2 DEF Alone, Go
    <3>2. conn' = conn \/ conn' = [conn EXCEPT ![held[c]] = "closed"]
      BY <1>1, <2>1, <2>2 DEF Holding
    <3> QED
      BY <2>1, <2>2, <3>1, <3>2, GivesBack
  <2>3. CASE Go(c, "unmark") /\ UNCHANGED <<conn, held>>
    BY <2>1, <2>3, LoanStays DEF Place, Using
  <2> QED
    BY <1>8, <2>2, <2>3 DEF Release
<1>9. CASE Unmark(c)
  <2>1. Alone(c) /\ pc[c] \in Using
    BY <1>1, <1>9 DEF Unmark, Alone, Go, Using
  <2> QED
    BY <1>9, <2>1, GivesBack DEF Unmark
<1>10. CASE Send(c)
  <2>1. UNCHANGED <<conn, shutdown>> /\ pc[c] \notin Using
    BY <1>10 DEF Send, Using
  <2>2. CASE sealed /\ pc' = [d \in Callers |-> "gone"]
    <3>1. shutdown
      BY <2>2 DEF Lender, Ending
    <3>2. \A d \in Callers : Lent(d)' = None
      BY <2>2 DEF Lent, Using
    <3>3. Leases' = [d \in Callers |-> None]
      BY <3>2 DEF Leases
    <3>4. Loans!Panic
      BY <2>1, <3>1, <3>3 DEF Loans!Panic, Leases
    <3> QED
      BY <3>4 DEF Loan, Loans!LeaseNext
  <2>3. CASE held' = [held EXCEPT ![c] = None] /\ Go(c, "idle")
    <3>1. Alone(c)
      BY <1>1, <2>3 DEF Alone, Go
    <3> QED
      BY <2>1, <2>3, <3>1, LoanStays DEF Place, Using
  <2> QED
    BY <1>10, <2>2, <2>3 DEF Send
<1> QED
  BY <1>2, <1>3, <1>4, <1>5, <1>6, <1>7, <1>8, <1>9, <1>10 DEF Use

(* What main and the maintenance do while callers stay where they are.     *)
LEMMA CloserLoan ==
  ASSUME Lender, UNCHANGED <<pc, held>>, NEW dropped \in SUBSET Entries,
         conn' = [e \in Entries |-> IF e \in dropped THEN "none" ELSE conn[e]]
           \/ conn' = [e \in Entries |-> IF e \in dropped THEN "closed" ELSE conn[e]],
         shutdown' = TRUE
  PROVE  Loan
<1>1. \A d \in Callers : Lent(d)' = Lent(d)
  BY DEF Lent
<1>2. Leases' = Leases
  BY <1>1 DEF Leases
<1>3. PICK as \in {"none", "closed"} :
        conn' = [e \in Entries |-> IF e \in dropped THEN as ELSE conn[e]]
  OBVIOUS
<1>4. Loans!Shut(dropped, as)
  BY <1>2, <1>3 DEF Loans!Shut, Leases
<1> QED
  BY <1>4 DEF Loan, Loans!LeaseNext

LEMMA RangeOf == ASSUME NEW S, NEW s \in Seq(S) PROVE ToSet(s) \subseteq S
  BY DEF ToSet

LEMMA MainLoan ==
  ASSUME Lender, Build \/ Shutdown \/ Close
  PROVE  Loan
<1>1. /\ conn \in [Entries -> Conn] /\ shutdown \in BOOLEAN
      /\ pool \in Seq(Entries) /\ available \in Seq(Entries)
      /\ stage \in {"build", "open"} \/ shutdown
      /\ stage = "build" => ~ shutdown
  BY DEF Lender, Pooled, PoolTypeOK, Ending
<1>2. UNCHANGED <<pc, held>> => Leases' = Leases /\ \A d \in Callers : Lent(d)' = Lent(d)
  BY DEF Lent, Leases
<1>3. ASSUME NEW e \in Entries, BuildOne(e) PROVE Loan
  <2>1. conn[e] # "open" /\ \A d \in Callers : held[d] # e
    BY <1>3 DEF BuildOne, New, Unused, Reachable
  <2>2. \A d \in Callers : Leases[d] # e
    BY <2>1, PoolAssumption DEF Lent, Leases
  <2>3. Leases' = Leases /\ shutdown' = shutdown /\ conn' = [conn EXCEPT ![e] = "open"]
    BY <1>2, <1>3 DEF BuildOne
  <2>4. ~ shutdown
    BY <1>1, <1>3 DEF BuildOne
  <2>5. Loans!Stock(e)
    BY <2>1, <2>2, <2>3, <2>4 DEF Loans!Stock, Loans!Free, Leases
  <2> QED
    BY <2>5 DEF Loan, Loans!LeaseNext
<1>4. CASE BuildFails \/ Shutdown
  <2>1. UNCHANGED <<pc, held>> /\ shutdown' = TRUE
    BY <1>4 DEF BuildFails, Shutdown
  <2> DEFINE dropped == {}
  <2>2. conn' = [e \in Entries |-> IF e \in dropped THEN "none" ELSE conn[e]]
    BY <1>1, <1>4 DEF BuildFails, Shutdown
  <2>3. dropped \in SUBSET Entries
    OBVIOUS
  <2> HIDE DEF dropped
  <2> QED
    BY <2>1, <2>2, <2>3, CloserLoan
<1>5. CASE BuildDone \/ CloseLocks \/ CloseChannel
  BY <1>2, <1>5, LoansStay DEF BuildDone, CloseLocks, CloseChannel, sharedVars
<1>6. CASE Drain
  <2> DEFINE h == Head(available)
  <2>1. h \in Entries
    BY <1>1, <1>6, TailOf DEF Drain
  <2>2. /\ UNCHANGED <<pc, held>> /\ shutdown' = TRUE
        /\ conn' = [conn EXCEPT ![h] = IF @ = "open" THEN "closed" ELSE @]
    BY <1>1, <1>6 DEF Drain
  <2> HIDE DEF h
  <2>3. CASE conn[h] = "open"
    <3>1. conn' = [e \in Entries |-> IF e \in {h} THEN "closed" ELSE conn[e]]
      BY <1>1, <2>1, <2>2, <2>3
    <3>2. {h} \subseteq Entries
      BY <2>1
    <3> QED
      BY <2>2, <3>1, <3>2, CloserLoan
  <2>4. CASE conn[h] # "open"
    <3>1. conn' = conn
      BY <1>1, <2>1, <2>2, <2>4
    <3>2. shutdown' = shutdown
      BY <1>6 DEF Drain
    <3> QED
      BY <1>2, <2>2, <3>1, <3>2, LoansStay
  <2> QED
    BY <2>3, <2>4
<1>7. CASE Sweep
  <2>1. ToSet(pool) \subseteq Entries
    BY <1>1, RangeOf
  <2>2. /\ UNCHANGED <<pc, held>> /\ shutdown' = TRUE
        /\ conn' = [e \in Entries |-> IF e \in ToSet(pool) THEN "none" ELSE conn[e]]
    BY <1>1, <1>7 DEF Sweep
  <2> QED
    BY <2>1, <2>2, CloserLoan
<1> QED
  BY <1>3, <1>4, <1>5, <1>6, <1>7 DEF Build, Close

LEMMA PruneLoan ==
  ASSUME Lender, NEW old, Prune(old)
  PROVE  Loan
<1> DEFINE dropped == ToSet(pool) \ ToSet(Kept(old))
<1>1. pool \in Seq(Entries) /\ ToSet(pool) \subseteq Entries
  BY RangeOf DEF Lender, Pooled, PoolTypeOK
<1>2. ASSUME NEW e \in dropped, NEW d \in Callers PROVE Leases[d] # e
  <2>1. ~ inUse[e] /\ e \in Entries
    BY <1>1, KeptFacts
  <2>2. Lent(d) # None => inUse[Lent(d)]
    BY LentFacts
  <2>3. Lent(d) # e
    BY <2>1, <2>2, PoolAssumption
  <2> QED
    BY <2>3 DEF Leases
<1>3. /\ UNCHANGED <<pc, held, shutdown>>
      /\ conn' = [e \in Entries |-> IF e \in dropped THEN "none" ELSE conn[e]]
  BY DEF Prune
<1>4. Leases' = Leases
  BY <1>3 DEF Lent, Leases
<1>5. dropped \in SUBSET Entries
  BY <1>1
<1> HIDE DEF dropped
<1>6. Loans!Trim(dropped)
  BY <1>2, <1>3, <1>4 DEF Loans!Trim, Loans!Free, Leases
<1> QED
  BY <1>5, <1>6 DEF Loan, Loans!LeaseNext

LEMMA LoanStep ==
  ASSUME Lender, [PoolNext]_poolVars
  PROVE  Loan
<1>1. ASSUME NEW c \in Callers, Get(c) PROVE Loan
  <2>1. UNCHANGED <<conn, shutdown>> /\ pc[c] \notin Using
    BY <1>1 DEF Get, Receive, sharedVars, Using
  <2>2. \E place \in Place \ Using : Go(c, place)
    BY <1>1 DEF Get, Receive, Place, Using
  <2>3. Alone(c)
    BY <1>1, <2>2, LentFacts DEF Get, Receive, Alone, Go
  <2> QED
    BY <2>1, <2>2, <2>3, LoanStays
<1>2. CASE TidyingEnds \/ UNCHANGED poolVars
  BY <1>2, LoansStay DEF TidyingEnds, poolVars, sharedVars, Lent
<1> QED
  BY <1>1, <1>2, UseLoan, MainLoan, PruneLoan DEF PoolNext

(* BirdPool implements Lease: through concurrent growth, timeouts, entries *)
(* without a connection, reconnects, pruning, a shutdown at any moment and *)
(* the panic of a late return, every step lends, renews or takes back one  *)
(* entry, changes connections nobody has been lent, or comes with the      *)
(* shutdown (bird.go:203-294, 350-424).                                    *)
THEOREM PoolLends == PoolSpec => LendsOneByOne
<1>1. PoolInit => Loans!LeaseInit
  BY DEF PoolInit, Loans!LeaseInit, Lent, Using
<1>2. PoolInit => Lender
  BY InitPooled DEF PoolInit, Lender, Ending
<1>3. Lender /\ [PoolNext]_poolVars => Lender'
  BY PooledStep, EndingStep DEF Lender
<1>4. Lender /\ [PoolNext]_poolVars => [Loans!LeaseNext]_(Loans!leaseVars)
  BY LoanStep DEF Loan
<1> QED
  BY <1>1, <1>2, <1>3, <1>4, PTL DEF PoolSpec, LendsOneByOne, Loans!LeaseSpec
=============================================================================
