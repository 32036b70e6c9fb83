------------------------- MODULE SessionSync_proofs -------------------------
(***************************************************************************)
(* Proofs about SessionSync, for every value of its constants: what a call *)
(* of syncSessions has in hand, that calls do not overlap, and that        *)
(* SessionSync implements SessionTable.                                    *)
(***************************************************************************)
EXTENDS SessionSync, TLAPS

(* Where a call is tells what it has in hand: nothing between sessions, a  *)
(* record while it sets up, answers or rejects, an entry to be removed     *)
(* while it tears down; and the sessions ahead of it are in the answer, or *)
(* in the local table once it removes what the answer does not list.       *)
AtRest  == {"idle", "fetch", "sessions", "gone"}
Working == {"invalid", "iface", "bird", "report", "ack"}
Tearing == {"delIface", "delBird"}

HandOK(p) ==
  /\ pc[p] \in AtRest => cur[p] = None
  /\ pc[p] \in Working => cur[p] \in Hand /\ cur[p].rec # None
  /\ pc[p] \in Tearing => cur[p] \in Hand /\ cur[p].old # None
  /\ pc[p] = "ack" => cur[p].rec.status = "QUEUED_FOR_DELETE"
  /\ pc[p] \in Tearing /\ cur[p].rec # None
       => cur[p].rec.status \in ToRemove \cup {"QUEUED_FOR_DELETE"}

TodoOK(p) ==
  /\ ~ InRemoval(p) => todo[p] \subseteq Present(remote[p])
  /\ InRemoval(p) => todo[p] \subseteq Present(local) \ Present(remote[p])

(* A call that is not under way has no table of its own.                   *)
FreshOK(p) == pc[p] \in {"idle", "fetch"} => next[p] = Empty /\ todo[p] = {}

Shape ==
  /\ TypeOK
  /\ SingleSync
  /\ \A p \in Procs : HandOK(p) /\ TodoOK(p) /\ FreshOK(p)

-----------------------------------------------------------------------------
(* The branch taken for a record determines its status.                    *)
LEMMA BranchFacts ==
  ASSUME NEW rec \in BgpSession, NEW old
  PROVE  /\ Branch(rec, old) \in {"iface", "ack", "delIface", "sessions"}
         /\ Branch(rec, old) = "ack" => rec.status = "QUEUED_FOR_DELETE"
         /\ Branch(rec, old) = "delIface" =>
              old # None /\ rec.status \in ToRemove \cup {"QUEUED_FOR_DELETE"}
         /\ Branch(rec, old) = "sessions" => rec.status \notin ToSetUp
  BY DEF Branch, BgpSession, Status, ToSetUp, ToRemove

(* Every call of the environment keeps the node's state well formed.       *)
LEMMA MadeType ==
  ASSUME NEW u \in Sessions, NEW c \in Cfgs, NEW w \in BOOLEAN
  PROVE  /\ Made(u, c, w) \in Resource
         /\ Made(u, c, w) # None
         /\ IfaceOf[c] \in Ifaces
         /\ File(c) \in Files
  BY ConfigAssumption, NoneAssumption DEF Made, Resource, File

LEMMA FaultType ==
  ASSUME ProvTypeOK, NEW k, Fault(k)
  PROVE  faults' \in 0 .. MaxFaults
  BY ConfigAssumption DEF ProvTypeOK, Fault

LEMMA StillThereType ==
  ASSUME ProvTypeOK, NEW i \in Ifaces
  PROVE  StillThere(i) \subseteq Resource \cup {None}
  BY NoneAssumption DEF ProvTypeOK, StillThere, Resource

LEMMA ReloadType ==
  ASSUME ProvTypeOK, NEW files \in [Files -> Resource \cup {None}], BirdConfigure(files)
  PROVE  loaded' \in [Files -> Resource \cup {None}] /\ faults' \in 0 .. MaxFaults
  BY FaultType DEF BirdConfigure, Parsed, ProvTypeOK, Resource

LEMMA ConfigureInterfaceType ==
  ASSUME ProvTypeOK, NEW u \in Sessions, NEW c \in Cfgs, NEW ok \in BOOLEAN,
         ConfigureInterface(u, c, ok)
  PROVE  ProvTypeOK'
<1> DEFINE i == IfaceOf[c]
<1>1. i \in Ifaces
  BY MadeType
<1>2. StillThere(i) \subseteq Resource \cup {None}
  BY <1>1, StillThereType
<1>3. Made(u, c, TRUE) \in Resource /\ Made(u, c, FALSE) \in Resource
  BY MadeType
<1>4. conf' = conf /\ loaded' = loaded
  BY DEF ConfigureInterface
<1>5. faults' \in 0 .. MaxFaults
  BY FaultType DEF ConfigureInterface, EnsureProbeRoute, ProvTypeOK
<1>6. routes' \subseteq Ifaces
  <2>1. routes' \in {routes, routes \cup {i}, routes \ {i}}
    BY DEF ConfigureInterface, EnsureProbeRoute, RoutesAfter
  <2> QED
    BY <1>1, <2>1 DEF ProvTypeOK
<1>7. link' \in [Ifaces -> Resource \cup {None}]
  BY <1>1, <1>2, <1>3 DEF ConfigureInterface, HalfMade, ProvTypeOK
<1> QED
  BY <1>4, <1>5, <1>6, <1>7 DEF ProvTypeOK

LEMMA DeleteInterfaceType ==
  ASSUME ProvTypeOK, NEW c \in Cfgs, DeleteInterface(c)
  PROVE  ProvTypeOK'
<1> DEFINE i == IfaceOf[c]
<1>1. i \in Ifaces
  BY ConfigAssumption
<1>2. StillThere(i) \subseteq Resource \cup {None}
  BY <1>1, StillThereType
<1>3. faults' \in 0 .. MaxFaults
  BY FaultType DEF DeleteInterface, ProvTypeOK
<1>4. routes' \subseteq Ifaces
  BY DEF DeleteInterface, RemoveProbeRoute, RoutesAfter, ProvTypeOK
<1>5. link' \in [Ifaces -> Resource \cup {None}]
  BY <1>1, <1>2 DEF DeleteInterface, ProvTypeOK
<1> QED
  BY <1>3, <1>4, <1>5 DEF DeleteInterface, ProvTypeOK

LEMMA WriteFailsType ==
  ASSUME ProvTypeOK, NEW u \in Sessions, NEW c \in Cfgs, WriteFails(u, c)
  PROVE  /\ conf' \in [Files -> Resource \cup {None}]
         /\ loaded' = loaded
         /\ faults' \in 0 .. MaxFaults
<1>1. Made(u, c, FALSE) \in Resource /\ File(c) \in Files
  BY MadeType
<1> QED
  BY <1>1, FaultType DEF WriteFails, ProvTypeOK

LEMMA ConfigureBirdType ==
  ASSUME ProvTypeOK, NEW u \in Sessions, NEW c \in Cfgs, NEW ok \in BOOLEAN,
         ConfigureBird(u, c, ok)
  PROVE  ProvTypeOK'
<1>1. Made(u, c, TRUE) \in Resource /\ File(c) \in Files
  BY MadeType
<1>2. CASE ok
  <2>1. conf' \in [Files -> Resource \cup {None}] /\ BirdConfigure(conf')
    BY <1>1, <1>2 DEF ConfigureBird, ProvTypeOK
  <2> QED
    BY <2>1, ReloadType DEF ConfigureBird, ProvTypeOK
<1>3. CASE ~ok
  BY <1>3, WriteFailsType DEF ConfigureBird, ProvTypeOK
<1> QED
  BY <1>2, <1>3

LEMMA DeleteBirdType ==
  ASSUME ProvTypeOK, NEW c \in Cfgs, DeleteBird(c)
  PROVE  ProvTypeOK'
<1>1. File(c) \in Files
  BY ConfigAssumption DEF File
<1>2. CASE conf' = [conf EXCEPT ![File(c)] = None] /\ BirdConfigure(conf')
  <2>1. conf' \in [Files -> Resource \cup {None}]
    BY <1>1, <1>2 DEF ProvTypeOK
  <2> QED
    BY <1>2, <2>1, ReloadType DEF DeleteBird, ProvTypeOK
<1>3. CASE UNCHANGED <<conf, loaded>> /\ faults' \in 0 .. MaxFaults
  BY <1>3 DEF DeleteBird, ProvTypeOK
<1> QED
  BY <1>2, <1>3, FaultType DEF DeleteBird, ProvTypeOK

-----------------------------------------------------------------------------
(* A call under way is alone: the others are idle and hold nothing.        *)
LEMMA Alone ==
  ASSUME Shape, NEW p \in Procs, pc[p] # "idle"
  PROVE  /\ running = TRUE
         /\ \A q \in Procs : q # p => /\ pc[q] = "idle"
                                     /\ cur[q] = None
                                     /\ todo[q] = {}
                                     /\ next[q] = Empty
  BY DEF Shape, SingleSync, HandOK, FreshOK, AtRest, TypeOK

(* A step of call p that leaves it under way, the local table alone and    *)
(* the other calls alone keeps Shape when it does so for call p.           *)
LEMMA OwnStep ==
  ASSUME Shape, NEW p \in Procs, pc[p] # "idle",
         TypeOK', pc'[p] # "idle",
         UNCHANGED <<running, local>>,
         \A q \in Procs : q # p => /\ pc'[q] = pc[q]
                                 /\ cur'[q] = cur[q]
                                 /\ todo'[q] = todo[q]
                                 /\ remote'[q] = remote[q]
                                 /\ next'[q] = next[q],
         HandOK(p)', TodoOK(p)', FreshOK(p)'
  PROVE  Shape'
<1>1. \A q \in Procs : q # p => pc[q] = "idle"
  BY Alone
<1>2. SingleSync'
  BY <1>1, Alone DEF SingleSync
<1>3. ASSUME NEW q \in Procs, q # p
      PROVE  HandOK(q)' /\ TodoOK(q)' /\ FreshOK(q)'
  <2>1. HandOK(q) /\ TodoOK(q) /\ FreshOK(q)
    BY DEF Shape
  <2>2. HandOK(q)'
    BY <1>3, <2>1 DEF HandOK
  <2>3. TodoOK(q)'
    BY <1>3, <2>1 DEF TodoOK, InRemoval, Present
  <2>4. FreshOK(q)'
    BY <1>3, <2>1 DEF FreshOK
  <2> QED
    BY <2>2, <2>3, <2>4
<1> QED
  BY <1>2, <1>3 DEF Shape

LEMMA EmptyIsTable == Empty \in Table /\ Present(Empty) = {}
  BY DEF Empty, Table, Present

LEMMA ReportType ==
  ASSUME ProvTypeOK, center \in Table, edits \in 0 .. MaxEdits,
         NEW u \in Sessions, NEW status \in Status, NEW ok, Report(u, status, ok)
  PROVE  ProvTypeOK' /\ center' \in Table /\ edits' \in 0 .. MaxEdits
<1>1. faults' \in 0 .. MaxFaults
  BY FaultType DEF Report, ProvTypeOK
<1>2. ProvTypeOK'
  BY <1>1 DEF ProvTypeOK, Report
<1>3. center' \in Table
  BY DEF Report, Table, BgpSession
<1> QED
  BY <1>2, <1>3 DEF Report

LEMMA InitShape == Init => Shape
<1> SUFFICES ASSUME Init PROVE Shape
  OBVIOUS
<1>1. TypeOK
  <2>1. ProvTypeOK
    BY ConfigAssumption DEF Init, ProvInit, ProvTypeOK
  <2>2. center \in Table
    BY DEF Init, Table, BgpSession, Status
  <2>3. local \in Table /\ remote \in [Procs -> Table] /\ next \in [Procs -> Table]
    BY EmptyIsTable DEF Init
  <2>4. running \in BOOLEAN /\ pc \in [Procs -> Place] /\ todo \in [Procs -> SUBSET Sessions]
    BY DEF Init, Place
  <2>5. cur \in [Procs -> Hand \cup {None}]
    BY DEF Init
  <2>6. edits \in 0 .. MaxEdits /\ restarts \in 0 .. MaxRestarts
    BY SyncAssumption DEF Init
  <2> QED
    BY <2>1, <2>2, <2>3, <2>4, <2>5, <2>6 DEF TypeOK
<1>2. \A p \in Procs : HandOK(p) /\ TodoOK(p) /\ FreshOK(p)
  BY DEF Init, HandOK, TodoOK, FreshOK, AtRest, Working, Tearing, InRemoval
<1>3. SingleSync
  BY DEF Init, SingleSync
<1> QED
  BY <1>1, <1>2, <1>3 DEF Shape

LEMMA StartSyncShape ==
  ASSUME Shape, NEW p \in Procs, StartSync(p)
  PROVE  Shape'
<1>1. TypeOK'
  BY DEF Shape, TypeOK, ProvTypeOK, StartSync, Place, provVars, tableVars
<1>2. SingleSync'
  BY DEF Shape, TypeOK, SingleSync, StartSync
<1>3. \A q \in Procs : HandOK(q)' /\ TodoOK(q)' /\ FreshOK(q)'
  BY DEF Shape, TypeOK, StartSync, HandOK, TodoOK, FreshOK, InRemoval, AtRest, Working, Tearing, Present
<1> QED
  BY <1>1, <1>2, <1>3 DEF Shape

LEMMA ReturnShape ==
  ASSUME Shape, NEW p \in Procs, pc[p] # "idle", Return(p),
         ProvTypeOK', local' \in Table,
         UNCHANGED <<tableVars, restarts>>
  PROVE  Shape'
<1>1. TypeOK'
  BY EmptyIsTable DEF Shape, TypeOK, Return, tableVars, Place
<1>2. \A q \in Procs : pc'[q] = "idle" /\ cur'[q] = None /\ todo'[q] = {} /\ next'[q] = Empty
  BY Alone DEF Shape, TypeOK, Return
<1>3. SingleSync'
  BY <1>2 DEF SingleSync, Return
<1>4. \A q \in Procs : HandOK(q)' /\ TodoOK(q)' /\ FreshOK(q)'
  BY <1>2 DEF HandOK, TodoOK, FreshOK, InRemoval, AtRest, Working, Tearing
<1> QED
  BY <1>1, <1>3, <1>4 DEF Shape

LEMMA FetchShape ==
  ASSUME Shape, NEW p \in Procs, Fetch(p)
  PROVE  Shape'
<1>1. TypeOK'
  BY DEF Shape, TypeOK, ProvTypeOK, Fetch, Place, Present, provVars, tableVars
<1>2. HandOK(p)' /\ TodoOK(p)' /\ FreshOK(p)'
  BY DEF Shape, TypeOK, Fetch, HandOK, TodoOK, FreshOK, InRemoval, AtRest, Working, Tearing, Present
<1> QED
  BY <1>1, <1>2, OwnStep DEF Fetch, Shape, TypeOK

(* A record keeps its configuration when its status is set.                *)
LEMMA WithStatus ==
  ASSUME NEW rec \in BgpSession, NEW status \in Status
  PROVE  LET new == [rec EXCEPT !.status = status] IN
         /\ new \in BgpSession
         /\ new # None
         /\ new.status = status
         /\ new.cfg = rec.cfg
  BY RecordAssumption DEF BgpSession

(* Going to another place with a record leaves the hand well formed.       *)
LEMMA GotoHand ==
  ASSUME TypeOK, NEW p \in Procs, cur[p] \in Hand, NEW place,
         NEW rec \in BgpSession \cup {None}, Goto(p, place, rec)
  PROVE  /\ cur' \in [Procs -> Hand \cup {None}]
         /\ cur'[p] \in Hand
         /\ cur'[p].rec = rec
         /\ cur'[p].sess = cur[p].sess
         /\ cur'[p].old = cur[p].old
         /\ pc'[p] = place
         /\ next' = next
         /\ \A q \in Procs : q # p => cur'[q] = cur[q] /\ pc'[q] = pc[q]
<1> DEFINE h == [cur[p] EXCEPT !.rec = rec]
<1>1. h \in Hand /\ h.rec = rec /\ h.sess = cur[p].sess /\ h.old = cur[p].old
  BY DEF Hand
<1>2. cur' = [cur EXCEPT ![p] = h]
  BY DEF Goto
<1> HIDE DEF h
<1>3. cur' \in [Procs -> Hand \cup {None}] /\ cur'[p] = h
  BY <1>1, <1>2 DEF TypeOK
<1> QED
  BY <1>1, <1>2, <1>3 DEF Goto, TypeOK

LEMMA GotoShape ==
  ASSUME Shape, NEW p \in Procs, cur[p] \in Hand,
         NEW place \in Working \cup Tearing, NEW rec \in BgpSession \cup {None},
         pc[p] \in Working \cup Tearing,
         Goto(p, place, rec),
         rec = None <=> cur[p].rec = None,
         place \in Working => rec # None,
         place \in Tearing => cur[p].old # None,
         place = "ack" => rec.status = "QUEUED_FOR_DELETE",
         place \in Tearing /\ rec # None
           => rec.status \in ToRemove \cup {"QUEUED_FOR_DELETE"},
         ProvTypeOK', center' \in Table, edits' \in 0 .. MaxEdits,
         UNCHANGED <<local, running, remote, todo, restarts>>
  PROVE  Shape'
<1>1. TypeOK
  BY DEF Shape
<1> DEFINE Facts ==
      /\ cur' \in [Procs -> Hand \cup {None}]
      /\ cur'[p] \in Hand
      /\ cur'[p].rec = rec
      /\ cur'[p].old = cur[p].old
      /\ pc'[p] = place
      /\ next' = next
      /\ \A q \in Procs : q # p => cur'[q] = cur[q] /\ pc'[q] = pc[q]
<1>2. Facts
  BY <1>1, GotoHand
<1>3. TypeOK'
  BY <1>1, <1>2 DEF TypeOK, Goto, Working, Tearing, Place
<1>4. HandOK(p)'
  BY <1>2 DEF HandOK, AtRest, Working, Tearing
<1>5. TodoOK(p)'
  <2>1. TodoOK(p)
    BY DEF Shape
  <2>2. InRemoval(p)' <=> InRemoval(p)
    BY <1>2, HandAssumption DEF InRemoval, Working, Tearing
  <2> QED
    BY <2>1, <2>2 DEF TodoOK, Present
<1>6. FreshOK(p)' /\ pc'[p] # "idle" /\ pc[p] # "idle"
  BY <1>2 DEF FreshOK, Working, Tearing
<1> QED
  BY <1>2, <1>3, <1>4, <1>5, <1>6, OwnStep

LEMMA StoreShape ==
  ASSUME Shape, NEW p \in Procs, cur[p] \in Hand, cur[p].rec # None,
         pc[p] \in Working \cup Tearing,
         NEW rec \in BgpSession, Store(p, rec),
         ProvTypeOK', center' \in Table, edits' \in 0 .. MaxEdits,
         UNCHANGED <<local, running, remote, todo, restarts>>
  PROVE  Shape'
<1>1. TypeOK /\ TodoOK(p)
  BY DEF Shape
<1>2. cur[p].sess \in Sessions
  BY DEF Hand
<1>3. next' \in [Procs -> Table]
  BY <1>1, <1>2 DEF Store, TypeOK, Table
<1>4. TypeOK'
  BY <1>1, <1>3 DEF Store, TypeOK, Place
<1>5. cur'[p] = None /\ pc'[p] = "sessions"
  BY <1>1 DEF Store, TypeOK
<1>6. HandOK(p)' /\ FreshOK(p)'
  BY <1>5 DEF HandOK, FreshOK, AtRest, Working, Tearing
<1>7. TodoOK(p)'
  BY <1>1, <1>5 DEF TodoOK, InRemoval, Present, Working, Tearing
<1>8. pc[p] # "idle"
  BY DEF Working, Tearing
<1> QED
  BY <1>1, <1>4, <1>5, <1>6, <1>7, <1>8, OwnStep DEF Store, TypeOK

LEMMA KeepSessionShape ==
  ASSUME Shape, NEW p \in Procs, NEW u \in Sessions, KeepSession(p, u)
  PROVE  Shape'
<1>1. TypeOK /\ TodoOK(p) /\ HandOK(p)
  BY DEF Shape
<1>2. next' \in [Procs -> Table]
  BY <1>1 DEF KeepSession, TypeOK, Table
<1>3. todo' \in [Procs -> SUBSET Sessions] /\ todo'[p] \subseteq todo[p]
  BY <1>1 DEF KeepSession, TypeOK
<1>4. TypeOK'
  BY <1>1, <1>2, <1>3 DEF KeepSession, TypeOK, ProvTypeOK, provVars, tableVars
<1>5. HandOK(p)' /\ TodoOK(p)' /\ FreshOK(p)'
  BY <1>1, <1>3 DEF KeepSession, HandOK, TodoOK, FreshOK, InRemoval, Present
<1> QED
  BY <1>1, <1>4, <1>5, OwnStep DEF KeepSession, TypeOK

LEMMA TakeSessionShape ==
  ASSUME Shape, NEW p \in Procs, NEW u \in Sessions, TakeSession(p, u)
  PROVE  Shape'
<1> DEFINE rec == remote[p][u]
           old == local[u]
           place == IF Rejected(rec, old) THEN "invalid" ELSE Branch(rec, old)
           h == [sess |-> u, rec |-> rec, old |-> old]
<1>1. TypeOK /\ TodoOK(p) /\ HandOK(p)
  BY DEF Shape
<1>2. cur[p] = None /\ ~ InRemoval(p)
  BY <1>1 DEF TakeSession, HandOK, AtRest, InRemoval
<1>3. rec \in BgpSession /\ rec # None
  BY <1>1, <1>2 DEF TakeSession, TypeOK, TodoOK, Present, Table
<1>4. old \in BgpSession \cup {None}
  BY <1>1 DEF TypeOK, Table
<1>5. h \in Hand /\ h # None /\ h.rec = rec /\ h.old = old
  BY <1>3, <1>4, HandAssumption DEF Hand
<1>6. todo' \in [Procs -> SUBSET Sessions] /\ todo'[p] \subseteq todo[p]
  BY <1>1 DEF TakeSession, TypeOK
<1>7. /\ place \in {"invalid", "iface", "ack", "delIface", "sessions"}
      /\ place = "ack" => rec.status = "QUEUED_FOR_DELETE"
      /\ place = "delIface" =>
           old # None /\ rec.status \in ToRemove \cup {"QUEUED_FOR_DELETE"}
  BY <1>3, BranchFacts
<1>8. \/ place = "sessions" /\ next' = [next EXCEPT ![p][u] = rec] /\ UNCHANGED <<pc, cur>>
      \/ /\ place # "sessions"
         /\ cur' = [cur EXCEPT ![p] = h]
         /\ pc' = [pc EXCEPT ![p] = place]
         /\ next' = next
  BY DEF TakeSession
<1>9. pc[p] = "sessions" /\ UNCHANGED <<provVars, tableVars, local, running, remote, restarts>>
      /\ todo' = [todo EXCEPT ![p] = @ \ {u}]
  BY DEF TakeSession
<1> HIDE DEF rec, old, place, h
<1>10. TypeOK'
  <2>1. next' \in [Procs -> Table]
    <3>1. next \in [Procs -> Table]
      BY <1>1 DEF TypeOK
    <3>2. CASE next' = next
      BY <3>1, <3>2
    <3>3. CASE next' = [next EXCEPT ![p][u] = rec]
      BY <3>1, <3>3, <1>3 DEF Table
    <3> QED
      BY <1>8, <3>2, <3>3
  <2>2. cur' \in [Procs -> Hand \cup {None}]
    <3>1. cur \in [Procs -> Hand \cup {None}]
      BY <1>1 DEF TypeOK
    <3>2. CASE cur' = cur
      BY <3>1, <3>2
    <3>3. CASE cur' = [cur EXCEPT ![p] = h]
      BY <3>1, <3>3, <1>5
    <3> QED
      BY <1>8, <3>2, <3>3
  <2>3. pc' \in [Procs -> Place]
    <3>1. place \in Place
      BY <1>7 DEF Place
    <3> QED
      BY <1>1, <1>8, <3>1 DEF TypeOK
  <2> QED
    <3>1. ProvTypeOK'
      BY <1>1, <1>9 DEF TypeOK, ProvTypeOK, provVars
    <3> QED
      BY <1>1, <1>6, <1>9, <2>1, <2>2, <2>3, <3>1 DEF TypeOK, tableVars
<1>11. pc'[p] # "idle" /\ HandOK(p)' /\ FreshOK(p)'
  BY <1>1, <1>3, <1>5, <1>7, <1>8, <1>9
  DEF TypeOK, HandOK, FreshOK, AtRest, Working, Tearing
<1>12. TodoOK(p)'
  BY <1>1, <1>2, <1>3, <1>5, <1>6, <1>7, <1>8, <1>9 DEF TypeOK, TodoOK, InRemoval, Present
<1> QED
  BY <1>1, <1>6, <1>8, <1>9, <1>10, <1>11, <1>12, OwnStep DEF TypeOK

LEMMA RejectSessionShape ==
  ASSUME Shape, NEW p \in Procs, RejectSession(p)
  PROVE  Shape'
<1> DEFINE rec == [cur[p].rec EXCEPT !.status = "TEARDOWN"]
<1>1. TypeOK /\ ProvTypeOK /\ pc[p] = "invalid" /\ cur[p] \in Hand /\ cur[p].rec \in BgpSession
  BY DEF Shape, TypeOK, HandOK, Working, RejectSession, Hand
<1>2. rec \in BgpSession /\ rec # None /\ rec.status = "TEARDOWN"
  BY <1>1, WithStatus DEF Status
<1>3. ProvTypeOK' /\ center' \in Table /\ edits' \in 0 .. MaxEdits
  BY <1>1, ReportType DEF RejectSession, TypeOK, Status, Hand
<1>4. UNCHANGED <<local, running, remote, todo, restarts>> /\ Continue(p, rec)
  BY DEF RejectSession
<1> HIDE DEF rec
<1>5. /\ Branch(rec, cur[p].old) \in {"iface", "ack", "delIface", "sessions"}
      /\ Branch(rec, cur[p].old) = "ack" => rec.status = "QUEUED_FOR_DELETE"
      /\ Branch(rec, cur[p].old) = "delIface" => cur[p].old # None
  BY <1>2, BranchFacts
<1>6. CASE Branch(rec, cur[p].old) = "sessions"
  <2>1. Store(p, rec)
    BY <1>4, <1>6 DEF Continue
  <2> QED
    BY <1>1, <1>2, <1>3, <1>4, <2>1, RecordAssumption, StoreShape DEF Working
<1>7. CASE Branch(rec, cur[p].old) # "sessions"
  <2>1. Goto(p, Branch(rec, cur[p].old), rec)
    BY <1>4, <1>7 DEF Continue
  <2>2. cur[p].rec # None
    BY <1>1, RecordAssumption
  <2>3. rec.status \in ToRemove
    BY <1>2 DEF ToRemove
  <2>4. Branch(rec, cur[p].old) \in Working \cup Tearing /\ pc[p] \in Working
    BY <1>1, <1>5, <1>7 DEF Working, Tearing
  <2>5. Branch(rec, cur[p].old) \in Tearing => cur[p].old # None
    BY <1>5, <1>7 DEF Tearing
  <2> QED
    BY <1>1, <1>2, <1>3, <1>4, <1>5, <2>1, <2>2, <2>3, <2>4, <2>5, GotoShape
<1> QED
  BY <1>6, <1>7

LEMMA SetUpInterfaceShape ==
  ASSUME Shape, NEW p \in Procs, SetUpInterface(p)
  PROVE  Shape'
<1>1. /\ TypeOK /\ ProvTypeOK /\ pc[p] = "iface" /\ cur[p] \in Hand
      /\ cur[p].rec \in BgpSession /\ cur[p].sess \in Sessions
  BY DEF Shape, TypeOK, HandOK, Working, SetUpInterface, Hand
<1>2. cur[p].rec # None /\ cur[p].rec.cfg \in Cfgs /\ pc[p] \in Working
  BY <1>1, RecordAssumption DEF BgpSession, Working
<1>3. PICK ok \in BOOLEAN :
        /\ ConfigureInterface(cur[p].sess, cur[p].rec.cfg, ok)
        /\ IF ok THEN Goto(p, "bird", cur[p].rec)
                 ELSE Goto(p, "report", [cur[p].rec EXCEPT !.status = "PROBLEM"])
  BY DEF SetUpInterface
<1>4. ProvTypeOK'
  BY <1>1, <1>2, <1>3, ConfigureInterfaceType
<1>5. /\ center' \in Table /\ edits' \in 0 .. MaxEdits
      /\ UNCHANGED <<local, running, remote, todo, restarts>>
  BY <1>1 DEF SetUpInterface, TypeOK, tableVars
<1>6. ASSUME NEW place \in {"bird", "report"}, NEW rec \in BgpSession, Goto(p, place, rec)
      PROVE  Shape'
  <2>1. rec # None /\ place \in Working /\ place \notin Tearing /\ place # "ack"
    BY RecordAssumption DEF Working, Tearing
  <2> QED
    BY <1>1, <1>2, <1>4, <1>5, <1>6, <2>1, GotoShape
<1>7. [cur[p].rec EXCEPT !.status = "PROBLEM"] \in BgpSession
  BY <1>1, WithStatus DEF Status
<1> QED
  BY <1>1, <1>3, <1>6, <1>7

LEMMA SetUpBirdShape ==
  ASSUME Shape, NEW p \in Procs, SetUpBird(p)
  PROVE  Shape'
<1>1. /\ TypeOK /\ ProvTypeOK /\ pc[p] = "bird" /\ cur[p] \in Hand
      /\ cur[p].rec \in BgpSession /\ cur[p].sess \in Sessions
  BY DEF Shape, TypeOK, HandOK, Working, SetUpBird, Hand
<1>2. cur[p].rec # None /\ cur[p].rec.cfg \in Cfgs /\ pc[p] \in Working
  BY <1>1, RecordAssumption DEF BgpSession, Working
<1>3. PICK ok \in BOOLEAN :
        /\ ConfigureBird(cur[p].sess, cur[p].rec.cfg, ok)
        /\ Goto(p, "report", [cur[p].rec EXCEPT
                                !.status = IF ok THEN "ENABLED" ELSE "PROBLEM"])
  BY DEF SetUpBird
<1>4. ProvTypeOK'
  BY <1>1, <1>2, <1>3, ConfigureBirdType
<1>5. /\ center' \in Table /\ edits' \in 0 .. MaxEdits
      /\ UNCHANGED <<local, running, remote, todo, restarts>>
  BY <1>1 DEF SetUpBird, TypeOK, tableVars
<1> DEFINE rec == [cur[p].rec EXCEPT !.status = IF ok THEN "ENABLED" ELSE "PROBLEM"]
<1>6. rec \in BgpSession /\ rec # None
  BY <1>1, WithStatus DEF Status
<1>7. Goto(p, "report", rec)
  BY <1>3
<1> HIDE DEF rec
<1>8. "report" \in Working /\ "report" \notin Tearing /\ "report" # "ack"
  BY DEF Working, Tearing
<1> QED
  BY <1>1, <1>2, <1>4, <1>5, <1>6, <1>7, <1>8, GotoShape

LEMMA ReportStatusShape ==
  ASSUME Shape, NEW p \in Procs, ReportStatus(p)
  PROVE  Shape'
<1>1. /\ TypeOK /\ ProvTypeOK /\ pc[p] = "report" /\ cur[p] \in Hand
      /\ cur[p].rec \in BgpSession /\ cur[p].rec # None
  BY DEF Shape, TypeOK, HandOK, Working, ReportStatus, Hand
<1>2. cur[p].sess \in Sessions /\ cur[p].rec.status \in Status
  BY <1>1 DEF Hand, BgpSession
<1>3. ProvTypeOK' /\ center' \in Table /\ edits' \in 0 .. MaxEdits
  BY <1>1, <1>2, ReportType DEF ReportStatus, TypeOK
<1> QED
  BY <1>1, <1>3, StoreShape DEF ReportStatus, Working

LEMMA AcknowledgeDeleteShape ==
  ASSUME Shape, NEW p \in Procs, AcknowledgeDelete(p)
  PROVE  Shape'
<1>1. /\ TypeOK /\ ProvTypeOK /\ pc[p] = "ack" /\ cur[p] \in Hand
      /\ cur[p].rec \in BgpSession /\ cur[p].rec # None
  BY DEF Shape, TypeOK, HandOK, Working, AcknowledgeDelete, Hand
<1>2. PICK ok \in BOOLEAN :
        /\ Report(cur[p].sess, "DELETED", ok)
        /\ Store(p, IF ok THEN [cur[p].rec EXCEPT !.status = "DELETED"] ELSE cur[p].rec)
  BY DEF AcknowledgeDelete
<1>3. ProvTypeOK' /\ center' \in Table /\ edits' \in 0 .. MaxEdits
  BY <1>1, <1>2, ReportType DEF TypeOK, Status, Hand
<1>4. (IF ok THEN [cur[p].rec EXCEPT !.status = "DELETED"] ELSE cur[p].rec) \in BgpSession
  BY <1>1, WithStatus DEF Status
<1> QED
  BY <1>1, <1>2, <1>3, <1>4, StoreShape DEF AcknowledgeDelete, Working
LEMMA TearDownInterfaceShape ==
  ASSUME Shape, NEW p \in Procs, TearDownInterface(p)
  PROVE  Shape'
<1>1. /\ TypeOK /\ ProvTypeOK /\ HandOK(p) /\ pc[p] = "delIface" /\ pc[p] \in Tearing
      /\ cur[p] \in Hand
      /\ cur[p].rec \in BgpSession \cup {None} /\ cur[p].old \in BgpSession
  BY DEF Shape, TypeOK, HandOK, Tearing, TearDownInterface, Hand
<1>2. cur[p].old.cfg \in Cfgs /\ cur[p].old # None
  BY <1>1, RecordAssumption DEF BgpSession
<1>3. ProvTypeOK'
  BY <1>1, <1>2, DeleteInterfaceType DEF TearDownInterface
<1>4. /\ center' \in Table /\ edits' \in 0 .. MaxEdits
      /\ UNCHANGED <<local, running, remote, todo, restarts>>
      /\ Goto(p, "delBird", cur[p].rec)
  BY <1>1 DEF TearDownInterface, TypeOK, tableVars
<1>5. cur[p].rec # None => cur[p].rec.status \in ToRemove \cup {"QUEUED_FOR_DELETE"}
  BY <1>1 DEF HandOK
<1>6. "delBird" \in Tearing /\ "delBird" \notin Working /\ "delBird" # "ack"
  BY DEF Working, Tearing
<1> QED
  BY <1>1, <1>2, <1>3, <1>4, <1>5, <1>6, GotoShape

LEMMA TearDownBirdShape ==
  ASSUME Shape, NEW p \in Procs, TearDownBird(p)
  PROVE  Shape'
<1>1. /\ TypeOK /\ ProvTypeOK /\ HandOK(p) /\ TodoOK(p)
      /\ pc[p] = "delBird" /\ pc[p] \in Tearing
      /\ cur[p] \in Hand
      /\ cur[p].rec \in BgpSession \cup {None} /\ cur[p].old \in BgpSession
  BY DEF Shape, TypeOK, HandOK, Tearing, TearDownBird, Hand
<1>2. cur[p].old.cfg \in Cfgs
  BY <1>1 DEF BgpSession
<1>3. ProvTypeOK'
  BY <1>1, <1>2, DeleteBirdType DEF TearDownBird
<1>4. /\ center' \in Table /\ edits' \in 0 .. MaxEdits
      /\ UNCHANGED <<local, running, remote, todo, restarts>>
  BY <1>1 DEF TearDownBird, TypeOK, tableVars
<1>5. CASE /\ cur[p].rec = None
           /\ cur' = [cur EXCEPT ![p] = None]
           /\ pc' = [pc EXCEPT ![p] = "gone"]
           /\ next' = next
  <2>1. TypeOK'
    BY <1>1, <1>3, <1>4, <1>5 DEF TypeOK, Place
  <2>2. cur'[p] = None /\ pc'[p] = "gone"
    BY <1>1, <1>5 DEF TypeOK
  <2>3. HandOK(p)' /\ FreshOK(p)'
    BY <2>2 DEF HandOK, FreshOK, AtRest, Working, Tearing
  <2>4. InRemoval(p)
    BY <1>1, <1>5, HandAssumption DEF InRemoval
  <2>5. TodoOK(p)'
    BY <1>1, <1>4, <2>2, <2>4 DEF TodoOK, InRemoval, Present
  <2> QED
    BY <1>1, <1>4, <1>5, <2>1, <2>2, <2>3, <2>5, OwnStep DEF TypeOK
<1>6. CASE /\ cur[p].rec # None
           /\ Goto(p, "report", [cur[p].rec EXCEPT !.status = "DELETED"])
  <2>1. [cur[p].rec EXCEPT !.status = "DELETED"] \in BgpSession
    BY <1>1, <1>6, WithStatus DEF Status
  <2>2. "report" \in Working /\ "report" \notin Tearing /\ "report" # "ack"
    BY DEF Working, Tearing
  <2> QED
    BY <1>1, <1>3, <1>4, <1>6, <2>1, <2>2, RecordAssumption, GotoShape
<1>7. CASE cur[p].rec # None /\ Store(p, cur[p].rec)
  BY <1>1, <1>3, <1>4, <1>7, StoreShape
<1> QED
  BY <1>5, <1>6, <1>7 DEF TearDownBird

LEMMA StartRemovalShape ==
  ASSUME Shape, NEW p \in Procs, StartRemoval(p)
  PROVE  Shape'
<1>1. TypeOK /\ HandOK(p)
  BY DEF Shape
<1>2. /\ pc'[p] = "gone" /\ cur'[p] = None /\ cur' = cur
      /\ todo'[p] = Present(local) \ Present(remote[p])
      /\ local' = local /\ remote' = remote
  BY <1>1 DEF StartRemoval, TypeOK, HandOK, AtRest
<1>3. TypeOK'
  BY <1>1 DEF StartRemoval, TypeOK, ProvTypeOK, Place, Present, provVars, tableVars
<1>4. HandOK(p)' /\ TodoOK(p)' /\ FreshOK(p)'
  BY <1>2 DEF HandOK, TodoOK, FreshOK, InRemoval, Present, AtRest, Working, Tearing
<1> QED
  BY <1>1, <1>2, <1>3, <1>4, OwnStep DEF StartRemoval, TypeOK

LEMMA RemoveSessionShape ==
  ASSUME Shape, NEW p \in Procs, NEW u \in Sessions, RemoveSession(p, u)
  PROVE  Shape'
<1> DEFINE h == [sess |-> u, rec |-> None, old |-> local[u]]
<1>1. TypeOK /\ HandOK(p) /\ TodoOK(p) /\ InRemoval(p)
  BY DEF Shape, RemoveSession, InRemoval
<1>2. local[u] # None /\ local[u] \in BgpSession \cup {None}
  BY <1>1 DEF RemoveSession, TodoOK, Present, TypeOK, Table
<1>3. h \in Hand /\ h # None /\ h.rec = None /\ h.old = local[u]
  BY <1>2, HandAssumption DEF Hand
<1>4. cur' = [cur EXCEPT ![p] = h]
  BY DEF RemoveSession
<1> HIDE DEF h
<1>5. cur' \in [Procs -> Hand \cup {None}] /\ cur'[p] = h
  BY <1>1, <1>3, <1>4 DEF TypeOK
<1>6. /\ todo' \in [Procs -> SUBSET Sessions] /\ todo'[p] \subseteq todo[p]
      /\ pc' \in [Procs -> Place] /\ pc'[p] = "delIface"
      /\ local' = local /\ remote' = remote
  BY <1>1 DEF RemoveSession, TypeOK, Place
<1>7. TypeOK'
  BY <1>1, <1>5, <1>6 DEF RemoveSession, TypeOK, ProvTypeOK, provVars, tableVars
<1>8. HandOK(p)' /\ FreshOK(p)'
  BY <1>2, <1>3, <1>5, <1>6 DEF HandOK, FreshOK, AtRest, Working, Tearing
<1>9. TodoOK(p)'
  BY <1>1, <1>3, <1>5, <1>6 DEF TodoOK, InRemoval, Present
<1> QED
  BY <1>1, <1>4, <1>6, <1>7, <1>8, <1>9, OwnStep DEF RemoveSession, TypeOK

LEMMA InstallShape ==
  ASSUME Shape, NEW p \in Procs, Install(p)
  PROVE  Shape'
  BY ReturnShape DEF Install, Shape, TypeOK, ProvTypeOK, provVars

LEMMA FetchFailsShape ==
  ASSUME Shape, NEW p \in Procs, FetchFails(p)
  PROVE  Shape'
<1>1. ProvTypeOK'
  BY FaultType DEF FetchFails, Shape, TypeOK, ProvTypeOK
<1> QED
  BY <1>1, ReturnShape DEF FetchFails, Shape, TypeOK

LEMMA OperatorEditShape ==
  ASSUME Shape, NEW u \in Sessions, NEW row \in Rows(u), OperatorEdit(u, row)
  PROVE  Shape'
<1>1. row \in BgpSession \cup {None}
  BY ConfigAssumption, RecordAssumption DEF Rows, BgpSession
<1>2. TypeOK'
  BY <1>1, SyncAssumption DEF Shape, TypeOK, ProvTypeOK, OperatorEdit, Table, provVars, runVars
<1>3. SingleSync'
  BY DEF Shape, SingleSync, OperatorEdit, runVars
<1>4. \A q \in Procs : HandOK(q)' /\ TodoOK(q)' /\ FreshOK(q)'
  BY DEF Shape, OperatorEdit, HandOK, TodoOK, FreshOK, InRemoval, Present, runVars
<1> QED
  BY <1>2, <1>3, <1>4 DEF Shape

LEMMA RestartShape ==
  ASSUME Shape, Restart
  PROVE  Shape'
<1>1. TypeOK'
  <2>1. restarts' \in 0 .. MaxRestarts
    BY SyncAssumption DEF Shape, TypeOK, Restart
  <2>2. /\ local' \in Table /\ remote' \in [Procs -> Table] /\ next' \in [Procs -> Table]
        /\ cur' \in [Procs -> Hand \cup {None}]
        /\ running' \in BOOLEAN /\ pc' \in [Procs -> Place]
        /\ todo' \in [Procs -> SUBSET Sessions]
    BY EmptyIsTable DEF Restart, Place
  <2> QED
    BY <2>1, <2>2 DEF Shape, TypeOK, ProvTypeOK, Restart, provVars, tableVars
<1>2. SingleSync'
  BY DEF Restart, SingleSync
<1>3. \A q \in Procs : HandOK(q)' /\ TodoOK(q)' /\ FreshOK(q)'
  BY DEF Restart, HandOK, TodoOK, FreshOK, InRemoval, AtRest, Working, Tearing
<1> QED
  BY <1>1, <1>2, <1>3 DEF Shape

(* Every step of the system keeps Shape.                                   *)
LEMMA ShapeStep ==
  ASSUME Shape, [SyncNext]_vars
  PROVE  Shape'
<1>1. CASE UNCHANGED vars
  BY <1>1 DEF vars, syncVars, provVars, tableVars, runVars, Shape, TypeOK, ProvTypeOK,
              SingleSync, HandOK, TodoOK, FreshOK, InRemoval, Present
<1>2. ASSUME NEW p \in Procs, StartSync(p) PROVE Shape'
  BY <1>2, StartSyncShape
<1>3. ASSUME NEW p \in Procs, Step(p) PROVE Shape'
  BY <1>3, FetchFailsShape, FetchShape, KeepSessionShape, TakeSessionShape,
     RemoveSessionShape, RejectSessionShape, SetUpInterfaceShape, SetUpBirdShape,
     ReportStatusShape, AcknowledgeDeleteShape, TearDownInterfaceShape,
     TearDownBirdShape, StartRemovalShape, InstallShape DEF Step
<1>4. CASE Environment
  BY <1>4, OperatorEditShape, RestartShape DEF Environment
<1> QED
  BY <1>1, <1>2, <1>3, <1>4 DEF SyncNext

LEMMA ShapeInvariant == Spec => []Shape
  BY InitShape, ShapeStep, PTL DEF Spec

(* Every variable keeps its type, a run that is under way holds a session  *)
(* of its own table, and no counter passes its bound.                      *)
THEOREM TypeCorrect == Spec => []TypeOK
<1>1. Shape => TypeOK
  BY DEF Shape
<1> QED
  BY <1>1, ShapeInvariant, PTL

(* For any number of callers, sessions, failures and restarts, at most one *)
(* call of syncSessions is under way (task_session_sync.go:424-427).       *)
THEOREM NoTwoSyncs == Spec => []SingleSync
<1>1. Shape => SingleSync
  BY DEF Shape
<1> QED
  BY <1>1, ShapeInvariant, PTL

-----------------------------------------------------------------------------
(* SessionSync implements SessionTable: a run of syncSessions, with all    *)
(* its calls, failures and lost reports, is one answer to one snapshot.    *)

(* What the center's answer said of the session in hand.                   *)
Asked(p) == remote[p][cur[p].sess]

(* The record in hand is that entry until its status is known, and an      *)
(* answer to it when it is reported; what is torn down is either.          *)
HandAnswers(p) ==
  cur[p] # None /\ cur[p].rec # None =>
    /\ Asked(p) # None
    /\ cur[p].rec.cfg = Asked(p).cfg
    /\ pc[p] \in {"invalid", "ack", "iface", "bird"} => cur[p].rec = Asked(p)
    /\ pc[p] \in {"iface", "bird"} => cur[p].rec.status \in ToSetUp
    /\ pc[p] = "report" => cur[p].rec.status \in T!Answers(Asked(p).status)
    /\ pc[p] \in Tearing => cur[p].rec = Asked(p) \/ cur[p].rec.status = "TEARDOWN"

Asks(p) == pc[p] \notin {"idle", "fetch"}

(* The next table answers the snapshot as far as the loop has come, and    *)
(* what it lacks is still ahead or in hand.                                *)
AnsweredSoFar(p) ==
  Asks(p) =>
    /\ \A u \in Sessions : next[p][u] # None => T!Entry(remote[p][u], next[p][u])
    /\ \A u \in Sessions : remote[p][u] # None /\ next[p][u] = None =>
         ~ InRemoval(p) /\ (u \in todo[p] \/ (cur[p] # None /\ cur[p].sess = u))

(* No installed entry still asks for a setup.                              *)
Settled(table) ==
  \A u \in Sessions : table[u] # None => table[u].status # "QUEUED_FOR_SETUP"

Answering ==
  /\ Shape
  /\ Settled(local)
  /\ \A p \in Procs : HandAnswers(p) /\ AnsweredSoFar(p)

-----------------------------------------------------------------------------
(* The abstract module names the same tables and statuses.                 *)
LEMMA SameTables == T!Tables = Table
  BY DEF T!Tables, T!Statuses, Table, BgpSession, Status

(* Which answers there are.                                                *)
LEMMA AnswerFacts ==
  ASSUME NEW status
  PROVE  /\ "TEARDOWN" \in T!Answers(status)
         /\ "QUEUED_FOR_SETUP" \notin T!Answers(status)
         /\ status \in ToSetUp =>
              "ENABLED" \in T!Answers(status) /\ "PROBLEM" \in T!Answers(status)
         /\ status = "QUEUED_FOR_DELETE" => "DELETED" \in T!Answers(status)
  BY DEF T!Answers, ToSetUp

(* An entry is no request for a setup.                                     *)
LEMMA EntrySettled ==
  ASSUME NEW asked, NEW new, T!Entry(asked, new), new # None
  PROVE  new.status # "QUEUED_FOR_SETUP"
  BY AnswerFacts DEF T!Entry

(* The snapshot is the answer of the one call that has one.                *)
LEMMA SnapshotOf ==
  ASSUME Shape, NEW p \in Procs, Asks(p)
  PROVE  Snapshot = remote[p] /\ Snapshot # None
<1>1. Asking = {p}
  BY DEF Shape, SingleSync, Asks, Asking
<1>2. Snapshot = remote[p]
  BY <1>1 DEF Snapshot
<1> QED
  BY <1>2, TableAssumption DEF Shape, TypeOK

LEMMA NoSnapshotOf ==
  ASSUME \A p \in Procs : ~ Asks(p)
  PROVE  Snapshot = None
  BY DEF Snapshot, Asking, Asks

LEMMA SnapshotNext ==
  ASSUME Shape', NEW p \in Procs, Asks(p)'
  PROVE  Snapshot' = remote'[p]
<1>1. Asking' = {p}
  BY DEF Shape, SingleSync, Asks, Asking
<1> QED
  BY <1>1 DEF Snapshot

LEMMA NoSnapshotNext ==
  ASSUME \A p \in Procs : ~ Asks(p)'
  PROVE  Snapshot' = None
  BY DEF Snapshot, Asking, Asks

LEMMA SnapshotKept ==
  ASSUME Shape, Shape', NEW p \in Procs, Asks(p), Asks(p)', remote' = remote
  PROVE  Snapshot' = Snapshot
  BY SnapshotOf, SnapshotNext

-----------------------------------------------------------------------------
(* A step of call p keeps Answering when it does so for call p: the others *)
(* are idle.                                                               *)
LEMMA OwnAnswers ==
  ASSUME Answering, NEW p \in Procs, pc[p] # "idle", Shape', Settled(local'),
         \A q \in Procs : q # p => pc'[q] = pc[q] /\ cur'[q] = cur[q],
         HandAnswers(p)', AnsweredSoFar(p)'
  PROVE  Answering'
<1>1. ASSUME NEW q \in Procs, q # p
      PROVE  HandAnswers(q)' /\ AnsweredSoFar(q)'
  <2>1. pc[q] = "idle" /\ cur[q] = None
    BY <1>1, Alone DEF Answering
  <2>2. pc'[q] = "idle" /\ cur'[q] = None
    BY <1>1, <2>1
  <2> QED
    BY <2>2 DEF HandAnswers, AnsweredSoFar, Asks
<1> QED
  BY <1>1 DEF Answering, Settled

(* Going on with the session in hand.                                      *)
LEMMA GotoAnswers ==
  ASSUME Answering, Shape', NEW p \in Procs, cur[p] \in Hand, cur[p].rec # None,
         pc[p] \in Working \cup Tearing, NEW place \in Working \cup Tearing,
         NEW rec \in BgpSession, Goto(p, place, rec),
         UNCHANGED <<local, remote, todo>>,
         rec.cfg = Asked(p).cfg,
         place \in {"invalid", "ack", "iface", "bird"} => rec = Asked(p),
         place \in {"iface", "bird"} => rec.status \in ToSetUp,
         place = "report" => rec.status \in T!Answers(Asked(p).status),
         place \in Tearing => rec = Asked(p) \/ rec.status = "TEARDOWN"
  PROVE  Answering'
<1>1. TypeOK /\ HandAnswers(p) /\ AnsweredSoFar(p) /\ cur[p] # None
  BY HandAssumption DEF Answering, Shape
<1>2. /\ cur'[p] \in Hand /\ cur'[p].rec = rec /\ cur'[p].sess = cur[p].sess
      /\ pc'[p] = place /\ next' = next
      /\ \A q \in Procs : q # p => cur'[q] = cur[q] /\ pc'[q] = pc[q]
  BY <1>1, GotoHand
<1>3. Asks(p) /\ pc[p] # "idle" /\ ~ InRemoval(p)
  BY DEF Asks, InRemoval, Working, Tearing
<1>4. rec # None /\ cur'[p] # None /\ Asked(p)' = Asked(p)
  BY <1>2, RecordAssumption, HandAssumption DEF Asked
<1>5. HandAnswers(p)'
  BY <1>1, <1>2, <1>4 DEF HandAnswers
<1>6. ~ InRemoval(p)'
  BY <1>2, <1>4 DEF InRemoval, Working, Tearing
<1>7. AnsweredSoFar(p)'
  BY <1>1, <1>2, <1>3, <1>4, <1>6 DEF AnsweredSoFar
<1> QED
  BY <1>2, <1>3, <1>5, <1>7, OwnAnswers DEF Answering

(* Storing an entry that answers the session in hand.                      *)
LEMMA StoreAnswers ==
  ASSUME Answering, Shape', NEW p \in Procs, cur[p] \in Hand, cur[p].rec # None,
         pc[p] \in Working \cup Tearing,
         NEW rec \in BgpSession, Store(p, rec),
         UNCHANGED <<local, remote, todo>>,
         T!Entry(Asked(p), rec)
  PROVE  Answering'
<1>1. TypeOK /\ AnsweredSoFar(p) /\ cur[p].sess \in Sessions
  BY DEF Answering, Shape, Hand
<1>2. /\ cur'[p] = None /\ pc'[p] = "sessions"
      /\ \A q \in Procs : q # p => cur'[q] = cur[q] /\ pc'[q] = pc[q]
  BY <1>1 DEF Store, TypeOK
<1>3. /\ next'[p][cur[p].sess] = rec
      /\ \A u \in Sessions : u # cur[p].sess => next'[p][u] = next[p][u]
  BY <1>1 DEF Store, TypeOK, Table
<1>4. Asks(p) /\ pc[p] # "idle" /\ rec # None
  BY RecordAssumption DEF Asks, Working, Tearing
<1>5. HandAnswers(p)' /\ ~ InRemoval(p)'
  BY <1>2 DEF HandAnswers, InRemoval
<1>6. AnsweredSoFar(p)'
  <2>1. \A u \in Sessions : next'[p][u] # None => T!Entry(remote[p][u], next'[p][u])
    BY <1>1, <1>3, <1>4 DEF AnsweredSoFar, Asked
  <2>2. ASSUME NEW u \in Sessions, remote[p][u] # None, next'[p][u] = None
        PROVE  u \in todo[p]
    BY <1>1, <1>3, <1>4, <2>2 DEF AnsweredSoFar
  <2> QED
    BY <1>5, <2>1, <2>2 DEF AnsweredSoFar
<1> QED
  BY <1>2, <1>4, <1>5, <1>6, OwnAnswers DEF Answering

-----------------------------------------------------------------------------
(* What a call has in hand while it works on a session of the answer.      *)
LEMMA HandIsAsked ==
  ASSUME Answering, NEW p \in Procs, pc[p] \in Working \cup Tearing
  PROVE  /\ TypeOK /\ cur[p] \in Hand /\ cur[p] # None /\ cur[p].sess \in Sessions
         /\ cur[p].rec \in BgpSession \cup {None}
         /\ pc[p] \in Working => cur[p].rec # None
         /\ HandOK(p) /\ HandAnswers(p) /\ AnsweredSoFar(p)
         /\ cur[p].rec # None => Asked(p) \in BgpSession /\ Asked(p) # None
<1>1. TypeOK /\ HandOK(p) /\ HandAnswers(p) /\ AnsweredSoFar(p)
  BY DEF Answering, Shape
<1>2. cur[p] \in Hand /\ cur[p] # None /\ (pc[p] \in Working => cur[p].rec # None)
  BY <1>1, HandAssumption DEF HandOK
<1>3. cur[p].sess \in Sessions /\ cur[p].rec \in BgpSession \cup {None}
  BY <1>2 DEF Hand
<1>4. Asked(p) \in BgpSession \cup {None}
  BY <1>1, <1>3 DEF TypeOK, Table, Asked
<1> QED
  BY <1>1, <1>2, <1>3, <1>4 DEF HandAnswers

LEMMA StartSyncAnswers ==
  ASSUME Answering, Shape', NEW p \in Procs, StartSync(p)
  PROVE  Answering'
<1>1. /\ UNCHANGED <<local, remote, todo, cur, next>> /\ pc'[p] = "fetch" /\ pc[p] = "idle"
      /\ \A q \in Procs : q # p => pc'[q] = pc[q]
  BY DEF StartSync, Answering, Shape, TypeOK
<1>2. cur[p] = None
  BY <1>1 DEF Answering, Shape, HandOK, AtRest
<1>3. HandAnswers(p)' /\ AnsweredSoFar(p)'
  BY <1>1, <1>2 DEF HandAnswers, AnsweredSoFar, Asks
<1>4. ASSUME NEW q \in Procs, q # p
      PROVE  HandAnswers(q)' /\ AnsweredSoFar(q)'
  <2>1. HandAnswers(q) /\ AnsweredSoFar(q)
    BY DEF Answering
  <2>2. HandAnswers(q)'
    BY <1>1, <1>4, <2>1 DEF HandAnswers, Asked
  <2>3. AnsweredSoFar(q)'
    BY <1>1, <1>4, <2>1 DEF AnsweredSoFar, Asks, InRemoval
  <2> QED
    BY <2>2, <2>3
<1> QED
  BY <1>1, <1>3, <1>4 DEF Answering, Settled

LEMMA FetchAnswers ==
  ASSUME Answering, Shape', NEW p \in Procs, Fetch(p)
  PROVE  Answering'
<1>1. /\ pc[p] = "fetch" /\ pc'[p] = "sessions"
      /\ remote'[p] = center /\ todo'[p] = Present(center)
      /\ UNCHANGED <<local, cur, next>>
      /\ \A q \in Procs : q # p => pc'[q] = pc[q]
  BY DEF Fetch, Answering, Shape, TypeOK
<1>2. cur[p] = None /\ next[p] = Empty
  BY <1>1 DEF Answering, Shape, HandOK, FreshOK, AtRest
<1>3. HandAnswers(p)'
  BY <1>1, <1>2 DEF HandAnswers
<1>4. AnsweredSoFar(p)'
  BY <1>1, <1>2 DEF AnsweredSoFar, Empty, InRemoval, Present
<1> QED
  BY <1>1, <1>3, <1>4, OwnAnswers DEF Answering

LEMMA FetchFailsAnswers ==
  ASSUME Answering, Shape', NEW p \in Procs, FetchFails(p)
  PROVE  Answering'
<1>1. /\ pc[p] = "fetch" /\ pc'[p] = "idle" /\ cur'[p] = None /\ local' = local
      /\ \A q \in Procs : q # p => pc'[q] = pc[q] /\ cur'[q] = cur[q]
  BY DEF FetchFails, Return, Answering, Shape, TypeOK
<1>2. HandAnswers(p)' /\ AnsweredSoFar(p)'
  BY <1>1 DEF HandAnswers, AnsweredSoFar, Asks
<1> QED
  BY <1>1, <1>2, OwnAnswers DEF Answering

(* An entry equal to the local one asks for no setup.                      *)
LEMMA KeepSessionAnswers ==
  ASSUME Answering, Shape', NEW p \in Procs, NEW u \in Sessions, KeepSession(p, u)
  PROVE  Answering'
<1>1. TypeOK /\ HandOK(p) /\ TodoOK(p) /\ AnsweredSoFar(p) /\ Settled(local)
  BY DEF Answering, Shape
<1>2. /\ pc[p] = "sessions" /\ u \in todo[p] /\ local[u] = remote[p][u]
      /\ UNCHANGED <<local, pc, cur, remote>>
      /\ todo'[p] = todo[p] \ {u}
      /\ next'[p][u] = remote[p][u]
      /\ \A v \in Sessions : v # u => next'[p][v] = next[p][v]
  BY <1>1 DEF KeepSession, TypeOK, Table
<1>3. cur[p] = None /\ ~ InRemoval(p) /\ ~ InRemoval(p)'
  BY <1>1, <1>2 DEF HandOK, AtRest, InRemoval
<1>4. remote[p][u] # None /\ T!Entry(remote[p][u], remote[p][u])
  BY <1>1, <1>2, <1>3 DEF TodoOK, Present, Settled, T!Entry
<1>5. HandAnswers(p)'
  BY <1>2, <1>3 DEF HandAnswers
<1>6. AnsweredSoFar(p)'
  BY <1>1, <1>2, <1>3, <1>4 DEF AnsweredSoFar, Asks
<1> QED
  BY <1>1, <1>2, <1>5, <1>6, OwnAnswers

LEMMA TakeSessionAnswers ==
  ASSUME Answering, Shape', NEW p \in Procs, NEW u \in Sessions, TakeSession(p, u)
  PROVE  Answering'
<1> DEFINE rec == remote[p][u]
           old == local[u]
           place == IF Rejected(rec, old) THEN "invalid" ELSE Branch(rec, old)
           h == [sess |-> u, rec |-> rec, old |-> old]
<1>1. TypeOK /\ TodoOK(p) /\ HandOK(p) /\ AnsweredSoFar(p) /\ Settled(local)
  BY DEF Answering, Shape
<1>2. pc[p] = "sessions" /\ cur[p] = None /\ ~ InRemoval(p) /\ u \in todo[p]
  BY <1>1 DEF TakeSession, HandOK, AtRest, InRemoval
<1>3. rec \in BgpSession /\ rec # None
  BY <1>1, <1>2 DEF TypeOK, TodoOK, Present, Table
<1>4. old \in BgpSession \cup {None}
  BY <1>1 DEF TypeOK, Table
<1>5. h \in Hand /\ h # None /\ h.rec = rec /\ h.sess = u
  BY <1>3, <1>4, HandAssumption DEF Hand
<1>6. /\ place \in {"invalid", "iface", "ack", "delIface", "sessions"}
      /\ place = "iface" => rec.status \in ToSetUp
      /\ place = "sessions" => rec.status \notin ToSetUp
  BY <1>3, BranchFacts DEF Branch
<1>7. /\ UNCHANGED <<local, remote>> /\ todo'[p] = todo[p] \ {u}
      /\ \/ /\ place = "sessions" /\ UNCHANGED <<pc, cur>>
            /\ next' = [next EXCEPT ![p][u] = rec]
         \/ /\ place # "sessions" /\ next' = next
            /\ cur' = [cur EXCEPT ![p] = h]
            /\ pc' = [pc EXCEPT ![p] = place]
  BY <1>1 DEF TakeSession, TypeOK
<1>8. rec = remote[p][u]
  OBVIOUS
<1> HIDE DEF rec, old, place, h
<1>9. CASE place = "sessions"
  <2>1. /\ next'[p][u] = rec /\ UNCHANGED <<pc, cur>>
        /\ \A v \in Sessions : v # u => next'[p][v] = next[p][v]
    BY <1>1, <1>7, <1>9 DEF TypeOK, Table
  <2>2. T!Entry(rec, rec)
    BY <1>3, <1>6, <1>9 DEF T!Entry, ToSetUp
  <2>3. HandAnswers(p)' /\ ~ InRemoval(p)'
    BY <1>2, <2>1 DEF HandAnswers, InRemoval
  <2>4. AnsweredSoFar(p)'
    BY <1>1, <1>2, <1>3, <1>7, <1>8, <2>1, <2>2, <2>3 DEF AnsweredSoFar, Asks
  <2> QED
    BY <1>1, <1>2, <1>7, <2>1, <2>3, <2>4, OwnAnswers
<1>10. CASE place # "sessions"
  <2>1. /\ cur'[p] = h /\ pc'[p] = place /\ next' = next
        /\ \A q \in Procs : q # p => cur'[q] = cur[q] /\ pc'[q] = pc[q]
    BY <1>1, <1>7, <1>10 DEF TypeOK
  <2>2. Asked(p)' = rec
    BY <1>5, <1>7, <1>8, <2>1 DEF Asked
  <2>3. HandAnswers(p)'
    BY <1>3, <1>5, <1>6, <1>10, <2>1, <2>2 DEF HandAnswers
  <2>4. ~ InRemoval(p)'
    BY <1>3, <1>5, <1>6, <2>1 DEF InRemoval
  <2>5. AnsweredSoFar(p)'
    BY <1>1, <1>2, <1>5, <1>7, <2>1, <2>4 DEF AnsweredSoFar, Asks
  <2> QED
    BY <1>1, <1>2, <1>7, <2>1, <2>3, <2>5, OwnAnswers
<1> QED
  BY <1>9, <1>10

LEMMA RejectSessionAnswers ==
  ASSUME Answering, Shape', NEW p \in Procs, RejectSession(p)
  PROVE  Answering'
<1> DEFINE rec == [cur[p].rec EXCEPT !.status = "TEARDOWN"]
<1>1. pc[p] = "invalid" /\ pc[p] \in Working
  BY DEF RejectSession, Working
<1>2. /\ cur[p] \in Hand /\ cur[p] # None /\ cur[p].rec \in BgpSession
      /\ cur[p].rec # None /\ cur[p].rec = Asked(p) /\ Asked(p) # None
  BY <1>1, HandIsAsked DEF HandAnswers
<1>3. rec \in BgpSession /\ rec # None /\ rec.status = "TEARDOWN" /\ rec.cfg = Asked(p).cfg
  <2>1. rec \in BgpSession /\ rec # None /\ rec.status = "TEARDOWN" /\ rec.cfg = cur[p].rec.cfg
    BY <1>2, WithStatus DEF Status
  <2> HIDE DEF rec
  <2> QED
    BY <1>2, <2>1
<1>4. UNCHANGED <<local, remote, todo>> /\ Continue(p, rec)
  BY DEF RejectSession
<1> HIDE DEF rec
<1>5. Branch(rec, cur[p].old) \in {"delIface", "sessions"}
  BY <1>3, BranchFacts DEF Branch, ToSetUp
<1>6. CASE Branch(rec, cur[p].old) = "sessions"
  <2>1. Store(p, rec)
    BY <1>4, <1>6 DEF Continue
  <2>2. T!Entry(Asked(p), rec)
    BY <1>2, <1>3, AnswerFacts DEF T!Entry
  <2> QED
    BY <1>1, <1>2, <1>3, <1>4, <2>1, <2>2, StoreAnswers
<1>7. CASE Branch(rec, cur[p].old) = "delIface"
  <2>1. Goto(p, "delIface", rec)
    BY <1>4, <1>7 DEF Continue
  <2>2. "delIface" \in Tearing
    BY DEF Tearing
  <2> QED
    BY <1>1, <1>2, <1>3, <1>4, <2>1, <2>2, GotoAnswers
<1> QED
  BY <1>5, <1>6, <1>7

LEMMA SetUpInterfaceAnswers ==
  ASSUME Answering, Shape', NEW p \in Procs, SetUpInterface(p)
  PROVE  Answering'
<1>1. pc[p] = "iface" /\ pc[p] \in Working
  BY DEF SetUpInterface, Working
<1>2. /\ cur[p] \in Hand /\ cur[p].rec \in BgpSession /\ cur[p].rec # None
      /\ cur[p].rec = Asked(p) /\ cur[p].rec.status \in ToSetUp
  BY <1>1, HandIsAsked DEF HandAnswers
<1>3. UNCHANGED <<local, remote, todo>>
  BY DEF SetUpInterface
<1>4. CASE Goto(p, "bird", cur[p].rec)
  <2>1. "bird" \in Working /\ "bird" \notin Tearing
    BY DEF Working, Tearing
  <2> QED
    BY <1>1, <1>2, <1>3, <1>4, <2>1, GotoAnswers
<1>5. CASE Goto(p, "report", [cur[p].rec EXCEPT !.status = "PROBLEM"])
  <2> DEFINE rec == [cur[p].rec EXCEPT !.status = "PROBLEM"]
  <2>1. rec \in BgpSession /\ rec.status = "PROBLEM" /\ rec.cfg = cur[p].rec.cfg
    BY <1>2, WithStatus DEF Status
  <2>2. "report" \in Working /\ "report" \notin Tearing
    BY DEF Working, Tearing
  <2>3. rec.status \in T!Answers(Asked(p).status)
    BY <1>2, <2>1, AnswerFacts
  <2> HIDE DEF rec
  <2> QED
    BY <1>1, <1>2, <1>3, <1>5, <2>1, <2>2, <2>3, GotoAnswers DEF rec
<1> QED
  BY <1>4, <1>5 DEF SetUpInterface

LEMMA SetUpBirdAnswers ==
  ASSUME Answering, Shape', NEW p \in Procs, SetUpBird(p)
  PROVE  Answering'
<1>1. pc[p] = "bird" /\ pc[p] \in Working
  BY DEF SetUpBird, Working
<1>2. /\ cur[p] \in Hand /\ cur[p].rec \in BgpSession /\ cur[p].rec # None
      /\ cur[p].rec = Asked(p) /\ cur[p].rec.status \in ToSetUp
  BY <1>1, HandIsAsked DEF HandAnswers
<1>3. UNCHANGED <<local, remote, todo>>
  BY DEF SetUpBird
<1>4. PICK ok \in BOOLEAN :
        Goto(p, "report", [cur[p].rec EXCEPT !.status = IF ok THEN "ENABLED" ELSE "PROBLEM"])
  BY DEF SetUpBird
<1> DEFINE status == IF ok THEN "ENABLED" ELSE "PROBLEM"
           rec == [cur[p].rec EXCEPT !.status = status]
<1>5. rec \in BgpSession /\ rec.status \in {"ENABLED", "PROBLEM"} /\ rec.cfg = cur[p].rec.cfg
  <2>1. status \in Status /\ status \in {"ENABLED", "PROBLEM"}
    BY DEF Status
  <2> HIDE DEF status
  <2> QED
    BY <1>2, <2>1, WithStatus
<1>6. "report" \in Working /\ "report" \notin Tearing
  BY DEF Working, Tearing
<1>7. rec.status \in T!Answers(Asked(p).status)
  BY <1>2, <1>5, AnswerFacts
<1>8. Goto(p, "report", rec)
  BY <1>4
<1> HIDE DEF rec
<1> QED
  BY <1>1, <1>2, <1>3, <1>5, <1>6, <1>7, <1>8, GotoAnswers

LEMMA ReportStatusAnswers ==
  ASSUME Answering, Shape', NEW p \in Procs, ReportStatus(p)
  PROVE  Answering'
<1>1. pc[p] = "report" /\ pc[p] \in Working
  BY DEF ReportStatus, Working
<1>2. /\ cur[p] \in Hand /\ cur[p] # None /\ cur[p].rec \in BgpSession
      /\ cur[p].rec # None /\ Asked(p) # None
      /\ cur[p].rec.cfg = Asked(p).cfg
      /\ cur[p].rec.status \in T!Answers(Asked(p).status)
  BY <1>1, HandIsAsked DEF HandAnswers
<1>3. T!Entry(Asked(p), cur[p].rec)
  BY <1>2 DEF T!Entry
<1> QED
  BY <1>1, <1>2, <1>3, StoreAnswers DEF ReportStatus

LEMMA AcknowledgeDeleteAnswers ==
  ASSUME Answering, Shape', NEW p \in Procs, AcknowledgeDelete(p)
  PROVE  Answering'
<1>1. pc[p] = "ack" /\ pc[p] \in Working
  BY DEF AcknowledgeDelete, Working
<1>2. /\ cur[p] \in Hand /\ cur[p] # None /\ cur[p].rec \in BgpSession
      /\ cur[p].rec # None /\ Asked(p) # None /\ cur[p].rec = Asked(p)
      /\ Asked(p).status = "QUEUED_FOR_DELETE"
  BY <1>1, HandIsAsked DEF HandAnswers, HandOK
<1>3. PICK ok \in BOOLEAN :
        Store(p, IF ok THEN [cur[p].rec EXCEPT !.status = "DELETED"] ELSE cur[p].rec)
  BY DEF AcknowledgeDelete
<1> DEFINE rec == IF ok THEN [cur[p].rec EXCEPT !.status = "DELETED"] ELSE cur[p].rec
<1>4. /\ rec \in BgpSession /\ rec # None /\ rec.cfg = Asked(p).cfg
      /\ rec = Asked(p) \/ rec.status = "DELETED"
  <2>1. CASE ok
    <3>1. /\ rec \in BgpSession /\ rec # None
          /\ rec.cfg = cur[p].rec.cfg /\ rec.status = "DELETED"
      BY <1>2, <2>1, WithStatus DEF Status
    <3> HIDE DEF rec
    <3> QED
      BY <1>2, <3>1
  <2>2. CASE ~ ok
    BY <1>2, <2>2
  <2> QED
    BY <2>1, <2>2
<1>5. Store(p, rec)
  BY <1>3
<1> HIDE DEF rec
<1>6. T!Entry(Asked(p), rec)
  BY <1>2, <1>4, AnswerFacts DEF T!Entry
<1> QED
  BY <1>1, <1>2, <1>4, <1>5, <1>6, StoreAnswers DEF AcknowledgeDelete

LEMMA TearDownInterfaceAnswers ==
  ASSUME Answering, Shape', NEW p \in Procs, TearDownInterface(p)
  PROVE  Answering'
<1>1. /\ pc[p] = "delIface" /\ pc[p] \in Tearing /\ Goto(p, "delBird", cur[p].rec)
      /\ UNCHANGED <<local, remote, todo>>
  BY DEF TearDownInterface, Tearing
<1>2. /\ TypeOK /\ cur[p] \in Hand /\ cur[p] # None /\ cur[p].rec \in BgpSession \cup {None}
      /\ HandAnswers(p) /\ AnsweredSoFar(p)
  BY <1>1, HandIsAsked
<1>3. "delBird" \in Tearing /\ "delBird" \notin Working
  BY DEF Tearing, Working
<1>4. CASE cur[p].rec # None
  <2>1. /\ cur[p].rec \in BgpSession /\ cur[p].rec.cfg = Asked(p).cfg
        /\ cur[p].rec = Asked(p) \/ cur[p].rec.status = "TEARDOWN"
    BY <1>1, <1>2, <1>4 DEF HandAnswers
  <2> QED
    BY <1>1, <1>2, <1>3, <1>4, <2>1, GotoAnswers
<1>5. CASE cur[p].rec = None
  <2>1. /\ cur'[p] \in Hand /\ cur'[p].rec = None /\ pc'[p] = "delBird" /\ next' = next
        /\ \A q \in Procs : q # p => cur'[q] = cur[q] /\ pc'[q] = pc[q]
    BY <1>1, <1>2, <1>5, GotoHand
  <2>2. HandAnswers(p)'
    BY <2>1 DEF HandAnswers
  <2>3. AnsweredSoFar(p)'
    BY <1>1, <1>2, <1>5, <2>1 DEF AnsweredSoFar, Asks, InRemoval
  <2> QED
    BY <1>1, <2>1, <2>2, <2>3, OwnAnswers DEF Answering, Settled
<1> QED
  BY <1>4, <1>5

LEMMA TearDownBirdAnswers ==
  ASSUME Answering, Shape', NEW p \in Procs, TearDownBird(p)
  PROVE  Answering'
<1>1. /\ pc[p] = "delBird" /\ pc[p] \in Tearing
      /\ UNCHANGED <<local, remote, todo>>
  BY DEF TearDownBird, Tearing
<1>2. /\ TypeOK /\ cur[p] \in Hand /\ cur[p] # None /\ cur[p].rec \in BgpSession \cup {None}
      /\ HandOK(p) /\ HandAnswers(p) /\ AnsweredSoFar(p)
  BY <1>1, HandIsAsked
<1>3. cur[p].rec # None =>
        /\ cur[p].rec \in BgpSession /\ Asked(p) # None
        /\ cur[p].rec.cfg = Asked(p).cfg
        /\ cur[p].rec = Asked(p) \/ cur[p].rec.status = "TEARDOWN"
        /\ cur[p].rec.status \in ToRemove \cup {"QUEUED_FOR_DELETE"}
  BY <1>1, <1>2 DEF HandAnswers, HandOK
<1>4. CASE /\ cur[p].rec = None
           /\ cur' = [cur EXCEPT ![p] = None]
           /\ pc' = [pc EXCEPT ![p] = "gone"]
           /\ next' = next
  <2>1. /\ cur'[p] = None /\ pc'[p] = "gone"
        /\ \A q \in Procs : q # p => cur'[q] = cur[q] /\ pc'[q] = pc[q]
    BY <1>2, <1>4 DEF TypeOK
  <2>2. HandAnswers(p)'
    BY <2>1 DEF HandAnswers
  <2>3. AnsweredSoFar(p)'
    BY <1>1, <1>2, <1>4, <2>1 DEF AnsweredSoFar, Asks, InRemoval
  <2> QED
    BY <1>1, <2>1, <2>2, <2>3, OwnAnswers DEF Answering
<1>5. CASE /\ cur[p].rec # None
           /\ cur[p].rec.status = "QUEUED_FOR_DELETE"
           /\ Goto(p, "report", [cur[p].rec EXCEPT !.status = "DELETED"])
  <2> DEFINE rec == [cur[p].rec EXCEPT !.status = "DELETED"]
  <2>1. rec \in BgpSession /\ rec.status = "DELETED" /\ rec.cfg = cur[p].rec.cfg
    BY <1>3, <1>5, WithStatus DEF Status
  <2>2. "report" \in Working /\ "report" \notin Tearing
    BY DEF Working, Tearing
  <2>3. Goto(p, "report", rec)
    BY <1>5
  <2> HIDE DEF rec
  <2>4. rec.status \in T!Answers(Asked(p).status) /\ rec.cfg = Asked(p).cfg
    BY <1>3, <1>5, <2>1, AnswerFacts
  <2> QED
    BY <1>1, <1>2, <1>5, <2>1, <2>2, <2>3, <2>4, GotoAnswers
<1>6. CASE /\ cur[p].rec # None
           /\ cur[p].rec.status # "QUEUED_FOR_DELETE"
           /\ Store(p, cur[p].rec)
  <2>1. T!Entry(Asked(p), cur[p].rec)
    BY <1>2, <1>3, <1>6, AnswerFacts DEF T!Entry, ToRemove
  <2> QED
    BY <1>1, <1>2, <1>3, <1>6, <2>1, StoreAnswers
<1> QED
  BY <1>4, <1>5, <1>6 DEF TearDownBird

LEMMA StartRemovalAnswers ==
  ASSUME Answering, Shape', NEW p \in Procs, StartRemoval(p)
  PROVE  Answering'
<1>1. TypeOK /\ HandOK(p) /\ AnsweredSoFar(p)
  BY DEF Answering, Shape
<1>2. /\ pc[p] = "sessions" /\ todo[p] = {} /\ pc'[p] = "gone"
      /\ UNCHANGED <<local, remote, cur, next>>
      /\ \A q \in Procs : q # p => pc'[q] = pc[q]
  BY <1>1 DEF StartRemoval, TypeOK
<1>3. cur[p] = None
  BY <1>1, <1>2 DEF HandOK, AtRest
<1>4. HandAnswers(p)' /\ AnsweredSoFar(p)'
  BY <1>1, <1>2, <1>3 DEF HandAnswers, AnsweredSoFar, Asks
<1> QED
  BY <1>2, <1>4, OwnAnswers DEF Answering

LEMMA RemoveSessionAnswers ==
  ASSUME Answering, Shape', NEW p \in Procs, NEW u \in Sessions, RemoveSession(p, u)
  PROVE  Answering'
<1> DEFINE h == [sess |-> u, rec |-> None, old |-> local[u]]
<1>1. TypeOK /\ AnsweredSoFar(p) /\ h.rec = None
  BY DEF Answering, Shape
<1>2. pc[p] = "gone" /\ cur' = [cur EXCEPT ![p] = h] /\ UNCHANGED <<local, remote, next>>
  BY DEF RemoveSession
<1>3. /\ cur'[p] = h /\ pc'[p] = "delIface"
      /\ \A q \in Procs : q # p => cur'[q] = cur[q] /\ pc'[q] = pc[q]
  BY <1>1 DEF RemoveSession, TypeOK
<1> HIDE DEF h
<1>4. HandAnswers(p)'
  BY <1>1, <1>3 DEF HandAnswers
<1>5. AnsweredSoFar(p)'
  BY <1>1, <1>2, <1>3 DEF AnsweredSoFar, Asks, InRemoval
<1> QED
  BY <1>2, <1>3, <1>4, <1>5, OwnAnswers DEF Answering

(* The table a run installs answers its snapshot entry by entry.           *)
LEMMA InstalledAnswers ==
  ASSUME Answering, NEW p \in Procs, Install(p)
  PROVE  /\ Asks(p)
         /\ \A u \in Sessions : T!Entry(remote[p][u], local'[u])
<1>1. pc[p] = "gone" /\ local' = next[p] /\ AnsweredSoFar(p) /\ InRemoval(p) /\ Asks(p)
  BY DEF Install, Answering, InRemoval, Asks
<1>2. ASSUME NEW u \in Sessions
      PROVE  T!Entry(remote[p][u], local'[u])
  <2>1. next[p][u] # None => T!Entry(remote[p][u], next[p][u])
    BY <1>1 DEF AnsweredSoFar
  <2>2. next[p][u] = None => remote[p][u] = None
    BY <1>1 DEF AnsweredSoFar
  <2> QED
    BY <1>1, <2>1, <2>2 DEF T!Entry
<1> QED
  BY <1>1, <1>2

LEMMA InstallAnswers ==
  ASSUME Answering, Shape', NEW p \in Procs, Install(p)
  PROVE  Answering'
<1>1. Settled(local')
  BY InstalledAnswers, EntrySettled DEF Settled
<1>2. /\ pc[p] # "idle" /\ pc'[p] = "idle" /\ cur'[p] = None
      /\ \A q \in Procs : q # p => cur'[q] = cur[q] /\ pc'[q] = pc[q]
  BY DEF Install, Return, Answering, Shape, TypeOK
<1>3. HandAnswers(p)' /\ AnsweredSoFar(p)'
  BY <1>2 DEF HandAnswers, AnsweredSoFar, Asks
<1> QED
  BY <1>1, <1>2, <1>3, OwnAnswers

LEMMA OperatorEditAnswers ==
  ASSUME Answering, Shape', NEW u \in Sessions, NEW row, OperatorEdit(u, row)
  PROVE  Answering'
  BY DEF Answering, OperatorEdit, runVars, Settled, HandAnswers, Asked, AnsweredSoFar, Asks, InRemoval

LEMMA RestartAnswers ==
  ASSUME Answering, Shape', Restart
  PROVE  Answering'
  BY DEF Answering, Restart, Settled, Empty, HandAnswers, AnsweredSoFar, Asks

LEMMA InitAnswers == Init => Answering
  BY InitShape DEF Init, Answering, Settled, Empty, HandAnswers, AnsweredSoFar, Asks

-----------------------------------------------------------------------------
(* The step SessionTable sees: one of its own or none.                     *)
Seen == [T!TNext]_(T!tvars)

LEMMA Unseen ==
  ASSUME UNCHANGED <<center, local, edits>>, Snapshot' = Snapshot
  PROVE  Seen
  BY DEF Seen, T!tvars

(* A step inside a run that leaves the tables alone is not seen.           *)
LEMMA InsideUnseen ==
  ASSUME Answering, Answering', NEW p \in Procs, Asks(p), Asks(p)',
         UNCHANGED <<center, local, edits, remote>>
  PROVE  Seen
  BY SnapshotKept, Unseen DEF Answering

(* A report is seen when the center takes it, as an answer.                *)
LEMMA ReportSeen ==
  ASSUME Answering, Answering', NEW p \in Procs, Asks(p), Asks(p)',
         cur[p].sess \in Sessions, Asked(p) # None,
         NEW status \in T!Answers(Asked(p).status), NEW ok,
         Report(cur[p].sess, status, ok), UNCHANGED <<local, remote>>
  PROVE  Seen
<1>1. Snapshot' = Snapshot /\ Snapshot = remote[p] /\ Snapshot # None
  BY SnapshotKept, SnapshotOf DEF Answering
<1>2. CASE center' = center
  BY <1>1, <1>2, Unseen DEF Report
<1>3. CASE /\ center[cur[p].sess] # None
           /\ center' = [center EXCEPT ![cur[p].sess].status = status]
  <2>1. T!TReport(cur[p].sess)
    BY <1>1, <1>3 DEF T!TReport, Report, Asked
  <2> QED
    BY <2>1 DEF Seen, T!TNext
<1> QED
  BY <1>2, <1>3 DEF Report

LEMMA StartSyncSeen ==
  ASSUME Answering, Answering', NEW p \in Procs, StartSync(p)
  PROVE  Seen
<1>1. /\ UNCHANGED <<center, local, edits, remote>> /\ pc[p] = "idle" /\ ~ running
      /\ pc' = [pc EXCEPT ![p] = "fetch"]
  BY DEF StartSync, tableVars
<1>2. \A q \in Procs : pc[q] = "idle"
  BY <1>1 DEF Answering, Shape, SingleSync
<1>3. (\A q \in Procs : ~ Asks(q)) /\ (\A q \in Procs : ~ Asks(q)')
  BY <1>1, <1>2 DEF Asks, Answering, Shape, TypeOK
<1>4. Snapshot = None /\ Snapshot' = None
  BY <1>3, NoSnapshotOf, NoSnapshotNext
<1> QED
  BY <1>1, <1>4, Unseen

(* Before its answer has come, no other call has one.                      *)
LEMMA FetchingAlone ==
  ASSUME Answering, NEW p \in Procs, pc[p] = "fetch"
  PROVE  Snapshot = None
<1>1. \A q \in Procs : ~ Asks(q)
  BY Alone DEF Answering, Asks
<1> QED
  BY <1>1, NoSnapshotOf

LEMMA FetchSeen ==
  ASSUME Answering, Answering', NEW p \in Procs, Fetch(p)
  PROVE  Seen
<1>1. /\ UNCHANGED <<center, local, edits>> /\ pc[p] = "fetch" /\ pc'[p] = "sessions"
      /\ remote'[p] = center
  BY DEF Fetch, tableVars, Answering, Shape, TypeOK
<1>2. Snapshot' = center
  BY <1>1, SnapshotNext DEF Asks, Answering
<1>3. T!TSnapshot
  BY <1>1, <1>2, FetchingAlone DEF T!TSnapshot
<1> QED
  BY <1>3 DEF Seen, T!TNext

(* A run that has ended, however, leaves no snapshot.                      *)
LEMMA Returned ==
  ASSUME Answering, NEW p \in Procs, pc[p] # "idle", Return(p)
  PROVE  Snapshot' = None
<1>1. \A q \in Procs : ~ Asks(q)'
  BY Alone DEF Return, Answering, Shape, TypeOK, Asks
<1> QED
  BY <1>1, NoSnapshotNext

LEMMA FetchFailsSeen ==
  ASSUME Answering, Answering', NEW p \in Procs, FetchFails(p)
  PROVE  Seen
<1>1. UNCHANGED <<center, local, edits>> /\ pc[p] = "fetch" /\ Return(p)
  BY DEF FetchFails, tableVars
<1> QED
  BY <1>1, Returned, FetchingAlone, Unseen

LEMMA InstallSeen ==
  ASSUME Answering, Answering', NEW p \in Procs, Install(p)
  PROVE  Seen
<1>1. UNCHANGED <<center, edits>> /\ pc[p] # "idle" /\ Return(p)
  BY DEF Install, tableVars
<1>2. local' \in T!Tables
  BY SameTables DEF Answering, Shape, TypeOK
<1>3. T!TInstall
  BY <1>1, <1>2, Returned, InstalledAnswers, SnapshotOf DEF T!TInstall, Answering
<1> QED
  BY <1>3 DEF Seen, T!TNext

LEMMA OperatorEditSeen ==
  ASSUME Answering, Answering', NEW u \in Sessions, NEW row, OperatorEdit(u, row)
  PROVE  Seen
<1>1. edits' = edits + 1 /\ local' = local /\ Snapshot' = Snapshot
  BY DEF OperatorEdit, runVars, Snapshot, Asking
<1>2. center' \in T!Tables
  BY SameTables DEF Answering, Shape, TypeOK
<1> QED
  BY <1>1, <1>2 DEF Seen, T!TNext, T!TEdit

LEMMA RestartSeen ==
  ASSUME Answering, Answering', Restart
  PROVE  Seen
<1>1. Snapshot' = None
  BY NoSnapshotNext DEF Restart, Asks
<1> QED
  BY <1>1 DEF Restart, tableVars, Empty, Seen, T!TNext, T!TForget

(* The steps of a run between its snapshot and its end.                    *)
LEMMA InsideSeen ==
  ASSUME Answering, Answering', NEW p \in Procs, Step(p)
  PROVE  Seen
<1>0. TypeOK
  BY DEF Answering, Shape
<1>1. CASE FetchFails(p) \/ Fetch(p) \/ Install(p)
  BY <1>1, FetchFailsSeen, FetchSeen, InstallSeen
<1>2. ASSUME NEW u \in Sessions, KeepSession(p, u) \/ TakeSession(p, u) \/ RemoveSession(p, u)
      PROVE  Seen
  <2>1. pc[p] \in {"sessions", "gone"} /\ UNCHANGED <<center, local, edits, remote>>
    BY <1>2 DEF KeepSession, TakeSession, RemoveSession, tableVars
  <2>2. CASE KeepSession(p, u)
    BY <2>1, <2>2, InsideUnseen DEF KeepSession, Asks
  <2>3. CASE TakeSession(p, u)
    <3>1. remote[p][u] \in BgpSession
      <4>1. pc[p] = "sessions" /\ u \in todo[p] /\ HandOK(p) /\ TodoOK(p)
        BY <2>3 DEF TakeSession, Answering, Shape
      <4>2. ~ InRemoval(p)
        BY <4>1 DEF HandOK, InRemoval, AtRest
      <4> QED
        BY <1>0, <4>1, <4>2 DEF TodoOK, Present, TypeOK, Table
    <3>2. pc'[p] \notin {"idle", "fetch"}
      BY <1>0, <2>3, <3>1, BranchFacts DEF TakeSession, TypeOK
    <3> QED
      BY <2>1, <3>2, InsideUnseen DEF Asks
  <2>4. CASE RemoveSession(p, u)
    <3>1. pc'[p] = "delIface"
      BY <1>0, <2>4 DEF RemoveSession, TypeOK
    <3> QED
      BY <2>1, <3>1, InsideUnseen DEF Asks
  <2> QED
    BY <1>2, <2>2, <2>3, <2>4
<1>3. CASE RejectSession(p) \/ ReportStatus(p) \/ AcknowledgeDelete(p)
  <2>1. pc[p] \in {"invalid", "report", "ack"} /\ pc[p] \in Working
    BY <1>3 DEF RejectSession, ReportStatus, AcknowledgeDelete, Working
  <2>2. /\ cur[p] # None /\ cur[p].sess \in Sessions /\ cur[p].rec # None
        /\ cur[p].rec \in BgpSession /\ HandOK(p) /\ HandAnswers(p) /\ Asked(p) # None
    BY <2>1, HandIsAsked
  <2>3. UNCHANGED <<local, remote>> /\ Asks(p)
    BY <1>3, <2>1 DEF RejectSession, ReportStatus, AcknowledgeDelete, Asks
  <2>4. Asks(p)'
    <3>1. CASE RejectSession(p)
      <4> DEFINE rec == [cur[p].rec EXCEPT !.status = "TEARDOWN"]
      <4>1. rec \in BgpSession /\ Continue(p, rec)
        BY <2>2, <3>1, WithStatus DEF RejectSession, Status
      <4> HIDE DEF rec
      <4>2. Branch(rec, cur[p].old) \notin {"idle", "fetch"}
        BY <4>1, BranchFacts
      <4> QED
        BY <1>0, <4>1, <4>2 DEF Continue, Store, Goto, TypeOK, Asks
    <3>2. CASE ReportStatus(p) \/ AcknowledgeDelete(p)
      BY <1>0, <3>2 DEF ReportStatus, AcknowledgeDelete, Store, TypeOK, Asks
    <3> QED
      BY <1>3, <3>1, <3>2
  <2>5. \E ok, status : /\ status \in T!Answers(Asked(p).status)
                        /\ Report(cur[p].sess, status, ok)
    <3>1. CASE RejectSession(p)
      BY <3>1, AnswerFacts DEF RejectSession
    <3>2. CASE ReportStatus(p)
      BY <2>2, <3>2 DEF ReportStatus, HandAnswers
    <3>3. CASE AcknowledgeDelete(p)
      <4>1. Asked(p).status = "QUEUED_FOR_DELETE"
        BY <2>2, <3>3 DEF AcknowledgeDelete, HandAnswers, HandOK
      <4> QED
        BY <3>3, <4>1, AnswerFacts DEF AcknowledgeDelete
    <3> QED
      BY <1>3, <3>1, <3>2, <3>3
  <2> QED
    BY <2>2, <2>3, <2>4, <2>5, ReportSeen
<1>4. CASE SetUpInterface(p) \/ SetUpBird(p) \/ TearDownInterface(p) \/ TearDownBird(p)
           \/ StartRemoval(p)
  <2>1. Asks(p) /\ UNCHANGED <<center, local, edits, remote>>
    BY <1>4 DEF SetUpInterface, SetUpBird, TearDownInterface, TearDownBird, StartRemoval,
                tableVars, Asks
  <2>2. Asks(p)'
    BY <1>0, <1>4 DEF SetUpInterface, SetUpBird, TearDownInterface, TearDownBird, StartRemoval,
                      Goto, Store, TypeOK, Asks
  <2> QED
    BY <2>1, <2>2, InsideUnseen
<1> QED
  BY <1>1, <1>2, <1>3, <1>4 DEF Step

(* Every step keeps Answering, and is a step of SessionTable or none.      *)
LEMMA AnsweringStep ==
  ASSUME Answering, [SyncNext]_vars
  PROVE  Answering' /\ Seen
<1>1. Shape'
  BY ShapeStep DEF Answering
<1>2. CASE UNCHANGED vars
  <2>1. UNCHANGED <<center, local, edits, pc, remote, todo, cur, next>>
    BY <1>2 DEF vars, syncVars, tableVars, runVars
  <2>2. Answering'
    BY <1>1, <2>1 DEF Answering, Settled, HandAnswers, Asked, AnsweredSoFar, Asks, InRemoval
  <2>3. Snapshot' = Snapshot
    BY <2>1 DEF Snapshot, Asking
  <2> QED
    BY <2>1, <2>2, <2>3, Unseen
<1>3. ASSUME NEW p \in Procs, StartSync(p) PROVE Answering' /\ Seen
  BY <1>1, <1>3, StartSyncAnswers, StartSyncSeen
<1>4. ASSUME NEW p \in Procs, Step(p) PROVE Answering' /\ Seen
  <2>1. Answering'
    BY <1>1, <1>4, FetchFailsAnswers, FetchAnswers, KeepSessionAnswers, TakeSessionAnswers,
       RemoveSessionAnswers, RejectSessionAnswers, SetUpInterfaceAnswers, SetUpBirdAnswers,
       ReportStatusAnswers, AcknowledgeDeleteAnswers, TearDownInterfaceAnswers,
       TearDownBirdAnswers, StartRemovalAnswers, InstallAnswers DEF Step
  <2> QED
    BY <1>4, <2>1, InsideSeen
<1>5. CASE Environment
  BY <1>1, <1>5, OperatorEditAnswers, OperatorEditSeen, RestartAnswers, RestartSeen
  DEF Environment
<1> QED
  BY <1>2, <1>3, <1>4, <1>5 DEF SyncNext

(* For any number of sessions, callers, failures, edits and restarts,      *)
(* SessionSync implements SessionTable: the agent's table changes in one   *)
(* step, to one that answers a single snapshot entry by entry, and the     *)
(* center only receives answers to that snapshot (syncSessions).           *)
THEOREM ImplementsTable == Spec => AnswersOneSnapshot
<1>1. Init => T!TInit
  <2> SUFFICES ASSUME Init PROVE T!TInit
    OBVIOUS
  <2>1. center \in T!Tables
    BY InitShape, SameTables DEF Shape, TypeOK
  <2>2. Snapshot = None
    BY NoSnapshotOf DEF Init, Asks
  <2> QED
    BY <2>1, <2>2 DEF T!TInit, Init, Empty
<1>2. Answering /\ [SyncNext]_vars => Answering' /\ [T!TNext]_(T!tvars)
  BY AnsweringStep DEF Seen
<1> QED
  BY <1>1, <1>2, InitAnswers, PTL DEF Spec, AnswersOneSnapshot, T!TSpec
=============================================================================
