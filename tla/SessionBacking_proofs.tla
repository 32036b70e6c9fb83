------------------------ MODULE SessionBacking_proofs -----------------------
(***************************************************************************)
(* Proof that an enabled session is backed by the node, for every value of *)
(* the constants with which no two sessions share an interface or a file.  *)
(* On top of Shape it takes two invariants: Order says which sessions the  *)
(* run under way has answered, and Backing what the node has for them.     *)
(* How much of it is claimed is a parameter: with the files, or, as where  *)
(* another task writes them too, the interfaces only.                      *)
(* Then the converse: what a run of syncSessions leaves on the node        *)
(* belongs to a session of the table it installs, and BIRD runs the files  *)
(* that table counts on.  Owned says whose every interface and file is;    *)
(* Covering says which table answers for it while the run is under way.    *)
(***************************************************************************)
EXTENDS Agent, SessionSync_proofs

Named(u, s) == s # None => s.cfg \in CfgOf[u]

Names ==
  \A u \in Sessions :
    /\ Named(u, center[u]) /\ Named(u, local[u])
    /\ \A p \in Procs : Named(u, remote[p][u]) /\ Named(u, next[p][u])

HandNamed(p) ==
  cur[p] # None => Named(cur[p].sess, cur[p].rec) /\ Named(cur[p].sess, cur[p].old)

(* The session in hand, those still ahead and those answered are disjoint; *)
(* what is answered is in the answer of the center.                        *)
Apart(p) ==
  /\ cur[p] # None =>
       /\ cur[p].sess \notin todo[p]
       /\ next[p][cur[p].sess] = None
       /\ cur[p].rec = None <=> remote[p][cur[p].sess] = None
  /\ \A u \in Sessions : next[p][u] # None => remote[p][u] # None /\ u \notin todo[p]

Order == Names /\ \A p \in Procs : HandNamed(p) /\ Apart(p)

(* A call about to write the BIRD file has the interface up.               *)
Raised(p) ==
  pc[p] = "bird" =>
    link[IfaceOf[cur[p].rec.cfg]] = Made(cur[p].sess, cur[p].rec.cfg, TRUE)

(* What an entry of session u claims: Backed when "file" is in parts, and  *)
(* the interface alone otherwise.                                          *)
Held(parts, u, s) ==
  s # None /\ s.status = "ENABLED" =>
    /\ link[IfaceOf[s.cfg]] = Made(u, s.cfg, TRUE)
    /\ "file" \in parts => conf[File(s.cfg)] = Made(u, s.cfg, TRUE)

Claims(parts) ==
  /\ \A u \in Sessions : (\A p \in Procs : Untouched(p, u)) => Held(parts, u, local[u])
  /\ \A p \in Procs, u \in Sessions : Held(parts, u, next[p][u])
  /\ \A p \in Procs : pc[p] = "report" => Held(parts, cur[p].sess, cur[p].rec)

Backing(parts) ==
  /\ Shape
  /\ Order
  /\ UniqueNames
  /\ Claims(parts)
  /\ \A p \in Procs : Raised(p)

-----------------------------------------------------------------------------
LEMMA EmptyNamed == \A u \in Sessions : Empty[u] = None
  BY DEF Empty

LEMMA InitOrder == Init => Order
<1> SUFFICES ASSUME Init PROVE Order
  OBVIOUS
<1>1. Names
  BY EmptyNamed DEF Init, Names, Named, Present
<1>2. \A p \in Procs : HandNamed(p) /\ Apart(p)
  BY EmptyNamed DEF Init, HandNamed, Apart
<1> QED
  BY <1>1, <1>2 DEF Order

(* A report changes no configuration.                                      *)
LEMMA ReportNames ==
  ASSUME Names, center \in Table, NEW v \in Sessions, NEW status \in Status, NEW ok,
         Report(v, status, ok)
  PROVE  \A u \in Sessions : Named(u, center'[u])
<1>1. ASSUME NEW u \in Sessions PROVE Named(u, center'[u])
  <2>1. CASE center' = center
    BY <2>1 DEF Names
  <2>2. CASE center' = [center EXCEPT ![v].status = status] /\ center[v] # None
    <3>1. center[v] \in BgpSession
      BY <2>2 DEF Table
    <3> DEFINE new == [center[v] EXCEPT !.status = status]
    <3>2. new.cfg = center[v].cfg
      BY <3>1, WithStatus
    <3>3. center' = [center EXCEPT ![v] = new]
      BY <2>2
    <3> HIDE DEF new
    <3> QED
      BY <3>2, <3>3, <2>2 DEF Names, Named, Table
  <2> QED
    BY <2>1, <2>2 DEF Report
<1> QED
  BY <1>1

(* What a step of call p that leaves the others and the local table alone  *)
(* has to keep.                                                            *)
LEMMA OwnOrder ==
  ASSUME Order, NEW p \in Procs,
         \A u \in Sessions : Named(u, center'[u]) /\ Named(u, next'[p][u]) /\ Named(u, remote'[p][u]),
         local' = local,
         \A q \in Procs : q # p => /\ cur'[q] = cur[q]
                                 /\ todo'[q] = todo[q]
                                 /\ remote'[q] = remote[q]
                                 /\ next'[q] = next[q],
         HandNamed(p)', Apart(p)'
  PROVE  Order'
<1>1. ASSUME NEW q \in Procs, q # p
      PROVE  HandNamed(q)' /\ Apart(q)'
  BY <1>1 DEF Order, HandNamed, Named, Apart
<1>2. Names'
  BY DEF Order, Names, Named
<1> QED
  BY <1>1, <1>2 DEF Order

LEMMA GotoOrder ==
  ASSUME Shape, Order, NEW p \in Procs, cur[p] \in Hand, NEW place,
         NEW rec \in BgpSession \cup {None}, Goto(p, place, rec),
         rec = None <=> cur[p].rec = None,
         rec # None => rec.cfg = cur[p].rec.cfg,
         \A u \in Sessions : Named(u, center'[u]),
         UNCHANGED <<local, remote, todo>>
  PROVE  Order'
<1>1. /\ cur'[p] \in Hand /\ cur'[p].rec = rec
      /\ cur'[p].sess = cur[p].sess /\ cur'[p].old = cur[p].old
      /\ next' = next
      /\ \A q \in Procs : q # p => cur'[q] = cur[q]
  BY GotoHand DEF Shape
<1>2. cur[p] # None
  BY HandAssumption
<1>3. HandNamed(p)'
  BY <1>1, <1>2 DEF Order, HandNamed, Named
<1>4. Apart(p)'
  BY <1>1, <1>2 DEF Order, Apart
<1>5. \A u \in Sessions : Named(u, next'[p][u]) /\ Named(u, remote'[p][u])
  BY <1>1 DEF Order, Names
<1> QED
  BY <1>1, <1>3, <1>4, <1>5, OwnOrder

LEMMA StoreOrder ==
  ASSUME Shape, Order, NEW p \in Procs, cur[p] \in Hand, cur[p].rec # None,
         NEW rec \in BgpSession, Store(p, rec),
         rec.cfg = cur[p].rec.cfg,
         \A u \in Sessions : Named(u, center'[u]),
         UNCHANGED <<local, remote, todo>>
  PROVE  Order'
<1>1. cur[p] # None /\ cur[p].sess \in Sessions
  BY HandAssumption DEF Hand
<1>2. /\ next'[p] = [next[p] EXCEPT ![cur[p].sess] = rec]
      /\ next[p] \in Table
      /\ cur'[p] = None
      /\ \A q \in Procs : q # p => cur'[q] = cur[q] /\ next'[q] = next[q]
  BY DEF Store, Shape, TypeOK
<1>3. \A u \in Sessions : next'[p][u] = IF u = cur[p].sess THEN rec ELSE next[p][u]
  BY <1>2 DEF Table
<1>4. Named(cur[p].sess, rec)
  BY <1>1 DEF Order, HandNamed, Named
<1>5. \A u \in Sessions : Named(u, next'[p][u]) /\ Named(u, remote'[p][u])
  BY <1>3, <1>4 DEF Order, Names
<1>6. Apart(p)'
  BY <1>1, <1>2, <1>3 DEF Order, Apart
<1>7. HandNamed(p)'
  BY <1>2 DEF HandNamed
<1> QED
  BY <1>2, <1>5, <1>6, <1>7, OwnOrder

(* The end of a run, with local' the new table.                            *)
LEMMA ReturnOrder ==
  ASSUME Shape, Order, NEW p \in Procs, pc[p] # "idle", Return(p),
         \A u \in Sessions : Named(u, local'[u]),
         center' = center
  PROVE  Order'
<1>1. \A q \in Procs : cur'[q] = None
  BY Alone DEF Shape, TypeOK, Return
<1>2. /\ \A q \in Procs : next'[q] = Empty
      /\ remote' = [remote EXCEPT ![p] = Empty]
  BY Alone DEF Shape, TypeOK, Return
<1>3. \A q \in Procs : HandNamed(q)' /\ Apart(q)'
  BY <1>1, <1>2, EmptyNamed DEF HandNamed, Apart
<1>4. \A q \in Procs, u \in Sessions : Named(u, remote'[q][u])
  BY <1>2, EmptyNamed DEF Order, Names, Named, Shape, TypeOK
<1>5. Names'
  <2>1. \A q \in Procs, u \in Sessions : Named(u, next'[q][u])
    BY <1>2, EmptyNamed DEF Named
  <2> QED
    BY <1>4, <2>1 DEF Order, Names, Named
<1> QED
  BY <1>3, <1>5 DEF Order
-----------------------------------------------------------------------------
(* The node is left alone for every session but v.                         *)
Elsewhere(v) ==
  \A u \in Sessions : u # v =>
    \A c \in CfgOf[u] :
      link'[IfaceOf[c]] = link[IfaceOf[c]] /\ conf'[File(c)] = conf[File(c)]

LEMMA ElsewhereKeeps ==
  ASSUME NEW parts, NEW v, Elsewhere(v), NEW u \in Sessions, u # v,
         NEW s, Named(u, s), Held(parts, u, s)
  PROVE  Held(parts, u, s)'
  BY DEF Elsewhere, Named, Held

(* What happens to one interface and one file of session v stays with v.   *)
LEMMA OwnResources ==
  ASSUME ProvTypeOK, UniqueNames, NEW v \in Sessions, NEW c \in Cfgs, c \in CfgOf[v],
         \A i \in Ifaces : i # IfaceOf[c] => link'[i] = link[i],
         \A f \in Files : f # File(c) => conf'[f] = conf[f]
  PROVE  Elsewhere(v)
  BY ConfigAssumption DEF Elsewhere, UniqueNames, File

LEMMA ConfigureInterfaceElsewhere ==
  ASSUME ProvTypeOK, UniqueNames, NEW v \in Sessions, NEW c \in Cfgs, c \in CfgOf[v],
         NEW ok, ConfigureInterface(v, c, ok)
  PROVE  Elsewhere(v)
<1>1. \A i \in Ifaces : i # IfaceOf[c] => link'[i] = link[i]
  BY DEF ConfigureInterface, ProvTypeOK
<1>2. \A f \in Files : f # File(c) => conf'[f] = conf[f]
  BY DEF ConfigureInterface
<1> QED
  BY <1>1, <1>2, OwnResources

LEMMA DeleteInterfaceElsewhere ==
  ASSUME ProvTypeOK, UniqueNames, NEW v \in Sessions, NEW c \in Cfgs, c \in CfgOf[v],
         DeleteInterface(c)
  PROVE  Elsewhere(v)
<1>1. \A i \in Ifaces : i # IfaceOf[c] => link'[i] = link[i]
  BY DEF DeleteInterface, ProvTypeOK
<1>2. \A f \in Files : f # File(c) => conf'[f] = conf[f]
  BY DEF DeleteInterface
<1> QED
  BY <1>1, <1>2, OwnResources

LEMMA ConfigureBirdElsewhere ==
  ASSUME ProvTypeOK, UniqueNames, NEW v \in Sessions, NEW c \in Cfgs, c \in CfgOf[v],
         NEW ok, ConfigureBird(v, c, ok)
  PROVE  Elsewhere(v)
<1>1. \A i \in Ifaces : i # IfaceOf[c] => link'[i] = link[i]
  BY DEF ConfigureBird
<1>2. \A f \in Files : f # File(c) => conf'[f] = conf[f]
  BY DEF ConfigureBird, WriteFails, ProvTypeOK
<1> QED
  BY <1>1, <1>2, OwnResources

LEMMA DeleteBirdElsewhere ==
  ASSUME ProvTypeOK, UniqueNames, NEW v \in Sessions, NEW c \in Cfgs, c \in CfgOf[v],
         DeleteBird(c)
  PROVE  Elsewhere(v)
<1>1. \A i \in Ifaces : i # IfaceOf[c] => link'[i] = link[i]
  BY DEF DeleteBird
<1>2. \A f \in Files : f # File(c) => conf'[f] = conf[f]
  BY DEF DeleteBird, ProvTypeOK
<1> QED
  BY <1>1, <1>2, OwnResources

(* A report leaves the node alone.                                         *)
LEMMA ReportElsewhere ==
  ASSUME NEW v \in Sessions, NEW w, NEW status, NEW ok, Report(v, status, ok)
  PROVE  link' = link /\ conf' = conf /\ Elsewhere(w)
  BY DEF Report, Elsewhere

-----------------------------------------------------------------------------
(* The session in hand has been come to.                                   *)
LEMMA InHand ==
  ASSUME Shape, Order, NEW p \in Procs, cur[p] \in Hand, pc[p] \in Working \cup Tearing
  PROVE  /\ ~ Untouched(p, cur[p].sess)
         /\ next[p][cur[p].sess] = None
         /\ InRemoval(p) <=> cur[p].rec = None
<1>1. cur[p] # None
  BY HandAssumption
<1>2. InRemoval(p) <=> cur[p].rec = None
  BY <1>1 DEF InRemoval, Working, Tearing
<1>3. Apart(p)
  BY DEF Order
<1> QED
  BY <1>1, <1>2, <1>3 DEF Apart, Untouched, Working, Tearing

(* A step of call p that changes the node for session v only, and takes    *)
(* every claim about v on itself.                                          *)
LEMMA OwnBacking ==
  ASSUME NEW parts, Backing(parts), NEW p \in Procs, pc[p] # "idle", NEW v, Elsewhere(v),
         local' = local,
         \A q \in Procs : q # p => /\ pc'[q] = pc[q]
                                 /\ cur'[q] = cur[q]
                                 /\ next'[q] = next[q],
         \A u \in Sessions : Untouched(p, u)' => u # v /\ Untouched(p, u),
         \A u \in Sessions : \/ u # v /\ next'[p][u] = next[p][u]
                            \/ Held(parts, u, next[p][u])',
         pc'[p] = "report" => Held(parts, cur[p].sess, cur[p].rec)',
         Raised(p)'
  PROVE  Claims(parts)' /\ \A q \in Procs : Raised(q)'
<1>1. \A q \in Procs : q # p => /\ pc[q] = "idle" /\ pc'[q] = "idle"
                               /\ next[q] = Empty /\ next'[q] = Empty
  BY Alone DEF Backing
<1>2. ASSUME NEW u \in Sessions, \A q \in Procs : Untouched(q, u)'
      PROVE  Held(parts, u, local[u])'
  <2>1. u # v /\ Untouched(p, u)
    BY <1>2
  <2>2. \A q \in Procs : Untouched(q, u)
    BY <1>1, <2>1 DEF Untouched
  <2>3. Held(parts, u, local[u]) /\ Named(u, local[u])
    BY <2>2 DEF Backing, Claims, Order, Names
  <2> QED
    BY <2>1, <2>3, ElsewhereKeeps
<1>3. ASSUME NEW q \in Procs, NEW u \in Sessions
      PROVE  Held(parts, u, next[q][u])'
  <2>1. CASE q # p
    BY <1>1, <2>1, EmptyNamed DEF Held
  <2>2. CASE q = p /\ u # v /\ next'[p][u] = next[p][u]
    <3>1. Held(parts, u, next[p][u]) /\ Named(u, next[p][u])
      BY DEF Backing, Claims, Order, Names
    <3> QED
      BY <2>2, <3>1, ElsewhereKeeps
  <2> QED
    BY <2>1, <2>2
<1>4. \A q \in Procs : pc'[q] = "report" => Held(parts, cur[q].sess, cur[q].rec)'
  BY <1>1
<1>5. \A q \in Procs : Raised(q)'
  BY <1>1 DEF Raised
<1>6. Claims(parts)'
  BY <1>2, <1>3, <1>4 DEF Claims, Held
<1> QED
  BY <1>5, <1>6

LEMMA GotoBacking ==
  ASSUME NEW parts, Backing(parts), NEW p \in Procs, cur[p] \in Hand,
         pc[p] \in Working \cup Tearing,
         NEW place \in Working \cup Tearing, NEW rec \in BgpSession \cup {None},
         Goto(p, place, rec),
         rec = None <=> cur[p].rec = None,
         UNCHANGED <<local, remote, todo>>,
         Elsewhere(cur[p].sess),
         place = "report" => Held(parts, cur[p].sess, cur[p].rec)',
         place = "bird" =>
           link'[IfaceOf[rec.cfg]] = Made(cur[p].sess, rec.cfg, TRUE)
  PROVE  Claims(parts)' /\ \A q \in Procs : Raised(q)'
<1> DEFINE v == cur[p].sess
<1>1. /\ cur'[p] \in Hand /\ cur'[p].rec = rec /\ cur'[p].sess = v
      /\ pc'[p] = place /\ next' = next
      /\ \A q \in Procs : q # p => cur'[q] = cur[q] /\ pc'[q] = pc[q]
  BY GotoHand DEF Backing, Shape
<1>2. ~ Untouched(p, v) /\ next[p][v] = None /\ (InRemoval(p) <=> cur[p].rec = None)
  BY InHand DEF Backing
<1>3. InRemoval(p)' <=> InRemoval(p)
  BY <1>1, <1>2, HandAssumption DEF InRemoval, Working, Tearing
<1>4. ASSUME NEW u \in Sessions, Untouched(p, u)'
      PROVE  u # v /\ Untouched(p, u)
  <2>1. Untouched(p, u)
    BY <1>1, <1>3, <1>4 DEF Untouched, Working, Tearing
  <2> QED
    BY <2>1, <1>2
<1>5. \A u \in Sessions : \/ u # v /\ next'[p][u] = next[p][u]
                         \/ Held(parts, u, next[p][u])'
  BY <1>1, <1>2 DEF Held
<1>6. Raised(p)'
  BY <1>1 DEF Raised
<1>7. pc'[p] = "report" => Held(parts, cur[p].sess, cur[p].rec)'
  BY <1>1
<1>8. pc[p] # "idle"
  BY DEF Working, Tearing
<1> HIDE DEF v
<1>9. Elsewhere(v)
  BY DEF v
<1> QED
  BY <1>1, <1>4, <1>5, <1>6, <1>7, <1>8, <1>9, OwnBacking

LEMMA StoreBacking ==
  ASSUME NEW parts, Backing(parts), NEW p \in Procs, cur[p] \in Hand,
         pc[p] \in Working \cup Tearing,
         cur[p].rec # None,
         NEW rec \in BgpSession, Store(p, rec),
         UNCHANGED <<local, remote, todo>>,
         Elsewhere(cur[p].sess),
         rec.status = "ENABLED" => UNCHANGED <<link, conf>> /\ Held(parts, cur[p].sess, rec)
  PROVE  Claims(parts)' /\ \A q \in Procs : Raised(q)'
<1> DEFINE v == cur[p].sess
<1>1. /\ next'[p] = [next[p] EXCEPT ![v] = rec]
      /\ next[p] \in Table
      /\ cur'[p] = None /\ pc'[p] = "sessions"
      /\ \A q \in Procs : q # p => cur'[q] = cur[q] /\ next'[q] = next[q] /\ pc'[q] = pc[q]
  BY DEF Store, Backing, Shape, TypeOK
<1>2. ~ Untouched(p, v) /\ ~ InRemoval(p)
  BY InHand DEF Backing
<1>3. ASSUME NEW u \in Sessions, Untouched(p, u)'
      PROVE  u # v /\ Untouched(p, u)
  <2>1. Untouched(p, u)
    BY <1>1, <1>2, <1>3 DEF Untouched, InRemoval
  <2> QED
    BY <2>1, <1>2
<1>4. ASSUME NEW u \in Sessions
      PROVE  \/ u # v /\ next'[p][u] = next[p][u]
             \/ Held(parts, u, next[p][u])'
  <2>1. CASE u = v
    <3>1. next'[p][u] = rec
      BY <1>1, <2>1 DEF Table
    <3> QED
      BY <2>1, <3>1 DEF Held
  <2>2. CASE u # v
    BY <1>1, <2>2 DEF Table
  <2> QED
    BY <2>1, <2>2
<1>5. pc'[p] # "report" /\ Raised(p)'
  BY <1>1 DEF Raised
<1>6. pc[p] # "idle"
  BY DEF Working, Tearing
<1> HIDE DEF v
<1>7. Elsewhere(v)
  BY DEF v
<1> QED
  BY <1>1, <1>3, <1>4, <1>5, <1>6, <1>7, OwnBacking

-----------------------------------------------------------------------------
(* The node and the local table stay, and a session the run has not come   *)
(* to now it had not come to before.                                       *)
LEMMA QuietBacking ==
  ASSUME NEW parts, Backing(parts), NEW p \in Procs, pc[p] # "idle",
         UNCHANGED <<link, conf, local>>,
         \A q \in Procs : q # p => /\ pc'[q] = pc[q]
                                 /\ cur'[q] = cur[q]
                                 /\ next'[q] = next[q],
         \A u \in Sessions : Untouched(p, u)' => Untouched(p, u),
         \A u \in Sessions : \/ next'[p][u] = next[p][u]
                            \/ Held(parts, u, next[p][u])',
         pc'[p] \notin {"report", "bird"}
  PROVE  Claims(parts)' /\ \A q \in Procs : Raised(q)'
<1>1. Elsewhere(None)
  BY DEF Elsewhere
<1>2. \A u \in Sessions : u # None
  BY NoneAssumption
<1>3. Raised(p)'
  BY DEF Raised
<1> HIDE DEF Elsewhere
<1> QED
  BY <1>1, <1>2, <1>3, OwnBacking

LEMMA ReturnBacking ==
  ASSUME NEW parts, Backing(parts), NEW p \in Procs, pc[p] # "idle", Return(p),
         UNCHANGED <<link, conf>>,
         \A u \in Sessions : Held(parts, u, local[u])'
  PROVE  Claims(parts)' /\ \A q \in Procs : Raised(q)'
<1>1. \A q \in Procs : pc'[q] = "idle" /\ next'[q] = Empty
  BY Alone DEF Backing, Shape, TypeOK, Return
<1>2. \A q \in Procs, u \in Sessions : Held(parts, u, next[q][u])'
  BY <1>1, EmptyNamed DEF Held
<1>3. Claims(parts)'
  BY <1>1, <1>2 DEF Claims
<1> QED
  BY <1>1, <1>3 DEF Raised

-----------------------------------------------------------------------------
(* One lemma per action: Order and the claims about the node survive it.   *)
Kept(parts) == Order' /\ Claims(parts)' /\ \A q \in Procs : Raised(q)'

LEMMA StartSyncKeeps ==
  ASSUME NEW parts, Backing(parts), NEW p \in Procs, StartSync(p)
  PROVE  Kept(parts)
<1>1. /\ UNCHANGED <<link, conf, center, local, remote, todo, cur, next>>
      /\ pc[p] = "idle" /\ pc'[p] = "fetch"
      /\ \A q \in Procs : q # p => pc'[q] = pc[q]
  BY DEF StartSync, provVars, tableVars, Backing, Shape, TypeOK
<1>2. Order'
  BY <1>1 DEF Backing, Order, Names, Named, HandNamed, Apart
<1>3. \A q \in Procs, u \in Sessions : Untouched(q, u)' <=> Untouched(q, u)
  BY <1>1 DEF Untouched, InRemoval
<1>4. Claims(parts)'
  BY <1>1, <1>3 DEF Backing, Claims, Held
<1>5. \A q \in Procs : Raised(q)'
  BY <1>1 DEF Backing, Raised
<1> QED
  BY <1>2, <1>4, <1>5 DEF Kept

LEMMA FetchFailsKeeps ==
  ASSUME NEW parts, Backing(parts), NEW p \in Procs, FetchFails(p)
  PROVE  Kept(parts)
<1>1. /\ UNCHANGED <<link, conf, center, local>>
      /\ pc[p] = "fetch" /\ Return(p)
  BY DEF FetchFails, tableVars
<1>2. Order'
  BY <1>1, ReturnOrder DEF Backing, Order, Names
<1>3. \A u \in Sessions, q \in Procs : Untouched(q, u)
  BY <1>1, Alone DEF Untouched, Backing
<1>4. \A u \in Sessions : Held(parts, u, local[u])'
  BY <1>1, <1>3 DEF Backing, Claims, Held
<1> QED
  BY <1>1, <1>2, <1>4, ReturnBacking DEF Kept

LEMMA FetchKeeps ==
  ASSUME NEW parts, Backing(parts), NEW p \in Procs, Fetch(p)
  PROVE  Kept(parts)
<1>1. /\ UNCHANGED <<link, conf, center, local, cur, next>>
      /\ pc[p] = "fetch" /\ pc'[p] = "sessions"
      /\ remote'[p] = center
      /\ \A q \in Procs : q # p => pc'[q] = pc[q] /\ remote'[q] = remote[q] /\ todo'[q] = todo[q]
  BY DEF Fetch, provVars, tableVars, Backing, Shape, TypeOK
<1>2. cur[p] = None /\ next[p] = Empty
  BY <1>1 DEF Backing, Shape, HandOK, FreshOK, AtRest
<1>3. HandNamed(p)' /\ Apart(p)'
  BY <1>1, <1>2, EmptyNamed DEF HandNamed, Apart
<1>4. Order'
  BY <1>1, <1>3, OwnOrder DEF Backing, Order, Names
<1>5. \A u \in Sessions : Untouched(p, u)
  BY <1>1 DEF Untouched
<1> QED
  BY <1>1, <1>4, <1>5, QuietBacking DEF Kept

LEMMA KeepSessionKeeps ==
  ASSUME NEW parts, Backing(parts), NEW p \in Procs, NEW u \in Sessions, KeepSession(p, u)
  PROVE  Kept(parts)
<1>1. /\ UNCHANGED <<link, conf, center, local, cur, pc, remote>>
      /\ pc[p] = "sessions" /\ u \in todo[p]
      /\ todo'[p] = todo[p] \ {u}
      /\ local[u] = remote[p][u]
      /\ next'[p] = [next[p] EXCEPT ![u] = local[u]]
      /\ \A q \in Procs : q # p => next'[q] = next[q] /\ todo'[q] = todo[q]
  BY DEF KeepSession, provVars, tableVars, Backing, Shape, TypeOK
<1>2. /\ cur[p] = None /\ ~ InRemoval(p) /\ todo[p] \subseteq Present(remote[p])
      /\ next[p] \in Table
  BY <1>1 DEF Backing, Shape, TypeOK, HandOK, TodoOK, AtRest, InRemoval
<1>3. \A v \in Sessions : next'[p][v] = IF v = u THEN local[u] ELSE next[p][v]
  BY <1>1, <1>2 DEF Table
<1>4. HandNamed(p)' /\ Apart(p)'
  BY <1>1, <1>2, <1>3 DEF Backing, Order, HandNamed, Apart, Present
<1>5. Order'
  BY <1>1, <1>3, <1>4, OwnOrder DEF Backing, Order, Names
<1>6. \A v \in Sessions : Untouched(p, v)' => Untouched(p, v)
  BY <1>1 DEF Untouched, InRemoval
<1>7. \A q \in Procs : Untouched(q, u)
  BY <1>1, Alone DEF Untouched, Backing
<1>8. Held(parts, u, local[u])
  BY <1>7 DEF Backing, Claims
<1>9. \A v \in Sessions : next'[p][v] = next[p][v] \/ Held(parts, v, next[p][v])'
  BY <1>1, <1>3, <1>8 DEF Held
<1> QED
  BY <1>1, <1>5, <1>6, <1>9, QuietBacking DEF Kept

LEMMA TakeSessionKeeps ==
  ASSUME NEW parts, Backing(parts), NEW p \in Procs, NEW u \in Sessions, TakeSession(p, u)
  PROVE  Kept(parts)
<1> DEFINE rec == remote[p][u]
           old == local[u]
           place == IF Rejected(rec, old) THEN "invalid" ELSE Branch(rec, old)
           h == [sess |-> u, rec |-> rec, old |-> old]
<1>1. TypeOK /\ TodoOK(p) /\ HandOK(p) /\ Apart(p) /\ Names
  BY DEF Backing, Shape, Order
<1>2. /\ pc[p] = "sessions" /\ u \in todo[p]
      /\ UNCHANGED <<link, conf, center, local, remote>>
      /\ todo'[p] = todo[p] \ {u}
      /\ \A q \in Procs : q # p => todo'[q] = todo[q]
  BY <1>1 DEF TakeSession, provVars, tableVars, TypeOK
<1>3. cur[p] = None /\ ~ InRemoval(p) /\ next[p] \in Table
  BY <1>1, <1>2 DEF HandOK, AtRest, InRemoval, TypeOK
<1>4. rec \in BgpSession /\ rec # None
  BY <1>1, <1>2, <1>3 DEF TypeOK, TodoOK, Present, Table
<1>5. /\ place \in {"invalid", "iface", "ack", "delIface", "sessions"}
      /\ place = "sessions" => rec.status \notin ToSetUp
  BY <1>4, BranchFacts
<1>6. \/ place = "sessions" /\ next' = [next EXCEPT ![p][u] = rec] /\ UNCHANGED <<pc, cur>>
      \/ /\ cur' = [cur EXCEPT ![p] = h]
         /\ pc' = [pc EXCEPT ![p] = place]
         /\ next' = next
  BY DEF TakeSession
<1>7. h # None /\ h.sess = u /\ h.rec = rec /\ h.old = old /\ h \in Hand
  BY <1>1, <1>4, HandAssumption DEF Hand, TypeOK, Table
<1>8. Named(u, rec) /\ Named(u, old) /\ next[p][u] = None
  BY <1>1, <1>2 DEF Names, Apart
<1> HIDE DEF rec, old, place, h
<1>9. rec = remote[p][u]
  BY DEF rec
<1>10. CASE place = "sessions" /\ next' = [next EXCEPT ![p][u] = rec] /\ UNCHANGED <<pc, cur>>
  <2>1. /\ \A v \in Sessions : next'[p][v] = IF v = u THEN rec ELSE next[p][v]
        /\ \A q \in Procs : q # p => next'[q] = next[q]
    BY <1>1, <1>3, <1>10 DEF TypeOK, Table
  <2>2. HandNamed(p)' /\ Apart(p)'
    BY <1>1, <1>2, <1>3, <1>4, <1>9, <1>10, <2>1 DEF HandNamed, Apart
  <2>3. Order'
    BY <1>1, <1>2, <1>8, <1>10, <2>1, <2>2, OwnOrder DEF Backing, Names
  <2>4. rec.status # "ENABLED"
    BY <1>5, <1>10 DEF ToSetUp
  <2>5. \A v \in Sessions : next'[p][v] = next[p][v] \/ Held(parts, v, next[p][v])'
    BY <2>1, <2>4 DEF Held
  <2>6. \A v \in Sessions : Untouched(p, v)' => Untouched(p, v)
    BY <1>2, <1>10 DEF Untouched, InRemoval
  <2> QED
    BY <1>2, <1>10, <2>1, <2>3, <2>5, <2>6, QuietBacking DEF Kept
<1>11. CASE /\ cur' = [cur EXCEPT ![p] = h]
            /\ pc' = [pc EXCEPT ![p] = place]
            /\ next' = next
  <2>1. /\ cur'[p] = h /\ pc'[p] = place
        /\ \A q \in Procs : q # p => cur'[q] = cur[q] /\ pc'[q] = pc[q]
    BY <1>1, <1>11 DEF TypeOK
  <2>2. HandNamed(p)' /\ Apart(p)'
    BY <1>1, <1>2, <1>4, <1>7, <1>8, <1>9, <1>11, <2>1 DEF HandNamed, Apart
  <2>3. \A v \in Sessions : Named(v, center'[v]) /\ Named(v, next'[p][v]) /\ Named(v, remote'[p][v])
    BY <1>1, <1>2, <1>11 DEF Names
  <2>4. Order'
    BY <1>2, <1>11, <2>1, <2>2, <2>3, OwnOrder DEF Backing
  <2>5. ~ InRemoval(p)'
    BY <1>4, <1>5, <1>7, <2>1 DEF InRemoval
  <2>6. \A v \in Sessions : Untouched(p, v)' => Untouched(p, v)
    BY <1>2, <1>3, <1>5, <2>1, <2>5 DEF Untouched
  <2> QED
    BY <1>2, <1>5, <1>11, <2>1, <2>4, <2>6, QuietBacking DEF Kept
<1> QED
  BY <1>6, <1>10, <1>11

LEMMA StartRemovalKeeps ==
  ASSUME NEW parts, Backing(parts), NEW p \in Procs, StartRemoval(p)
  PROVE  Kept(parts)
<1>1. /\ UNCHANGED <<link, conf, center, local, cur, remote, next>>
      /\ pc[p] = "sessions" /\ pc'[p] = "gone"
      /\ todo'[p] = Present(local) \ Present(remote[p])
      /\ \A q \in Procs : q # p => pc'[q] = pc[q] /\ todo'[q] = todo[q]
  BY DEF StartRemoval, provVars, tableVars, Backing, Shape, TypeOK
<1>2. cur[p] = None /\ ~ InRemoval(p)
  BY <1>1 DEF Backing, Shape, HandOK, AtRest, InRemoval
<1>3. HandNamed(p)' /\ Apart(p)'
  BY <1>1, <1>2 DEF Backing, Order, HandNamed, Apart, Present
<1>4. Order'
  BY <1>1, <1>3, OwnOrder DEF Backing, Order, Names
<1>5. \A v \in Sessions : Untouched(p, v)' => Untouched(p, v)
  BY <1>1, <1>2 DEF Untouched, InRemoval, Present
<1> QED
  BY <1>1, <1>4, <1>5, QuietBacking DEF Kept

LEMMA RemoveSessionKeeps ==
  ASSUME NEW parts, Backing(parts), NEW p \in Procs, NEW u \in Sessions, RemoveSession(p, u)
  PROVE  Kept(parts)
<1> DEFINE h == [sess |-> u, rec |-> None, old |-> local[u]]
<1>1. TypeOK /\ TodoOK(p) /\ Apart(p) /\ Names /\ InRemoval(p)
  BY DEF Backing, Shape, Order, RemoveSession, InRemoval
<1>2. /\ UNCHANGED <<link, conf, center, local, remote, next>>
      /\ pc[p] = "gone" /\ pc'[p] = "delIface" /\ u \in todo[p]
      /\ todo'[p] = todo[p] \ {u} /\ cur'[p] = h
      /\ \A q \in Procs : q # p => pc'[q] = pc[q] /\ todo'[q] = todo[q] /\ cur'[q] = cur[q]
  BY <1>1 DEF RemoveSession, provVars, tableVars, TypeOK
<1>3. h # None /\ h.sess = u /\ h.rec = None /\ h.old = local[u] /\ h \in Hand
  BY <1>1, HandAssumption DEF Hand, TypeOK, Table
<1>4. remote[p][u] = None /\ next[p][u] = None
  BY <1>1, <1>2 DEF TodoOK, Present, Apart
<1> HIDE DEF h
<1>5. HandNamed(p)' /\ Apart(p)'
  BY <1>1, <1>2, <1>3, <1>4 DEF HandNamed, Named, Names, Apart
<1>6. Order'
  BY <1>1, <1>2, <1>5, OwnOrder DEF Backing, Names
<1>7. InRemoval(p)'
  BY <1>2, <1>3 DEF InRemoval
<1>8. \A v \in Sessions : Untouched(p, v)' => Untouched(p, v)
  BY <1>1, <1>2, <1>7 DEF Untouched
<1> QED
  BY <1>2, <1>6, <1>8, QuietBacking DEF Kept

LEMMA InstallKeeps ==
  ASSUME NEW parts, Backing(parts), NEW p \in Procs, Install(p)
  PROVE  Kept(parts)
<1>1. /\ UNCHANGED <<link, conf, center>> /\ local' = next[p]
      /\ pc[p] = "gone" /\ Return(p)
  BY DEF Install, provVars, tableVars
<1>2. Order'
  BY <1>1, ReturnOrder DEF Backing, Order, Names
<1>3. \A u \in Sessions : Held(parts, u, local[u])'
  BY <1>1 DEF Backing, Claims, Held
<1> QED
  BY <1>1, <1>2, <1>3, ReturnBacking DEF Kept

(* What the actions on a session in hand have in common.                   *)
LEMMA HandFacts ==
  ASSUME NEW parts, Backing(parts), NEW p \in Procs, pc[p] \in Working \cup Tearing
  PROVE  /\ Shape /\ Order /\ TypeOK /\ ProvTypeOK /\ UniqueNames /\ Names
         /\ cur[p] \in Hand /\ cur[p].sess \in Sessions
         /\ cur[p].rec \in BgpSession \cup {None}
         /\ pc[p] \in Working =>
              /\ cur[p].rec # None
              /\ cur[p].rec.cfg \in Cfgs /\ cur[p].rec.cfg \in CfgOf[cur[p].sess]
         /\ pc[p] \in Tearing =>
              cur[p].old.cfg \in Cfgs /\ cur[p].old.cfg \in CfgOf[cur[p].sess]
<1>1. Shape /\ Order /\ TypeOK /\ ProvTypeOK /\ UniqueNames /\ Names /\ HandOK(p) /\ HandNamed(p)
  BY DEF Backing, Shape, TypeOK, Order
<1>2. cur[p] \in Hand
  BY <1>1 DEF HandOK
<1>3. cur[p] # None
  BY <1>2, HandAssumption
<1> QED
  BY <1>1, <1>2, <1>3 DEF HandOK, HandNamed, Named, Hand, BgpSession

LEMMA RejectSessionKeeps ==
  ASSUME NEW parts, Backing(parts), NEW p \in Procs, RejectSession(p)
  PROVE  Kept(parts)
<1> DEFINE rec == [cur[p].rec EXCEPT !.status = "TEARDOWN"]
           place == Branch(rec, cur[p].old)
<1>1. pc[p] \in Working
  BY DEF RejectSession, Working
<1>2. /\ Shape /\ Order /\ TypeOK /\ Names /\ cur[p] \in Hand /\ cur[p].sess \in Sessions
      /\ cur[p].rec \in BgpSession /\ cur[p].rec # None
  BY <1>1, HandFacts
<1>3. rec \in BgpSession /\ rec # None /\ rec.status = "TEARDOWN" /\ rec.cfg = cur[p].rec.cfg
  BY <1>2, WithStatus DEF Status
<1>4. UNCHANGED <<local, remote, todo>> /\ Continue(p, rec)
  BY DEF RejectSession
<1>5. PICK ok \in BOOLEAN : Report(cur[p].sess, "TEARDOWN", ok)
  BY DEF RejectSession
<1>6. \A u \in Sessions : Named(u, center'[u])
  BY <1>2, <1>5, ReportNames DEF TypeOK, Status
<1>7. Elsewhere(cur[p].sess)
  BY <1>2, <1>5, ReportElsewhere
<1> HIDE DEF rec
<1>8. place \in {"iface", "ack", "delIface", "sessions"}
  BY <1>3, BranchFacts
<1>9. CASE place = "sessions"
  <2>1. Store(p, rec)
    BY <1>4, <1>9 DEF Continue
  <2>2. Order'
    BY <1>2, <1>3, <1>4, <1>6, <2>1, StoreOrder
  <2> QED
    BY <1>1, <1>2, <1>3, <1>4, <1>7, <2>1, <2>2, StoreBacking DEF Kept
<1>10. CASE place # "sessions"
  <2>1. Goto(p, place, rec)
    BY <1>4, <1>10 DEF Continue
  <2>2. Order'
    BY <1>2, <1>3, <1>4, <1>6, <2>1, GotoOrder
  <2>3. place \in Working \cup Tearing /\ place \notin {"report", "bird"}
    BY <1>8, <1>10 DEF Working, Tearing
  <2> QED
    BY <1>1, <1>2, <1>3, <1>4, <1>7, <2>1, <2>2, <2>3, GotoBacking DEF Kept
<1> QED
  BY <1>9, <1>10

LEMMA SetUpInterfaceKeeps ==
  ASSUME NEW parts, Backing(parts), NEW p \in Procs, SetUpInterface(p)
  PROVE  Kept(parts)
<1> DEFINE v == cur[p].sess
           c == cur[p].rec.cfg
<1>1. pc[p] \in Working
  BY DEF SetUpInterface, Working
<1>2. /\ Shape /\ Order /\ ProvTypeOK /\ UniqueNames /\ Names /\ cur[p] \in Hand
      /\ v \in Sessions /\ cur[p].rec \in BgpSession /\ cur[p].rec # None
      /\ c \in Cfgs /\ c \in CfgOf[v]
  BY <1>1, HandFacts
<1>3. PICK ok \in BOOLEAN :
        /\ ConfigureInterface(v, c, ok)
        /\ IF ok THEN Goto(p, "bird", cur[p].rec)
                 ELSE Goto(p, "report", [cur[p].rec EXCEPT !.status = "PROBLEM"])
  BY DEF SetUpInterface
<1>4. UNCHANGED <<center, local, remote, todo>>
  BY DEF SetUpInterface, tableVars
<1>5. \A u \in Sessions : Named(u, center'[u])
  BY <1>2, <1>4 DEF Names
<1>6. Elsewhere(v)
  BY <1>2, <1>3, ConfigureInterfaceElsewhere
<1>7. CASE ok
  <2>1. Goto(p, "bird", cur[p].rec)
    BY <1>3, <1>7
  <2>2. link'[IfaceOf[c]] = Made(v, c, TRUE)
    BY <1>2, <1>3, <1>7, ConfigAssumption DEF ConfigureInterface, ProvTypeOK
  <2>3. "bird" \in Working /\ "bird" # "report"
    BY DEF Working
  <2>4. Order'
    BY <1>2, <1>4, <1>5, <2>1, GotoOrder
  <2> QED
    <3>1. "bird" = "report" => Held(parts, cur[p].sess, cur[p].rec)'
      BY <2>3
    <3>2. /\ cur[p].rec \in BgpSession \cup {None}
          /\ UNCHANGED <<local, remote, todo>>
          /\ Elsewhere(cur[p].sess)
          /\ "bird" \in Working \cup Tearing
          /\ "bird" = "bird" => link'[IfaceOf[cur[p].rec.cfg]] = Made(cur[p].sess, cur[p].rec.cfg, TRUE)
      BY <1>2, <1>4, <1>6, <2>2, <2>3
    <3>3. cur[p] \in Hand /\ pc[p] \in Working \cup Tearing /\ (cur[p].rec = None <=> cur[p].rec = None)
      BY <1>1, <1>2
    <3> HIDE DEF v, c
    <3>4. Claims(parts)' /\ \A q \in Procs : Raised(q)'
      BY <2>1, <3>1, <3>2, <3>3, GotoBacking
    <3> QED
      BY <2>4, <3>4 DEF Kept
<1>8. CASE ~ok
  <2> DEFINE rec == [cur[p].rec EXCEPT !.status = "PROBLEM"]
  <2>1. rec \in BgpSession /\ rec # None /\ rec.status = "PROBLEM" /\ rec.cfg = c
    BY <1>2, WithStatus DEF Status
  <2>2. Goto(p, "report", rec)
    BY <1>3, <1>8
  <2> HIDE DEF rec
  <2>3. Order'
    BY <1>2, <1>4, <1>5, <2>1, <2>2, GotoOrder
  <2>4. cur'[p].rec = rec
    BY <1>2, <2>1, <2>2, GotoHand DEF Shape
  <2>5. Held(parts, cur[p].sess, cur[p].rec)'
    BY <2>1, <2>4 DEF Held
  <2>6. "report" \in Working /\ "report" # "bird"
    BY DEF Working
  <2> QED
    BY <1>1, <1>2, <1>4, <1>6, <2>1, <2>2, <2>3, <2>5, <2>6, GotoBacking DEF Kept
<1> QED
  BY <1>7, <1>8

LEMMA SetUpBirdKeeps ==
  ASSUME NEW parts, Backing(parts), NEW p \in Procs, SetUpBird(p)
  PROVE  Kept(parts)
<1> DEFINE v == cur[p].sess
           c == cur[p].rec.cfg
<1>1. pc[p] \in Working /\ pc[p] = "bird"
  BY DEF SetUpBird, Working
<1>2. /\ Shape /\ Order /\ ProvTypeOK /\ UniqueNames /\ Names /\ cur[p] \in Hand
      /\ v \in Sessions /\ cur[p].rec \in BgpSession /\ cur[p].rec # None
      /\ c \in Cfgs /\ c \in CfgOf[v]
  BY <1>1, HandFacts
<1>3. PICK ok \in BOOLEAN :
        /\ ConfigureBird(v, c, ok)
        /\ Goto(p, "report", [cur[p].rec EXCEPT
                                !.status = IF ok THEN "ENABLED" ELSE "PROBLEM"])
  BY DEF SetUpBird
<1>4. UNCHANGED <<center, local, remote, todo>>
  BY DEF SetUpBird, tableVars
<1>5. \A u \in Sessions : Named(u, center'[u])
  BY <1>2, <1>4 DEF Names
<1>6. Elsewhere(v)
  BY <1>2, <1>3, ConfigureBirdElsewhere
<1> DEFINE st == IF ok THEN "ENABLED" ELSE "PROBLEM"
           rec == [cur[p].rec EXCEPT !.status = st]
<1>7. rec \in BgpSession /\ rec # None /\ rec.status = st /\ rec.cfg = c
  <2>1. st \in Status
    BY DEF Status
  <2> HIDE DEF st
  <2> QED
    BY <1>2, <2>1, WithStatus
<1>8. Goto(p, "report", rec)
  BY <1>3
<1> HIDE DEF rec
<1>9. Order'
  BY <1>2, <1>4, <1>5, <1>7, <1>8, GotoOrder
<1>10. cur'[p].rec = rec /\ cur'[p].sess = v
  BY <1>2, <1>7, <1>8, GotoHand DEF Shape
<1>11. link[IfaceOf[c]] = Made(v, c, TRUE)
  BY <1>1 DEF Backing, Raised
<1>12. ok => link' = link /\ conf'[File(c)] = Made(v, c, TRUE)
  BY <1>2, <1>3, ConfigAssumption DEF ConfigureBird, ProvTypeOK, File
<1>13. Held(parts, cur[p].sess, cur[p].rec)'
  BY <1>7, <1>10, <1>11, <1>12 DEF Held
<1>14. "report" \in Working /\ "report" # "bird"
  BY DEF Working
<1> QED
  BY <1>1, <1>2, <1>4, <1>6, <1>7, <1>8, <1>9, <1>13, <1>14, GotoBacking DEF Kept

LEMMA ReportStatusKeeps ==
  ASSUME NEW parts, Backing(parts), NEW p \in Procs, ReportStatus(p)
  PROVE  Kept(parts)
<1>1. pc[p] \in Working /\ pc[p] = "report"
  BY DEF ReportStatus, Working
<1>2. /\ Shape /\ Order /\ TypeOK /\ Names /\ cur[p] \in Hand /\ cur[p].sess \in Sessions
      /\ cur[p].rec \in BgpSession /\ cur[p].rec # None /\ cur[p].rec.status \in Status
  BY <1>1, HandFacts DEF BgpSession
<1>3. PICK ok \in BOOLEAN : Report(cur[p].sess, cur[p].rec.status, ok)
  BY DEF ReportStatus
<1>4. Store(p, cur[p].rec) /\ UNCHANGED <<local, remote, todo>>
  BY DEF ReportStatus
<1>5. \A u \in Sessions : Named(u, center'[u])
  BY <1>2, <1>3, ReportNames DEF TypeOK
<1>6. UNCHANGED <<link, conf>> /\ Elsewhere(cur[p].sess)
  BY <1>2, <1>3, ReportElsewhere
<1>7. Order'
  BY <1>2, <1>4, <1>5, StoreOrder
<1>8. Held(parts, cur[p].sess, cur[p].rec)
  BY <1>1 DEF Backing, Claims
<1> QED
  BY <1>1, <1>2, <1>4, <1>6, <1>7, <1>8, StoreBacking DEF Kept

LEMMA AcknowledgeDeleteKeeps ==
  ASSUME NEW parts, Backing(parts), NEW p \in Procs, AcknowledgeDelete(p)
  PROVE  Kept(parts)
<1>1. pc[p] \in Working /\ pc[p] = "ack"
  BY DEF AcknowledgeDelete, Working
<1>2. /\ Shape /\ Order /\ TypeOK /\ Names /\ cur[p] \in Hand /\ cur[p].sess \in Sessions
      /\ cur[p].rec \in BgpSession /\ cur[p].rec # None
  BY <1>1, HandFacts
<1>3. cur[p].rec.status = "QUEUED_FOR_DELETE"
  BY <1>1, <1>2 DEF Shape, HandOK
<1>4. PICK ok \in BOOLEAN :
        /\ Report(cur[p].sess, "DELETED", ok)
        /\ Store(p, IF ok THEN [cur[p].rec EXCEPT !.status = "DELETED"] ELSE cur[p].rec)
  BY DEF AcknowledgeDelete
<1> DEFINE rec == IF ok THEN [cur[p].rec EXCEPT !.status = "DELETED"] ELSE cur[p].rec
<1>5. rec \in BgpSession /\ rec.status # "ENABLED" /\ rec.cfg = cur[p].rec.cfg
  BY <1>2, <1>3, WithStatus DEF Status
<1>6. Store(p, rec) /\ UNCHANGED <<local, remote, todo>>
  BY <1>4 DEF AcknowledgeDelete
<1> HIDE DEF rec
<1>7. \A u \in Sessions : Named(u, center'[u])
  BY <1>2, <1>4, ReportNames DEF TypeOK, Status
<1>8. Elsewhere(cur[p].sess)
  BY <1>2, <1>4, ReportElsewhere
<1>9. Order'
  BY <1>2, <1>5, <1>6, <1>7, StoreOrder
<1> QED
  BY <1>1, <1>2, <1>5, <1>6, <1>8, <1>9, StoreBacking DEF Kept

LEMMA TearDownInterfaceKeeps ==
  ASSUME NEW parts, Backing(parts), NEW p \in Procs, TearDownInterface(p)
  PROVE  Kept(parts)
<1>1. pc[p] \in Tearing
  BY DEF TearDownInterface, Tearing
<1>2. /\ Shape /\ Order /\ ProvTypeOK /\ UniqueNames /\ Names /\ cur[p] \in Hand
      /\ cur[p].sess \in Sessions /\ cur[p].rec \in BgpSession \cup {None}
      /\ cur[p].old.cfg \in Cfgs /\ cur[p].old.cfg \in CfgOf[cur[p].sess]
  BY <1>1, HandFacts
<1>3. /\ DeleteInterface(cur[p].old.cfg)
      /\ Goto(p, "delBird", cur[p].rec)
      /\ UNCHANGED <<center, local, remote, todo>>
  BY DEF TearDownInterface, tableVars
<1>4. Elsewhere(cur[p].sess)
  BY <1>2, <1>3, DeleteInterfaceElsewhere
<1>5. \A u \in Sessions : Named(u, center'[u])
  BY <1>2, <1>3 DEF Names
<1>6. Order'
  BY <1>2, <1>3, <1>5, GotoOrder
<1>7. "delBird" \in Tearing /\ "delBird" \notin {"bird", "report"}
  BY DEF Tearing
<1> QED
  BY <1>1, <1>2, <1>3, <1>4, <1>6, <1>7, GotoBacking DEF Kept

LEMMA TearDownBirdKeeps ==
  ASSUME NEW parts, Backing(parts), NEW p \in Procs, TearDownBird(p)
  PROVE  Kept(parts)
<1>1. pc[p] \in Tearing /\ pc[p] = "delBird"
  BY DEF TearDownBird, Tearing
<1>2. /\ Shape /\ Order /\ ProvTypeOK /\ UniqueNames /\ TypeOK /\ Names /\ cur[p] \in Hand
      /\ cur[p].sess \in Sessions /\ cur[p].rec \in BgpSession \cup {None}
      /\ cur[p].old.cfg \in Cfgs /\ cur[p].old.cfg \in CfgOf[cur[p].sess]
  BY <1>1, HandFacts
<1>3. DeleteBird(cur[p].old.cfg) /\ UNCHANGED <<center, local, remote, todo>>
  BY DEF TearDownBird, tableVars
<1>4. Elsewhere(cur[p].sess)
  BY <1>2, <1>3, DeleteBirdElsewhere
<1>5. \A u \in Sessions : Named(u, center'[u])
  BY <1>2, <1>3 DEF Names
<1>6. CASE /\ cur[p].rec = None
           /\ cur' = [cur EXCEPT ![p] = None]
           /\ pc' = [pc EXCEPT ![p] = "gone"]
           /\ next' = next
  <2>1. /\ cur'[p] = None /\ pc'[p] = "gone"
        /\ \A q \in Procs : q # p => cur'[q] = cur[q] /\ pc'[q] = pc[q]
    BY <1>2, <1>6 DEF TypeOK
  <2>2. HandNamed(p)' /\ Apart(p)'
    BY <1>2, <1>3, <1>6, <2>1 DEF Order, HandNamed, Apart
  <2>3. Order'
    BY <1>2, <1>3, <1>5, <1>6, <2>1, <2>2, OwnOrder DEF Names
  <2>4. ~ Untouched(p, cur[p].sess) /\ InRemoval(p)
    BY <1>1, <1>2, <1>6, InHand
  <2>5. ASSUME NEW u \in Sessions, Untouched(p, u)' PROVE u # cur[p].sess /\ Untouched(p, u)
    <3>1. Untouched(p, u)
      BY <1>3, <2>1, <2>5 DEF Untouched, InRemoval
    <3> QED
      BY <2>4, <3>1
  <2>6. next[p][cur[p].sess] = None
    BY <1>1, <1>2, InHand
  <2>7. \A u \in Sessions : \/ u # cur[p].sess /\ next'[p][u] = next[p][u]
                           \/ Held(parts, u, next[p][u])'
    BY <1>6, <2>6 DEF Held
  <2>8. pc'[p] # "report" /\ Raised(p)' /\ pc[p] # "idle"
    BY <1>1, <2>1 DEF Raised
  <2> DEFINE v == cur[p].sess
  <2> HIDE DEF v
  <2>9. /\ Elsewhere(v)
        /\ \A u \in Sessions : Untouched(p, u)' => u # v /\ Untouched(p, u)
        /\ \A u \in Sessions : \/ u # v /\ next'[p][u] = next[p][u]
                              \/ Held(parts, u, next[p][u])'
    BY <1>4, <2>5, <2>7 DEF v
  <2> QED
    BY <1>3, <1>6, <2>1, <2>3, <2>8, <2>9, OwnBacking DEF Kept
<1>7. CASE /\ cur[p].rec # None
           /\ Goto(p, "report", [cur[p].rec EXCEPT !.status = "DELETED"])
  <2> DEFINE rec == [cur[p].rec EXCEPT !.status = "DELETED"]
  <2>1. rec \in BgpSession /\ rec # None /\ rec.status = "DELETED" /\ rec.cfg = cur[p].rec.cfg
    BY <1>2, <1>7, WithStatus DEF Status
  <2>2. Goto(p, "report", rec)
    BY <1>7
  <2> HIDE DEF rec
  <2>3. Order'
    BY <1>2, <1>3, <1>5, <1>7, <2>1, <2>2, GotoOrder
  <2>4. cur'[p].rec = rec
    BY <1>2, <2>1, <2>2, GotoHand
  <2>5. Held(parts, cur[p].sess, cur[p].rec)'
    BY <2>1, <2>4 DEF Held
  <2>6. "report" \in Working /\ "report" # "bird"
    BY DEF Working
  <2> QED
    BY <1>1, <1>2, <1>3, <1>4, <1>7, <2>1, <2>2, <2>3, <2>5, <2>6, GotoBacking DEF Kept
<1>8. CASE cur[p].rec # None /\ Store(p, cur[p].rec)
  <2>1. cur[p].rec \in BgpSession
    BY <1>2, <1>8
  <2>2. cur[p].rec.status # "ENABLED"
    BY <1>1, <1>2, <1>8 DEF Shape, HandOK, ToRemove
  <2>3. Order'
    BY <1>2, <1>3, <1>5, <1>8, <2>1, StoreOrder
  <2> QED
    BY <1>1, <1>2, <1>3, <1>4, <1>8, <2>1, <2>2, <2>3, StoreBacking DEF Kept
<1> QED
  BY <1>6, <1>7, <1>8 DEF TearDownBird

LEMMA OperatorEditKeeps ==
  ASSUME NEW parts, Backing(parts), NEW u \in Sessions, NEW row \in Rows(u), OperatorEdit(u, row)
  PROVE  Kept(parts)
<1>1. /\ UNCHANGED <<link, conf, local, pc, remote, todo, cur, next>>
      /\ center' = [center EXCEPT ![u] = row]
  BY DEF OperatorEdit, provVars, runVars
<1>2. Named(u, row)
  BY DEF Rows, Named
<1>3. Names'
  BY <1>1, <1>2 DEF Backing, Shape, TypeOK, Table, Order, Names
<1>4. \A q \in Procs : HandNamed(q)' /\ Apart(q)' /\ Raised(q)'
  BY <1>1 DEF Backing, Order, HandNamed, Apart, Raised
<1>5. \A q \in Procs, v \in Sessions : Untouched(q, v)' <=> Untouched(q, v)
  BY <1>1 DEF Untouched, InRemoval
<1>6. Claims(parts)'
  BY <1>1, <1>5 DEF Backing, Claims, Held
<1> QED
  BY <1>3, <1>4, <1>6 DEF Kept, Order

LEMMA RestartKeeps ==
  ASSUME NEW parts, Backing(parts), Restart
  PROVE  Kept(parts)
<1>1. /\ local' = Empty /\ center' = center
      /\ \A q \in Procs : /\ pc'[q] = "idle" /\ remote'[q] = Empty /\ cur'[q] = None
                          /\ next'[q] = Empty
  BY DEF Restart, tableVars
<1>2. Names'
  BY <1>1, EmptyNamed DEF Backing, Order, Names, Named
<1>3. \A q \in Procs : HandNamed(q)' /\ Apart(q)' /\ Raised(q)'
  BY <1>1, EmptyNamed DEF HandNamed, Apart, Raised
<1>4. Claims(parts)'
  BY <1>1, EmptyNamed DEF Claims, Held
<1> QED
  BY <1>2, <1>3, <1>4 DEF Kept, Order

LEMMA StutterKeeps ==
  ASSUME NEW parts, Backing(parts), UNCHANGED vars
  PROVE  Kept(parts)
<1>1. UNCHANGED <<link, conf, center, local, pc, remote, todo, cur, next>>
  BY DEF vars, syncVars, provVars, tableVars, runVars
<1>2. Order' /\ \A q \in Procs : Raised(q)'
  BY <1>1 DEF Backing, Order, Names, HandNamed, Apart, Raised
<1>3. \A q \in Procs, v \in Sessions : Untouched(q, v)' <=> Untouched(q, v)
  BY <1>1 DEF Untouched, InRemoval
<1>4. Claims(parts)'
  BY <1>1, <1>3 DEF Backing, Claims, Held
<1> QED
  BY <1>2, <1>4 DEF Kept

LEMMA BackingStep ==
  ASSUME NEW parts, Backing(parts), [SyncNext]_vars
  PROVE  Backing(parts)'
<1>1. Shape' /\ UniqueNames'
  BY ShapeStep DEF Backing, UniqueNames, File
<1>2. ASSUME NEW p \in Procs, Step(p) PROVE Kept(parts)
  BY <1>2, FetchFailsKeeps, FetchKeeps, KeepSessionKeeps, TakeSessionKeeps,
     RemoveSessionKeeps, RejectSessionKeeps, SetUpInterfaceKeeps, SetUpBirdKeeps,
     ReportStatusKeeps, AcknowledgeDeleteKeeps, TearDownInterfaceKeeps,
     TearDownBirdKeeps, StartRemovalKeeps, InstallKeeps DEF Step
<1>3. Kept(parts)
  BY <1>2, StartSyncKeeps, OperatorEditKeeps, RestartKeeps, StutterKeeps
  DEF SyncNext, Environment
<1> QED
  BY <1>1, <1>3 DEF Kept, Backing

LEMMA InitBacking ==
  ASSUME NEW parts, Init, UniqueNames
  PROVE  Backing(parts)
<1>1. Claims(parts) /\ \A p \in Procs : Raised(p)
  BY EmptyNamed DEF Init, Claims, Held, Raised
<1> QED
  BY <1>1, InitShape, InitOrder DEF Backing

(* Whatever fails, is lost, is edited meanwhile or restarts: when no two   *)
(* sessions can name one interface or one BIRD file, every session the     *)
(* agent holds, lists next or is about to report as ENABLED has its        *)
(* interface up and its BIRD file complete, both made from the             *)
(* configuration of that very entry (configureSession and its callers,     *)
(* task_session_sync.go:204-390).                                          *)
THEOREM EnabledIsBacked == UniqueNames => (Spec => []EnabledIsProvisioned)
<1> DEFINE Inv == Backing({"file"})
<1>1. UniqueNames /\ Init => Inv
  BY InitBacking
<1>2. Inv /\ [SyncNext]_vars => Inv'
  BY BackingStep
<1>3. Inv => EnabledIsProvisioned
  BY DEF Backing, Claims, Held, EnabledIsProvisioned, Backed, Provisioned
<1> HIDE DEF Inv
<1> QED
  BY <1>1, <1>2, <1>3, PTL DEF Spec

-----------------------------------------------------------------------------
(* No residue.                                                             *)

(* All revisions of a session name one interface: no renames.              *)
NoRenames ==
  \A u \in Sessions : \A c, d \in CfgOf[u] : IfaceOf[c] = IfaceOf[d]

(* Every interface and every file is one its session can be given.         *)
Owned ==
  /\ \A i \in Ifaces : link[i] # None =>
       link[i].cfg \in CfgOf[link[i].sess] /\ i = IfaceOf[link[i].cfg]
  /\ \A f \in Files : conf[f] # None =>
       conf[f].cfg \in CfgOf[conf[f].sess] /\ f = File(conf[f].cfg)

Linked(u) == \E c \in CfgOf[u] : link[IfaceOf[c]] # None
Filed(u)  == \E c \in CfgOf[u] : conf[File(c)] # None

(* An entry that accounts for what the node has of its session.            *)
Wanted(s) == s # None /\ s.status \notin ToRemove \cup {"QUEUED_FOR_DELETE"}

Covered(u, s) == Linked(u) \/ Filed(u) => Wanted(s)

(* Run p is done with session u: what it stored, or did not, is final.     *)
Answered(p, u) == ~ Untouched(p, u) /\ (cur[p] # None => cur[p].sess # u)

(* What is known of the node before each call about the session in hand:   *)
(* the entry that is to be replaced accounts for it until the first call,  *)
(* the new one when the last is made.                                      *)
HandCovered(p) ==
  /\ pc[p] = "invalid" => Covered(cur[p].sess, cur[p].old)
  /\ pc[p] = "ack" => Covered(cur[p].sess, None)
  /\ pc[p] = "delBird" => ~ Linked(cur[p].sess)
  /\ pc[p] = "report" => Covered(cur[p].sess, cur[p].rec)

Covering ==
  /\ \A u \in Sessions : (\A p \in Procs : Untouched(p, u)) => Covered(u, local[u])
  /\ \A p \in Procs, u \in Sessions : Answered(p, u) => Covered(u, next[p][u])
  /\ \A p \in Procs : HandCovered(p)

Accounts ==
  /\ Backing({})
  /\ NoRenames
  /\ FaultKinds \cap {"iface", "conf"} = {}
  /\ MaxRestarts = 0
  /\ Owned
  /\ Covering

-----------------------------------------------------------------------------
(* What the environment does to the node when neither the interfaces nor   *)
(* the files fail.                                                         *)
LEMMA NoSuchFault ==
  ASSUME FaultKinds \cap {"iface", "conf"} = {}
  PROVE  ~ Fault("iface") /\ ~ Fault("conf")
  BY DEF Fault

LEMMA MakesInterface ==
  ASSUME Accounts, NEW v \in Sessions, NEW c \in Cfgs, c \in CfgOf[v], NEW ok \in BOOLEAN,
         ConfigureInterface(v, c, ok)
  PROVE  Owned' /\ ok
<1>1. link' = [link EXCEPT ![IfaceOf[c]] = Made(v, c, TRUE)] /\ conf' = conf /\ ok
  BY NoSuchFault DEF ConfigureInterface, Accounts
<1>2. Made(v, c, TRUE).cfg = c /\ Made(v, c, TRUE).sess = v
  BY DEF Made
<1>3. \A i \in Ifaces : link'[i] = IF i = IfaceOf[c] THEN Made(v, c, TRUE) ELSE link[i]
  BY <1>1 DEF Accounts, Backing, Shape, TypeOK, ProvTypeOK
<1> DEFINE new == Made(v, c, TRUE)
<1> HIDE DEF new
<1>4. new.cfg = c /\ new.sess = v /\ \A i \in Ifaces : link'[i] = IF i = IfaceOf[c] THEN new ELSE link[i]
  BY <1>2, <1>3 DEF new
<1>5. Owned /\ conf' = conf
  BY <1>1 DEF Accounts
<1>6. ASSUME NEW i \in Ifaces, link'[i] # None
      PROVE  link'[i].cfg \in CfgOf[link'[i].sess] /\ i = IfaceOf[link'[i].cfg]
  <2>1. CASE i = IfaceOf[c]
    BY <1>4, <2>1
  <2>2. CASE i # IfaceOf[c]
    BY <1>4, <1>5, <1>6, <2>2 DEF Owned
  <2> QED
    BY <2>1, <2>2
<1> QED
  BY <1>1, <1>5, <1>6 DEF Owned, File

LEMMA MakesFile ==
  ASSUME Accounts, NEW v \in Sessions, NEW c \in Cfgs, c \in CfgOf[v], NEW ok \in BOOLEAN,
         ConfigureBird(v, c, ok)
  PROVE  Owned' /\ ok
<1>1. conf' = [conf EXCEPT ![File(c)] = Made(v, c, TRUE)] /\ link' = link /\ ok
  BY NoSuchFault DEF ConfigureBird, WriteFails, Accounts
<1>2. Made(v, c, TRUE).cfg = c /\ Made(v, c, TRUE).sess = v
  BY DEF Made
<1>3. \A f \in Files : conf'[f] = IF f = File(c) THEN Made(v, c, TRUE) ELSE conf[f]
  BY <1>1 DEF Accounts, Backing, Shape, TypeOK, ProvTypeOK
<1> DEFINE new == Made(v, c, TRUE)
<1> HIDE DEF new
<1>4. new.cfg = c /\ new.sess = v /\ \A f \in Files : conf'[f] = IF f = File(c) THEN new ELSE conf[f]
  BY <1>2, <1>3 DEF new
<1>5. Owned /\ link' = link
  BY <1>1 DEF Accounts
<1>6. ASSUME NEW f \in Files, conf'[f] # None
      PROVE  conf'[f].cfg \in CfgOf[conf'[f].sess] /\ f = File(conf'[f].cfg)
  <2>1. CASE f = File(c)
    BY <1>4, <2>1
  <2>2. CASE f # File(c)
    BY <1>4, <1>5, <1>6, <2>2 DEF Owned
  <2> QED
    BY <2>1, <2>2
<1> QED
  BY <1>1, <1>5, <1>6 DEF Owned, File

LEMMA RemovesInterface ==
  ASSUME Accounts, NEW v \in Sessions, NEW c \in Cfgs, c \in CfgOf[v], DeleteInterface(c)
  PROVE  Owned' /\ ~ Linked(v)'
<1>1. link' = [link EXCEPT ![IfaceOf[c]] = None] /\ conf' = conf
  BY NoSuchFault DEF DeleteInterface, Accounts
<1>2. \A i \in Ifaces : link'[i] = IF i = IfaceOf[c] THEN None ELSE link[i]
  BY <1>1 DEF Accounts, Backing, Shape, TypeOK, ProvTypeOK
<1>3. \A d \in CfgOf[v] : IfaceOf[d] = IfaceOf[c] /\ IfaceOf[c] \in Ifaces
  BY ConfigAssumption DEF Accounts, NoRenames
<1>4. ~ Linked(v)'
  BY <1>2, <1>3 DEF Linked
<1> QED
  BY <1>1, <1>2, <1>4 DEF Owned, Accounts, File

LEMMA RemovesFile ==
  ASSUME Accounts, NEW v \in Sessions, NEW c \in Cfgs, c \in CfgOf[v], DeleteBird(c)
  PROVE  /\ Owned' /\ ~ Filed(v)'
         /\ Linked(v)' <=> Linked(v)
<1>1. /\ link' = link
      /\ \/ conf[File(c)] = None /\ conf' = conf
         \/ conf' = [conf EXCEPT ![File(c)] = None]
  BY NoSuchFault DEF DeleteBird, Accounts
<1>2. \A f \in Files : conf'[f] = IF f = File(c) THEN None ELSE conf[f]
  BY <1>1 DEF Accounts, Backing, Shape, TypeOK, ProvTypeOK
<1>3. \A d \in CfgOf[v] : File(d) = File(c) /\ File(c) \in Files
  BY ConfigAssumption DEF Accounts, NoRenames, File
<1>4. ~ Filed(v)' /\ (Linked(v)' <=> Linked(v))
  BY <1>1, <1>2, <1>3 DEF Filed, Linked, File
<1> QED
  BY <1>1, <1>2, <1>4 DEF Owned, Accounts, File

LEMMA QuietOwned ==
  ASSUME Accounts, UNCHANGED <<link, conf>>
  PROVE  Owned'
  BY DEF Accounts, Owned, File

LEMMA ElsewhereCovered ==
  ASSUME NEW v, Elsewhere(v), NEW u \in Sessions, u # v, NEW s
  PROVE  Covered(u, s)' <=> Covered(u, s)
<1>1. Linked(u)' <=> Linked(u)
  BY DEF Elsewhere, Linked
<1>2. Filed(u)' <=> Filed(u)
  BY DEF Elsewhere, Filed, File
<1> QED
  BY <1>1, <1>2 DEF Covered

-----------------------------------------------------------------------------
(* A step of call p that changes the node for session v only.              *)
LEMMA OwnCovering ==
  ASSUME Accounts, NEW p \in Procs, pc[p] # "idle", NEW v, Elsewhere(v),
         local' = local,
         \A q \in Procs : q # p => pc'[q] = pc[q],
         \A u \in Sessions : Untouched(p, u)' => u # v /\ Untouched(p, u),
         \A u \in Sessions : Answered(p, u)' =>
           \/ u # v /\ Answered(p, u) /\ next'[p][u] = next[p][u]
           \/ Covered(u, next[p][u])',
         HandCovered(p)'
  PROVE  Covering'
<1>1. \A q \in Procs : q # p => pc[q] = "idle" /\ pc'[q] = "idle"
  BY Alone DEF Accounts, Backing
<1>2. ASSUME NEW u \in Sessions, \A q \in Procs : Untouched(q, u)'
      PROVE  Covered(u, local[u])'
  <2>1. u # v /\ \A q \in Procs : Untouched(q, u)
    BY <1>1, <1>2 DEF Untouched
  <2>2. Covered(u, local[u])
    BY <2>1 DEF Accounts, Covering
  <2> QED
    BY <2>1, <2>2, ElsewhereCovered DEF Covered, Wanted
<1>3. ASSUME NEW q \in Procs, NEW u \in Sessions, Answered(q, u)'
      PROVE  Covered(u, next[q][u])'
  <2>1. q = p
    BY <1>1, <1>3 DEF Answered, Untouched
  <2>2. CASE u # v /\ Answered(p, u) /\ next'[p][u] = next[p][u]
    <3>1. Covered(u, next[p][u])
      BY <2>2 DEF Accounts, Covering
    <3> QED
      BY <2>1, <2>2, <3>1, ElsewhereCovered DEF Covered, Wanted
  <2> QED
    BY <1>3, <2>1, <2>2
<1>4. \A q \in Procs : HandCovered(q)'
  BY <1>1 DEF HandCovered
<1>5. (\A u \in Sessions : (\A q \in Procs : Untouched(q, u)') => Covered(u, local[u])')
  BY <1>2
<1> QED
  BY <1>3, <1>4, <1>5 DEF Covering

LEMMA GotoCovering ==
  ASSUME Accounts, NEW p \in Procs, cur[p] \in Hand,
         pc[p] \in Working \cup Tearing,
         NEW place \in Working \cup Tearing, NEW rec \in BgpSession \cup {None},
         Goto(p, place, rec),
         rec = None <=> cur[p].rec = None,
         UNCHANGED <<local, remote, todo>>,
         Elsewhere(cur[p].sess),
         HandCovered(p)'
  PROVE  Covering'
<1> DEFINE v == cur[p].sess
<1>1. /\ cur'[p] \in Hand /\ cur'[p].rec = rec /\ cur'[p].sess = v
      /\ pc'[p] = place /\ next' = next
      /\ \A q \in Procs : q # p => pc'[q] = pc[q]
  BY GotoHand DEF Accounts, Backing, Shape
<1>2. ~ Untouched(p, v) /\ (InRemoval(p) <=> cur[p].rec = None)
  BY InHand DEF Accounts, Backing
<1>3. InRemoval(p)' <=> InRemoval(p)
  BY <1>1, <1>2, HandAssumption DEF InRemoval, Working, Tearing
<1>4. \A u \in Sessions : Untouched(p, u)' <=> Untouched(p, u)
  BY <1>1, <1>3 DEF Untouched, Working, Tearing
<1>5. cur[p] # None /\ cur'[p] # None
  BY <1>1, HandAssumption
<1>6. \A u \in Sessions : Answered(p, u)' => u # v /\ Answered(p, u) /\ next'[p][u] = next[p][u]
  BY <1>1, <1>4, <1>5 DEF Answered
<1>7. \A u \in Sessions : Untouched(p, u)' => u # v /\ Untouched(p, u)
  BY <1>2, <1>4
<1>8. pc[p] # "idle"
  BY DEF Working, Tearing
<1> HIDE DEF v
<1>9. Elsewhere(v)
  BY DEF v
<1> QED
  BY <1>1, <1>6, <1>7, <1>8, <1>9, OwnCovering

LEMMA StoreCovering ==
  ASSUME Accounts, NEW p \in Procs, cur[p] \in Hand,
         pc[p] \in Working \cup Tearing,
         cur[p].rec # None,
         NEW rec \in BgpSession, Store(p, rec),
         UNCHANGED <<local, remote, todo>>,
         NEW v \in Sessions, v = cur[p].sess, Elsewhere(v),
         Linked(v)' \/ Filed(v)' => Wanted(rec)
  PROVE  Covering'
<1>1. /\ next'[p] = [next[p] EXCEPT ![v] = rec]
      /\ next[p] \in Table
      /\ cur'[p] = None /\ pc'[p] = "sessions"
      /\ \A q \in Procs : q # p => pc'[q] = pc[q]
  BY DEF Store, Accounts, Backing, Shape, TypeOK
<1>2. ~ Untouched(p, v) /\ ~ InRemoval(p)
  BY InHand DEF Accounts, Backing
<1>3. ~ InRemoval(p)'
  BY <1>1 DEF InRemoval
<1>4. \A u \in Sessions : Untouched(p, u)' <=> Untouched(p, u)
  BY <1>1, <1>2, <1>3 DEF Untouched, Working, Tearing
<1>5. ASSUME NEW u \in Sessions, Answered(p, u)'
      PROVE  \/ u # v /\ Answered(p, u) /\ next'[p][u] = next[p][u]
             \/ Covered(u, next[p][u])'
  <2>1. CASE u = v
    <3>1. next'[p][u] = rec
      BY <1>1, <2>1 DEF Table
    <3> QED
      BY <2>1, <3>1 DEF Covered, Wanted
  <2>2. CASE u # v
    BY <1>1, <1>4, <1>5, <2>2 DEF Answered, Table
  <2> QED
    BY <2>1, <2>2
<1>6. HandCovered(p)' /\ pc[p] # "idle"
  BY <1>1 DEF HandCovered, Working, Tearing
<1>7. \A u \in Sessions : Untouched(p, u)' => u # v /\ Untouched(p, u)
  BY <1>2, <1>4
<1> QED
  BY <1>1, <1>5, <1>6, <1>7, OwnCovering

(* A step of call p that leaves the node alone and nothing in hand that a  *)
(* claim is made about, but for the session it takes.                      *)
LEMMA QuietCovering ==
  ASSUME Accounts, NEW p \in Procs, pc[p] # "idle",
         UNCHANGED <<link, conf, local>>,
         \A q \in Procs : q # p => pc'[q] = pc[q],
         \A u \in Sessions : Untouched(p, u)' => Untouched(p, u),
         \A u \in Sessions : Answered(p, u)' =>
           \/ Answered(p, u) /\ next'[p][u] = next[p][u]
           \/ Covered(u, next[p][u])',
         HandCovered(p)'
  PROVE  Covering'
<1>1. Elsewhere(None)
  BY DEF Elsewhere
<1>2. \A u \in Sessions : u # None
  BY NoneAssumption
<1> HIDE DEF Elsewhere
<1> QED
  BY <1>1, <1>2, OwnCovering

LEMMA ReturnCovering ==
  ASSUME Accounts, NEW p \in Procs, pc[p] # "idle", Return(p),
         \A u \in Sessions : Covered(u, local[u])'
  PROVE  Covering'
<1>1. \A q \in Procs : pc'[q] = "idle"
  BY Alone DEF Accounts, Backing, Shape, TypeOK, Return
<1>2. \A q \in Procs, u \in Sessions : ~ Answered(q, u)'
  BY <1>1 DEF Answered, Untouched
<1>3. \A q \in Procs : HandCovered(q)'
  BY <1>1 DEF HandCovered
<1> QED
  BY <1>2, <1>3 DEF Covering

(* Nothing is left of a session the agent does not hold.                   *)
LEMMA NothingLeft ==
  ASSUME NEW u, Covered(u, None), NEW s
  PROVE  ~ Linked(u) /\ ~ Filed(u) /\ Covered(u, s)
  BY DEF Covered, Wanted

(* Where a record goes that is not set up and replaces an entry that       *)
(* accounts for the node.                                                  *)
LEMMA BranchCovers ==
  ASSUME NEW u, NEW rec \in BgpSession, NEW old, Covered(u, old)
  PROVE  /\ Branch(rec, old) = "ack" => Covered(u, None)
         /\ Branch(rec, old) = "sessions" => Covered(u, rec)
<1>1. Branch(rec, old) = "ack" => old = None
  BY DEF Branch
<1>2. Branch(rec, old) = "sessions" =>
        \/ rec.status \notin ToRemove \cup {"QUEUED_FOR_DELETE"}
        \/ old = None
  BY DEF Branch
<1>3. rec # None
  BY RecordAssumption
<1> QED
  BY <1>1, <1>2, <1>3, NothingLeft DEF Covered, Wanted

-----------------------------------------------------------------------------
(* One lemma per action: Owned and Covering survive it.                    *)
Remains == Owned' /\ Covering'

LEMMA StartSyncRemains ==
  ASSUME Accounts, NEW p \in Procs, StartSync(p)
  PROVE  Remains
<1>1. /\ UNCHANGED <<link, conf, local, remote, todo, cur, next>>
      /\ pc[p] = "idle" /\ pc'[p] = "fetch"
      /\ \A q \in Procs : q # p => pc'[q] = pc[q]
  BY DEF StartSync, provVars, Accounts, Backing, Shape, TypeOK
<1>2. \A q \in Procs, u \in Sessions : Untouched(q, u)' <=> Untouched(q, u)
  BY <1>1 DEF Untouched, InRemoval
<1>4. \A q \in Procs : HandCovered(q)'
  BY <1>1 DEF Accounts, Covering, HandCovered, Covered, Linked, Filed, File, Wanted
<1>5. \A q \in Procs, u \in Sessions : Answered(q, u)' <=> Answered(q, u)
  BY <1>1, <1>2 DEF Answered
<1>6. Covering'
  BY <1>1, <1>2, <1>4, <1>5 DEF Accounts, Covering, Covered, Linked, Filed, File, Wanted
<1> QED
  BY <1>1, <1>6, QuietOwned DEF Remains

LEMMA FetchFailsRemains ==
  ASSUME Accounts, NEW p \in Procs, FetchFails(p)
  PROVE  Remains
<1>1. UNCHANGED <<link, conf, local>> /\ pc[p] = "fetch" /\ Return(p)
  BY DEF FetchFails
<1>2. \A u \in Sessions, q \in Procs : Untouched(q, u)
  BY <1>1, Alone DEF Untouched, Accounts, Backing
<1>3. \A u \in Sessions : Covered(u, local[u])
  BY <1>2 DEF Accounts, Covering
<1>4. \A u \in Sessions : Covered(u, local[u])'
  BY <1>1, <1>3 DEF Covered, Linked, Filed, File, Wanted
<1> QED
  BY <1>1, <1>4, ReturnCovering, QuietOwned DEF Remains

LEMMA FetchRemains ==
  ASSUME Accounts, NEW p \in Procs, Fetch(p)
  PROVE  Remains
<1>1. /\ UNCHANGED <<link, conf, local, cur>>
      /\ pc[p] = "fetch" /\ pc'[p] = "sessions"
      /\ remote'[p] = center /\ todo'[p] = Present(center)
      /\ \A q \in Procs : q # p => pc'[q] = pc[q]
  BY DEF Fetch, provVars, Accounts, Backing, Shape, TypeOK
<1>2. cur[p] = None
  BY <1>1 DEF Accounts, Backing, Shape, HandOK, AtRest
<1>3. \A u \in Sessions : Untouched(p, u) /\ ~ Answered(p, u)'
  BY <1>1, <1>2 DEF Untouched, Answered, InRemoval, Present
<1>4. HandCovered(p)'
  BY <1>1 DEF HandCovered
<1> QED
  BY <1>1, <1>3, <1>4, QuietCovering, QuietOwned DEF Remains

LEMMA KeepSessionRemains ==
  ASSUME Accounts, NEW p \in Procs, NEW u \in Sessions, KeepSession(p, u)
  PROVE  Remains
<1>1. /\ UNCHANGED <<link, conf, local, cur, pc, remote>>
      /\ pc[p] = "sessions"
      /\ todo'[p] = todo[p] \ {u}
      /\ next'[p] = [next[p] EXCEPT ![u] = local[u]]
      /\ next[p] \in Table
  BY DEF KeepSession, provVars, Accounts, Backing, Shape, TypeOK
<1>2. u \in todo[p]
  BY DEF KeepSession
<1>3. \A v \in Sessions : next'[p][v] = IF v = u THEN local[u] ELSE next[p][v]
  BY <1>1 DEF Table
<1>4. Covered(u, local[u])
  <2>1. \A q \in Procs : Untouched(q, u)
    BY <1>1, <1>2, Alone DEF Untouched, Accounts, Backing
  <2> QED
    BY <2>1 DEF Accounts, Covering
<1>5. \A v \in Sessions : Untouched(p, v)' => Untouched(p, v)
  BY <1>1 DEF Untouched, InRemoval
<1>6. ASSUME NEW v \in Sessions, Answered(p, v)'
      PROVE  \/ Answered(p, v) /\ next'[p][v] = next[p][v]
             \/ Covered(v, next[p][v])'
  <2>1. CASE v = u
    BY <1>1, <1>3, <1>4, <2>1 DEF Covered, Linked, Filed, File, Wanted
  <2>2. CASE v # u
    BY <1>1, <1>3, <1>6, <2>2 DEF Answered, Untouched, InRemoval
  <2> QED
    BY <2>1, <2>2
<1>7. HandCovered(p)'
  BY <1>1 DEF HandCovered
<1> QED
  BY <1>1, <1>5, <1>6, <1>7, QuietCovering, QuietOwned DEF Remains

LEMMA TakeSessionRemains ==
  ASSUME Accounts, NEW p \in Procs, NEW u \in Sessions, TakeSession(p, u)
  PROVE  Remains
<1> DEFINE rec == remote[p][u]
           old == local[u]
           place == IF Rejected(rec, old) THEN "invalid" ELSE Branch(rec, old)
           h == [sess |-> u, rec |-> rec, old |-> old]
<1>1. TypeOK /\ TodoOK(p) /\ HandOK(p)
  BY DEF Accounts, Backing, Shape
<1>2. /\ pc[p] = "sessions" /\ u \in todo[p]
      /\ UNCHANGED <<link, conf, local, remote>>
      /\ todo'[p] = todo[p] \ {u}
  BY <1>1 DEF TakeSession, provVars, TypeOK
<1>3. cur[p] = None /\ ~ InRemoval(p) /\ next[p] \in Table
  BY <1>1, <1>2 DEF HandOK, AtRest, InRemoval, TypeOK
<1>4. rec \in BgpSession /\ rec # None
  BY <1>1, <1>2, <1>3 DEF TypeOK, TodoOK, Present, Table
<1>5. Covered(u, old)
  <2>1. \A q \in Procs : Untouched(q, u)
    BY <1>2, Alone DEF Untouched, Accounts, Backing
  <2> QED
    BY <2>1 DEF Accounts, Covering
<1>6. /\ place \in {"invalid", "iface", "ack", "delIface", "sessions"}
      /\ place = "ack" => Covered(u, None)
      /\ place = "sessions" => Covered(u, rec)
  BY <1>4, <1>5, BranchFacts, BranchCovers
<1>7. \/ place = "sessions" /\ next' = [next EXCEPT ![p][u] = rec] /\ UNCHANGED <<pc, cur>>
      \/ /\ place # "sessions"
         /\ cur' = [cur EXCEPT ![p] = h]
         /\ pc' = [pc EXCEPT ![p] = place]
         /\ next' = next
  BY DEF TakeSession
<1>8. h # None /\ h.sess = u /\ h.rec = rec /\ h.old = old
  BY <1>1, <1>4, HandAssumption DEF Hand, TypeOK, Table
<1> HIDE DEF rec, old, place, h
<1>9. CASE place = "sessions" /\ next' = [next EXCEPT ![p][u] = rec] /\ UNCHANGED <<pc, cur>>
  <2>1. \A v \in Sessions : next'[p][v] = IF v = u THEN rec ELSE next[p][v]
    BY <1>1, <1>3, <1>9 DEF TypeOK, Table
  <2>2. \A v \in Sessions : Untouched(p, v)' => Untouched(p, v)
    BY <1>2, <1>9 DEF Untouched, InRemoval
  <2>3. ASSUME NEW v \in Sessions, Answered(p, v)'
        PROVE  \/ Answered(p, v) /\ next'[p][v] = next[p][v]
               \/ Covered(v, next[p][v])'
    <3>1. CASE v = u
      BY <1>2, <1>6, <1>9, <2>1, <3>1 DEF Covered, Linked, Filed, File, Wanted
    <3>2. CASE v # u
      BY <1>2, <1>9, <2>1, <2>3, <3>2 DEF Answered, Untouched, InRemoval
    <3> QED
      BY <3>1, <3>2
  <2>4. HandCovered(p)'
    BY <1>2, <1>9 DEF HandCovered
  <2> QED
    BY <1>2, <1>9, <2>2, <2>3, <2>4, QuietCovering, QuietOwned DEF Remains
<1>10. CASE /\ place # "sessions"
            /\ cur' = [cur EXCEPT ![p] = h]
            /\ pc' = [pc EXCEPT ![p] = place]
            /\ next' = next
  <2>1. /\ cur'[p] = h /\ pc'[p] = place
        /\ \A q \in Procs : q # p => pc'[q] = pc[q]
    BY <1>1, <1>10 DEF TypeOK
  <2>2. ~ InRemoval(p)'
    BY <1>4, <1>6, <1>8, <2>1 DEF InRemoval
  <2>3. \A v \in Sessions : v # u => (Untouched(p, v)' <=> Untouched(p, v))
    BY <1>2, <1>3, <1>6, <2>1, <2>2 DEF Untouched
  <2>4. Untouched(p, u)
    BY <1>2 DEF Untouched
  <2>5. \A v \in Sessions : Untouched(p, v)' => Untouched(p, v)
    BY <2>3, <2>4
  <2>6. \A v \in Sessions : Answered(p, v)' => Answered(p, v) /\ next'[p][v] = next[p][v]
    BY <1>3, <1>8, <1>10, <2>1, <2>3 DEF Answered
  <2>7. HandCovered(p)'
    BY <1>2, <1>5, <1>6, <1>8, <1>10, <2>1
    DEF HandCovered, Covered, Linked, Filed, File, Wanted
  <2> QED
    BY <1>2, <2>1, <2>5, <2>6, <2>7, QuietCovering, QuietOwned DEF Remains
<1> QED
  BY <1>7, <1>9, <1>10

LEMMA StartRemovalRemains ==
  ASSUME Accounts, NEW p \in Procs, StartRemoval(p)
  PROVE  Remains
<1>1. /\ UNCHANGED <<link, conf, local, cur, remote, next>>
      /\ pc[p] = "sessions" /\ pc'[p] = "gone"
      /\ todo[p] = {}
      /\ todo'[p] = Present(local) \ Present(remote[p])
      /\ \A q \in Procs : q # p => pc'[q] = pc[q]
  BY DEF StartRemoval, provVars, Accounts, Backing, Shape, TypeOK
<1>2. cur[p] = None /\ ~ InRemoval(p) /\ InRemoval(p)'
  BY <1>1 DEF Accounts, Backing, Shape, HandOK, AtRest, InRemoval
<1>3. \A v \in Sessions : Untouched(p, v)' => Untouched(p, v)
  BY <1>1, <1>2 DEF Untouched, InRemoval, Present
<1>4. ASSUME NEW v \in Sessions, Answered(p, v)'
      PROVE  \/ Answered(p, v) /\ next'[p][v] = next[p][v]
             \/ Covered(v, next[p][v])'
  <2>1. CASE Untouched(p, v)
    <3>1. local[v] = None
      BY <1>1, <1>2, <1>4, <2>1 DEF Answered, Untouched, Present
    <3>2. \A q \in Procs : Untouched(q, v)
      BY <1>1, <2>1, Alone DEF Untouched, Accounts, Backing
    <3>3. Covered(v, local[v])
      BY <3>2 DEF Accounts, Covering
    <3> QED
      BY <1>1, <3>1, <3>3 DEF Covered, Linked, Filed, File, Wanted
  <2>2. CASE ~ Untouched(p, v)
    BY <1>1, <1>2, <2>2 DEF Answered
  <2> QED
    BY <2>1, <2>2
<1>5. HandCovered(p)'
  BY <1>1 DEF HandCovered
<1> QED
  BY <1>1, <1>3, <1>4, <1>5, QuietCovering, QuietOwned DEF Remains

LEMMA RemoveSessionRemains ==
  ASSUME Accounts, NEW p \in Procs, NEW u \in Sessions, RemoveSession(p, u)
  PROVE  Remains
<1> DEFINE h == [sess |-> u, rec |-> None, old |-> local[u]]
<1>1. TypeOK /\ HandOK(p) /\ InRemoval(p)
  BY DEF Accounts, Backing, Shape, RemoveSession, InRemoval
<1>2. /\ UNCHANGED <<link, conf, local, remote, next>>
      /\ pc[p] = "gone" /\ pc'[p] = "delIface" /\ u \in todo[p]
      /\ todo'[p] = todo[p] \ {u} /\ cur'[p] = h
      /\ \A q \in Procs : q # p => pc'[q] = pc[q]
  BY <1>1 DEF RemoveSession, provVars, TypeOK
<1>3. h # None /\ h.sess = u /\ h.rec = None
  BY <1>1, HandAssumption DEF Hand, TypeOK, Table
<1>4. cur[p] = None
  BY <1>1, <1>2 DEF HandOK, AtRest
<1> HIDE DEF h
<1>5. InRemoval(p)'
  BY <1>2, <1>3 DEF InRemoval
<1>6. \A v \in Sessions : Untouched(p, v)' => Untouched(p, v)
  BY <1>1, <1>2, <1>5 DEF Untouched
<1>7. \A v \in Sessions : Answered(p, v)' => Answered(p, v) /\ next'[p][v] = next[p][v]
  BY <1>1, <1>2, <1>3, <1>4, <1>5 DEF Answered, Untouched
<1>8. HandCovered(p)'
  BY <1>2 DEF HandCovered
<1> QED
  BY <1>2, <1>6, <1>7, <1>8, QuietCovering, QuietOwned DEF Remains

LEMMA InstallRemains ==
  ASSUME Accounts, NEW p \in Procs, Install(p)
  PROVE  /\ Remains
         /\ \A u \in Sessions : Covered(u, local[u])'
<1>1. /\ UNCHANGED <<link, conf>> /\ local' = next[p]
      /\ pc[p] = "gone" /\ todo[p] = {} /\ Return(p)
  BY DEF Install, provVars
<1>2. cur[p] = None
  BY <1>1 DEF Accounts, Backing, Shape, HandOK, AtRest
<1>3. \A u \in Sessions : Answered(p, u)
  BY <1>1, <1>2 DEF Answered, Untouched, InRemoval
<1>4. \A u \in Sessions : Covered(u, next[p][u])
  BY <1>3 DEF Accounts, Covering
<1>5. \A u \in Sessions : Covered(u, local[u])'
  BY <1>1, <1>4 DEF Covered, Linked, Filed, File, Wanted
<1> QED
  BY <1>1, <1>5, ReturnCovering, QuietOwned DEF Remains

LEMMA RejectSessionRemains ==
  ASSUME Accounts, NEW p \in Procs, RejectSession(p)
  PROVE  Remains
<1> DEFINE rec == [cur[p].rec EXCEPT !.status = "TEARDOWN"]
           place == Branch(rec, cur[p].old)
<1>1. pc[p] \in Working /\ pc[p] = "invalid"
  BY DEF RejectSession, Working
<1>2. /\ Shape /\ Order /\ TypeOK /\ cur[p] \in Hand /\ cur[p].sess \in Sessions
      /\ cur[p].rec \in BgpSession /\ cur[p].rec # None
  BY <1>1, HandFacts DEF Accounts
<1>3. rec \in BgpSession /\ rec # None /\ rec.status = "TEARDOWN"
  BY <1>2, WithStatus DEF Status
<1>4. UNCHANGED <<local, remote, todo>> /\ Continue(p, rec)
  BY DEF RejectSession
<1>5. UNCHANGED <<link, conf>> /\ Elsewhere(cur[p].sess)
  BY <1>2, ReportElsewhere DEF RejectSession
<1>6. Covered(cur[p].sess, cur[p].old)
  BY <1>1 DEF Accounts, Covering, HandCovered
<1> HIDE DEF rec
<1>7. /\ place \in {"iface", "delIface", "sessions"}
      /\ place = "sessions" => Covered(cur[p].sess, rec)
  BY <1>3, <1>6, BranchFacts, BranchCovers
<1>8. CASE place = "sessions"
  <2>1. Store(p, rec)
    BY <1>4, <1>8 DEF Continue
  <2>2. ASSUME NEW v \in Sessions, v = cur[p].sess
        PROVE  Covering'
    <3>1. Linked(v)' \/ Filed(v)' => Wanted(rec)
      BY <1>5, <1>7, <1>8, <2>2 DEF Covered, Linked, Filed, File
    <3>2. Elsewhere(v)
      BY <1>5, <2>2
    <3> QED
      BY <1>1, <1>2, <1>3, <1>4, <2>1, <2>2, <3>1, <3>2, StoreCovering
  <2> QED
    BY <1>2, <1>5, <2>2, QuietOwned DEF Remains
<1>9. CASE place # "sessions"
  <2>1. Goto(p, place, rec)
    BY <1>4, <1>9 DEF Continue
  <2>2. pc'[p] = place
    BY <1>2, <1>3, <2>1, GotoHand
  <2>3. HandCovered(p)' /\ place \in Working \cup Tearing
    BY <1>7, <1>9, <2>2 DEF HandCovered, Working, Tearing
  <2> QED
    BY <1>1, <1>2, <1>3, <1>4, <1>5, <2>1, <2>3, GotoCovering, QuietOwned DEF Remains
<1> QED
  BY <1>8, <1>9

LEMMA SetUpInterfaceRemains ==
  ASSUME Accounts, NEW p \in Procs, SetUpInterface(p)
  PROVE  Remains
<1> DEFINE v == cur[p].sess
           c == cur[p].rec.cfg
<1>1. pc[p] \in Working
  BY DEF SetUpInterface, Working
<1>2. /\ TypeOK /\ ProvTypeOK /\ UniqueNames /\ cur[p] \in Hand
      /\ v \in Sessions /\ cur[p].rec \in BgpSession /\ cur[p].rec # None
      /\ c \in Cfgs /\ c \in CfgOf[v]
  BY <1>1, HandFacts DEF Accounts
<1>3. PICK ok \in BOOLEAN :
        /\ ConfigureInterface(v, c, ok)
        /\ IF ok THEN Goto(p, "bird", cur[p].rec)
                 ELSE Goto(p, "report", [cur[p].rec EXCEPT !.status = "PROBLEM"])
  BY DEF SetUpInterface
<1>4. Owned' /\ ok
  BY <1>2, <1>3, MakesInterface
<1>5. Goto(p, "bird", cur[p].rec) /\ UNCHANGED <<local, remote, todo>>
  BY <1>3, <1>4 DEF SetUpInterface
<1>6. Elsewhere(cur[p].sess)
  BY <1>2, <1>3, ConfigureInterfaceElsewhere
<1>7. pc'[p] = "bird"
  BY <1>2, <1>5, GotoHand
<1>8. HandCovered(p)' /\ "bird" \in Working
  BY <1>7 DEF HandCovered, Working
<1>9. cur[p].rec \in BgpSession \cup {None} /\ cur[p] \in Hand
  BY <1>2
<1> HIDE DEF v, c
<1>10. Covering'
  BY <1>1, <1>5, <1>6, <1>8, <1>9, GotoCovering
<1> QED
  BY <1>4, <1>10 DEF Remains

LEMMA SetUpBirdRemains ==
  ASSUME Accounts, NEW p \in Procs, SetUpBird(p)
  PROVE  Remains
<1> DEFINE v == cur[p].sess
           c == cur[p].rec.cfg
<1>1. pc[p] \in Working
  BY DEF SetUpBird, Working
<1>2. /\ TypeOK /\ ProvTypeOK /\ UniqueNames /\ cur[p] \in Hand
      /\ v \in Sessions /\ cur[p].rec \in BgpSession /\ cur[p].rec # None
      /\ c \in Cfgs /\ c \in CfgOf[v]
  BY <1>1, HandFacts DEF Accounts
<1>3. PICK ok \in BOOLEAN :
        /\ ConfigureBird(v, c, ok)
        /\ Goto(p, "report", [cur[p].rec EXCEPT
                                !.status = IF ok THEN "ENABLED" ELSE "PROBLEM"])
  BY DEF SetUpBird
<1>4. Owned' /\ ok
  BY <1>2, <1>3, MakesFile
<1>5. Elsewhere(cur[p].sess)
  BY <1>2, <1>3, ConfigureBirdElsewhere
<1> DEFINE rec == [cur[p].rec EXCEPT !.status = "ENABLED"]
<1>6. rec \in BgpSession /\ rec # None /\ rec.status = "ENABLED"
  BY <1>2, WithStatus DEF Status
<1>7. Goto(p, "report", rec) /\ UNCHANGED <<local, remote, todo>>
  BY <1>3, <1>4 DEF SetUpBird
<1> HIDE DEF rec
<1>8. cur'[p].rec = rec /\ pc'[p] = "report"
  BY <1>2, <1>6, <1>7, GotoHand
<1>9. Wanted(rec)
  BY <1>6 DEF Wanted, ToRemove
<1>10. HandCovered(p)' /\ "report" \in Working
  BY <1>8, <1>9 DEF HandCovered, Covered, Wanted, Working
<1>11. cur[p] \in Hand /\ (rec = None <=> cur[p].rec = None)
  BY <1>2, <1>6
<1> HIDE DEF v, c
<1>12. Covering'
  BY <1>1, <1>5, <1>6, <1>7, <1>10, <1>11, GotoCovering
<1> QED
  BY <1>4, <1>12 DEF Remains

LEMMA ReportStatusRemains ==
  ASSUME Accounts, NEW p \in Procs, ReportStatus(p)
  PROVE  Remains
<1>1. pc[p] \in Working /\ pc[p] = "report"
  BY DEF ReportStatus, Working
<1>2. /\ cur[p] \in Hand /\ cur[p].sess \in Sessions
      /\ cur[p].rec \in BgpSession /\ cur[p].rec # None
  BY <1>1, HandFacts DEF Accounts
<1>3. Store(p, cur[p].rec) /\ UNCHANGED <<local, remote, todo>>
  BY DEF ReportStatus
<1>4. UNCHANGED <<link, conf>> /\ Elsewhere(cur[p].sess)
  BY <1>2, ReportElsewhere DEF ReportStatus
<1>5. Covered(cur[p].sess, cur[p].rec)
  BY <1>1 DEF Accounts, Covering, HandCovered
<1>6. ASSUME NEW v \in Sessions, v = cur[p].sess, NEW rec \in BgpSession, rec = cur[p].rec
      PROVE  Covering'
  <2>1. Linked(v)' \/ Filed(v)' => Wanted(rec)
    BY <1>4, <1>5, <1>6 DEF Covered, Linked, Filed, File
  <2> QED
    BY <1>1, <1>2, <1>3, <1>4, <1>6, <2>1, StoreCovering
<1> QED
  BY <1>2, <1>4, <1>6, QuietOwned DEF Remains

LEMMA AcknowledgeDeleteRemains ==
  ASSUME Accounts, NEW p \in Procs, AcknowledgeDelete(p)
  PROVE  Remains
<1>1. pc[p] \in Working /\ pc[p] = "ack"
  BY DEF AcknowledgeDelete, Working
<1>2. /\ cur[p] \in Hand /\ cur[p].sess \in Sessions
      /\ cur[p].rec \in BgpSession /\ cur[p].rec # None
  BY <1>1, HandFacts DEF Accounts
<1>3. PICK ok \in BOOLEAN :
        /\ Report(cur[p].sess, "DELETED", ok)
        /\ Store(p, IF ok THEN [cur[p].rec EXCEPT !.status = "DELETED"] ELSE cur[p].rec)
  BY DEF AcknowledgeDelete
<1>4. UNCHANGED <<link, conf>> /\ Elsewhere(cur[p].sess)
  BY <1>2, <1>3, ReportElsewhere
<1>5. ~ Linked(cur[p].sess) /\ ~ Filed(cur[p].sess)
  BY <1>1, NothingLeft DEF Accounts, Covering, HandCovered
<1>6. (IF ok THEN [cur[p].rec EXCEPT !.status = "DELETED"] ELSE cur[p].rec) \in BgpSession
  BY <1>2, WithStatus DEF Status
<1>7. ASSUME NEW v \in Sessions, v = cur[p].sess, NEW rec \in BgpSession, Store(p, rec)
      PROVE  Covering'
  <2>1. ~ Linked(v)' /\ ~ Filed(v)'
    BY <1>4, <1>5, <1>7 DEF Linked, Filed, File
  <2>2. UNCHANGED <<local, remote, todo>>
    BY DEF AcknowledgeDelete
  <2> QED
    BY <1>1, <1>2, <1>4, <1>7, <2>1, <2>2, StoreCovering
<1> QED
  BY <1>2, <1>3, <1>4, <1>6, <1>7, QuietOwned DEF Remains

LEMMA TearDownInterfaceRemains ==
  ASSUME Accounts, NEW p \in Procs, TearDownInterface(p)
  PROVE  Remains
<1>1. pc[p] \in Tearing
  BY DEF TearDownInterface, Tearing
<1>2. /\ TypeOK /\ ProvTypeOK /\ UniqueNames /\ cur[p] \in Hand
      /\ cur[p].sess \in Sessions /\ cur[p].rec \in BgpSession \cup {None}
      /\ cur[p].old.cfg \in Cfgs /\ cur[p].old.cfg \in CfgOf[cur[p].sess]
  BY <1>1, HandFacts DEF Accounts
<1>3. /\ DeleteInterface(cur[p].old.cfg)
      /\ Goto(p, "delBird", cur[p].rec)
      /\ UNCHANGED <<local, remote, todo>>
  BY DEF TearDownInterface
<1>4. Elsewhere(cur[p].sess)
  BY <1>2, <1>3, DeleteInterfaceElsewhere
<1>5. cur'[p].sess = cur[p].sess /\ pc'[p] = "delBird"
  BY <1>2, <1>3, GotoHand
<1>6. ASSUME NEW v \in Sessions, v = cur[p].sess
      PROVE  Owned' /\ HandCovered(p)'
  <2>1. Owned' /\ ~ Linked(v)'
    BY <1>2, <1>3, <1>6, RemovesInterface
  <2> QED
    BY <1>5, <1>6, <2>1 DEF HandCovered, Linked
<1>7. Owned' /\ HandCovered(p)'
  BY <1>2, <1>6
<1>8. "delBird" \in Tearing
  BY DEF Tearing
<1> QED
  BY <1>1, <1>2, <1>3, <1>4, <1>7, <1>8, GotoCovering DEF Remains

LEMMA TearDownBirdRemains ==
  ASSUME Accounts, NEW p \in Procs, TearDownBird(p)
  PROVE  Remains
<1>1. pc[p] \in Tearing /\ pc[p] = "delBird"
  BY DEF TearDownBird, Tearing
<1>2. /\ TypeOK /\ ProvTypeOK /\ UniqueNames /\ cur[p] \in Hand /\ cur[p] # None
      /\ cur[p].sess \in Sessions /\ cur[p].rec \in BgpSession \cup {None}
      /\ cur[p].old.cfg \in Cfgs /\ cur[p].old.cfg \in CfgOf[cur[p].sess]
  BY <1>1, HandFacts, HandAssumption DEF Accounts
<1>3. DeleteBird(cur[p].old.cfg) /\ UNCHANGED <<local, remote, todo>>
  BY DEF TearDownBird
<1>4. PICK v \in Sessions : v = cur[p].sess
  BY <1>2
<1>5. Elsewhere(v) /\ Elsewhere(cur[p].sess)
  BY <1>2, <1>3, <1>4, DeleteBirdElsewhere
<1>6. Owned' /\ ~ Linked(v)' /\ ~ Filed(v)'
  <2>1. ~ Linked(v)
    BY <1>1, <1>4 DEF Accounts, Covering, HandCovered
  <2> QED
    BY <1>2, <1>3, <1>4, <2>1, RemovesFile
<1>7. CASE /\ cur[p].rec = None
           /\ cur' = [cur EXCEPT ![p] = None]
           /\ pc' = [pc EXCEPT ![p] = "gone"]
           /\ next' = next
  <2>1. /\ cur'[p] = None /\ pc'[p] = "gone"
        /\ \A q \in Procs : q # p => pc'[q] = pc[q]
    BY <1>2, <1>7 DEF TypeOK
  <2>2. ~ Untouched(p, v) /\ InRemoval(p) /\ InRemoval(p)'
    BY <1>1, <1>2, <1>4, <1>7, <2>1, InHand DEF Accounts, Backing, InRemoval
  <2>3. \A u \in Sessions : Untouched(p, u)' => u # v /\ Untouched(p, u)
    BY <1>3, <2>1, <2>2 DEF Untouched
  <2>4. ASSUME NEW u \in Sessions, Answered(p, u)'
        PROVE  \/ u # v /\ Answered(p, u) /\ next'[p][u] = next[p][u]
               \/ Covered(u, next[p][u])'
    <3>1. CASE u = v
      BY <1>6, <3>1 DEF Covered
    <3>2. CASE u # v
      BY <1>1, <1>3, <1>4, <1>7, <2>1, <2>2, <2>4, <3>2 DEF Answered, Untouched
    <3> QED
      BY <3>1, <3>2
  <2>5. HandCovered(p)' /\ pc[p] # "idle"
    BY <1>1, <2>1 DEF HandCovered
  <2>6. Covering'
    BY <1>3, <1>5, <2>1, <2>3, <2>4, <2>5, OwnCovering
  <2> QED
    BY <1>6, <2>6 DEF Remains
<1>8. CASE /\ cur[p].rec # None
           /\ Goto(p, "report", [cur[p].rec EXCEPT !.status = "DELETED"])
  <2> DEFINE rec == [cur[p].rec EXCEPT !.status = "DELETED"]
  <2>1. rec \in BgpSession /\ rec # None
    BY <1>2, <1>8, WithStatus DEF Status
  <2>2. Goto(p, "report", rec)
    BY <1>8
  <2> HIDE DEF rec
  <2>3. cur'[p].sess = v /\ pc'[p] = "report"
    BY <1>2, <1>4, <2>1, <2>2, GotoHand
  <2>4. HandCovered(p)'
    BY <1>6, <2>3 DEF HandCovered, Covered, Linked, Filed, File
  <2>5. "report" \in Working
    BY DEF Working
  <2>6. Covering'
    BY <1>1, <1>2, <1>3, <1>5, <1>8, <2>1, <2>2, <2>4, <2>5, GotoCovering
  <2> QED
    BY <1>6, <2>6 DEF Remains
<1>9. CASE cur[p].rec # None /\ Store(p, cur[p].rec)
  <2>1. ASSUME NEW rec \in BgpSession, rec = cur[p].rec
        PROVE  Covering'
    BY <1>1, <1>2, <1>3, <1>4, <1>5, <1>6, <1>9, <2>1, StoreCovering
  <2> QED
    BY <1>2, <1>6, <1>9, <2>1 DEF Remains
<1> QED
  BY <1>7, <1>8, <1>9 DEF TearDownBird

LEMMA StillRemains ==
  ASSUME Accounts, UNCHANGED <<link, conf, local, pc, remote, todo, cur, next>>
  PROVE  Remains
<1>1. \A q \in Procs, u \in Sessions : Untouched(q, u)' <=> Untouched(q, u)
  BY DEF Untouched, InRemoval
<1>2. \A q \in Procs, u \in Sessions : Answered(q, u)' <=> Answered(q, u)
  BY <1>1 DEF Answered
<1>3. \A q \in Procs : HandCovered(q)'
  BY DEF Accounts, Covering, HandCovered, Covered, Linked, Filed, File, Wanted
<1>4. Covering'
  BY <1>1, <1>2, <1>3 DEF Accounts, Covering, Covered, Linked, Filed, File, Wanted
<1> QED
  BY <1>4, QuietOwned DEF Remains

LEMMA AccountsStep ==
  ASSUME Accounts, [SyncNext]_vars
  PROVE  Accounts'
<1>1. Backing({})'
  BY BackingStep DEF Accounts
<1>2. ASSUME NEW p \in Procs, Step(p) PROVE Remains
  BY <1>2, FetchFailsRemains, FetchRemains, KeepSessionRemains, TakeSessionRemains,
     RemoveSessionRemains, RejectSessionRemains, SetUpInterfaceRemains,
     SetUpBirdRemains, ReportStatusRemains, AcknowledgeDeleteRemains,
     TearDownInterfaceRemains, TearDownBirdRemains, StartRemovalRemains,
     InstallRemains DEF Step
<1>3. ASSUME NEW u \in Sessions, NEW row, OperatorEdit(u, row) PROVE Remains
  BY <1>3, StillRemains DEF OperatorEdit, provVars, runVars
<1>4. ~ Restart
  BY DEF Restart, Accounts, Backing, Shape, TypeOK
<1>5. ASSUME UNCHANGED vars PROVE Remains
  <2>1. UNCHANGED <<link, conf, local, pc, remote, todo, cur, next>>
    BY <1>5 DEF vars, provVars, syncVars, runVars
  <2> QED
    BY <2>1, StillRemains
<1>6. ASSUME SyncNext PROVE Remains
  BY <1>2, <1>3, <1>4, <1>6, StartSyncRemains DEF SyncNext, Environment
<1>7. Remains
  BY <1>5, <1>6
<1> QED
  BY <1>1, <1>7 DEF Accounts, Remains, NoRenames

LEMMA InitAccounts ==
  ASSUME Init, UniqueNames, NoRenames, FaultKinds \cap {"iface", "conf"} = {}, MaxRestarts = 0
  PROVE  Accounts
<1>1. (\A i \in Ifaces : link[i] = None) /\ (\A f \in Files : conf[f] = None)
  BY DEF Init, ProvInit
<1>2. \A u \in Sessions : \A c \in CfgOf[u] : IfaceOf[c] \in Ifaces /\ File(c) \in Files
  BY ConfigAssumption DEF File
<1>3. \A u \in Sessions : ~ Linked(u) /\ ~ Filed(u)
  BY <1>1, <1>2 DEF Linked, Filed
<1>4. Owned
  BY <1>1 DEF Owned
<1>5. \A p \in Procs : HandCovered(p) /\ pc[p] = "idle"
  BY DEF Init, HandCovered
<1>6. Covering
  BY <1>3, <1>5 DEF Covering, Covered
<1> QED
  BY <1>4, <1>6, InitBacking DEF Accounts

(* The node, when every session the table holds covers what it has.        *)
AllCovered == \A u \in Sessions : Covered(u, local[u])

LEMMA CoveredIsClean ==
  ProvTypeOK /\ NoRenames /\ Owned /\ Names /\ AllCovered => Clean
<1> SUFFICES ASSUME ProvTypeOK, NoRenames, Owned, Names, AllCovered
             PROVE  Clean
  OBVIOUS
<1>1. ASSUME NEW i \in Ifaces, link[i] # None
      PROVE  Accounted(link[i], i)
  <2> DEFINE u == link[i].sess
             c == link[i].cfg
  <2>1. u \in Sessions /\ c \in CfgOf[u] /\ i = IfaceOf[c]
    BY <1>1 DEF ProvTypeOK, Resource, Owned
  <2>2. Wanted(local[u])
    BY <1>1, <2>1 DEF AllCovered, Covered, Linked
  <2>3. IfaceOf[local[u].cfg] = i
    BY <2>1, <2>2 DEF Names, Named, NoRenames, Wanted
  <2> QED
    BY <2>2, <2>3 DEF Accounted, Wanted
<1>2. ASSUME NEW f \in Files, conf[f] # None
      PROVE  Accounted(conf[f], IfaceOf[conf[f].cfg])
  <2> DEFINE u == conf[f].sess
             c == conf[f].cfg
  <2>1. u \in Sessions /\ c \in CfgOf[u] /\ f = File(c)
    BY <1>2 DEF ProvTypeOK, Resource, Owned
  <2>2. Wanted(local[u])
    BY <1>2, <2>1 DEF AllCovered, Covered, Filed
  <2>3. IfaceOf[local[u].cfg] = IfaceOf[c]
    BY <2>1, <2>2 DEF Names, Named, NoRenames, Wanted
  <2> QED
    BY <2>2, <2>3 DEF Accounted, Wanted
<1> QED
  BY <1>1, <1>2, ConfigAssumption DEF Clean

(* When the deletions themselves do not fail, the agent is not restarted   *)
(* and no session changes the name of its interface, a run leaves nothing  *)
(* on the node that the table it installs does not account for, whatever   *)
(* the operator edits meanwhile and whatever reports, fetches, routes and  *)
(* reloads fail (syncSessions and the processX functions,                  *)
(* task_session_sync.go:204-520): without those conditions it does leave   *)
(* things behind.                                                          *)
THEOREM LeavesNoResidue ==
  /\ UniqueNames
  /\ NoRenames
  /\ FaultKinds \cap {"iface", "conf"} = {}
  /\ MaxRestarts = 0
  => (Spec => InstallLeavesNoResidue)
<1> DEFINE Given == /\ UniqueNames
                    /\ NoRenames
                    /\ FaultKinds \cap {"iface", "conf"} = {}
                    /\ MaxRestarts = 0
           Installs == \E p \in Procs : Install(p)
<1>1. Given /\ Init => Accounts
  BY InitAccounts
<1>2. Accounts /\ [SyncNext]_vars => Accounts'
  BY AccountsStep
<1>3. (ProvTypeOK /\ NoRenames /\ Owned /\ Names /\ AllCovered => Clean)'
  BY CoveredIsClean, PTL
<1>4. Accounts /\ [SyncNext]_vars => [Installs => Clean']_vars
  <2> SUFFICES ASSUME Accounts, [SyncNext]_vars, NEW p \in Procs, Install(p)
               PROVE  Clean'
    OBVIOUS
  <2>1. AllCovered'
    BY InstallRemains DEF AllCovered
  <2>2. Accounts'
    BY <1>2
  <2>3. ProvTypeOK' /\ NoRenames' /\ Owned' /\ Names'
    BY <2>2 DEF Accounts, Backing, Shape, TypeOK, Order
  <2> QED
    BY <1>3, <2>1, <2>3
<1> HIDE DEF Given
<1>5. Given => (Spec => InstallLeavesNoResidue)
  BY <1>1, <1>2, <1>4, PTL DEF Spec, InstallLeavesNoResidue
<1> QED
  BY <1>5 DEF Given

-----------------------------------------------------------------------------
(* BIRD runs the files as they are, and every one of them is complete.     *)
Current ==
  /\ loaded = conf
  /\ \A f \in Files : conf[f] # None => conf[f].whole

Runs ==
  /\ Backing({"file"})
  /\ FaultKinds \cap {"conf", "bird"} = {}
  /\ Current

(* A reload after a change that leaves every file complete.                *)
LEMMA ReloadIsCurrent ==
  ASSUME FaultKinds \cap {"conf", "bird"} = {},
         conf' \in [Files -> Resource \cup {None}],
         \A f \in Files : conf'[f] # None => conf'[f].whole,
         BirdConfigure(conf')
  PROVE  Current'
<1>1. Parsed(conf') = conf'
  BY DEF Parsed
<1>2. ~ Fault("bird")
  BY DEF Fault
<1>3. loaded' = conf'
  BY <1>1, <1>2 DEF BirdConfigure
<1> QED
  BY <1>3 DEF Current

LEMMA WritesCurrent ==
  ASSUME Runs, NEW v \in Sessions, NEW c \in Cfgs, NEW ok \in BOOLEAN, ConfigureBird(v, c, ok)
  PROVE  Current'
<1>1. ~ Fault("conf")
  BY DEF Runs, Fault
<1>2. conf' = [conf EXCEPT ![File(c)] = Made(v, c, TRUE)] /\ BirdConfigure(conf')
  BY <1>1 DEF ConfigureBird, WriteFails
<1>3. Made(v, c, TRUE) \in Resource /\ Made(v, c, TRUE).whole
  BY MadeType DEF Made
<1>4. ProvTypeOK
  BY DEF Runs, Backing, Shape, TypeOK
<1>5. conf' \in [Files -> Resource \cup {None}]
  BY <1>2, <1>3, <1>4 DEF ProvTypeOK
<1>6. \A f \in Files : conf'[f] # None => conf'[f].whole
  BY <1>2, <1>3, <1>4 DEF ProvTypeOK, Runs, Current
<1> QED
  BY <1>2, <1>5, <1>6, ReloadIsCurrent DEF Runs

LEMMA DeletesCurrent ==
  ASSUME Runs, NEW c \in Cfgs, DeleteBird(c)
  PROVE  Current'
<1>1. ~ Fault("conf")
  BY DEF Runs, Fault
<1>2. ProvTypeOK
  BY DEF Runs, Backing, Shape, TypeOK
<1>3. CASE UNCHANGED <<conf, loaded>>
  BY <1>3 DEF Runs, Current
<1>4. CASE conf' = [conf EXCEPT ![File(c)] = None] /\ BirdConfigure(conf')
  <2>1. conf' \in [Files -> Resource \cup {None}]
    BY <1>2, <1>4 DEF ProvTypeOK
  <2>2. \A f \in Files : conf'[f] # None => conf'[f].whole
    BY <1>2, <1>4 DEF ProvTypeOK, Runs, Current
  <2> QED
    BY <1>4, <2>1, <2>2, ReloadIsCurrent DEF Runs
<1> QED
  BY <1>1, <1>3, <1>4 DEF DeleteBird

LEMMA RunsStep ==
  ASSUME Runs, [SyncNext]_vars
  PROVE  Runs'
<1>1. Backing({"file"})'
  BY BackingStep DEF Runs
<1>2. UNCHANGED <<conf, loaded>> => Current'
  BY DEF Runs, Current
<1>3. ASSUME NEW p \in Procs, SetUpBird(p) PROVE Current'
  <2>1. pc[p] \in Working
    BY <1>3 DEF SetUpBird, Working
  <2>2. cur[p].sess \in Sessions /\ cur[p].rec.cfg \in Cfgs
    BY <2>1, HandFacts DEF Runs
  <2> QED
    BY <1>3, <2>2, WritesCurrent DEF SetUpBird
<1>4. ASSUME NEW p \in Procs, TearDownBird(p) PROVE Current'
  <2>1. pc[p] \in Tearing
    BY <1>4 DEF TearDownBird, Tearing
  <2>2. cur[p].old.cfg \in Cfgs
    BY <2>1, HandFacts DEF Runs
  <2> QED
    BY <1>4, <2>2, DeletesCurrent DEF TearDownBird
<1>5. ASSUME NEW p \in Procs, Step(p) PROVE Current'
  BY <1>2, <1>3, <1>4, <1>5
  DEF Step, FetchFails, Fetch, KeepSession, TakeSession, RemoveSession, RejectSession,
      SetUpInterface, ReportStatus, AcknowledgeDelete, TearDownInterface, StartRemoval,
      Install, Report, ConfigureInterface, DeleteInterface, provVars
<1>6. ASSUME Environment PROVE Current'
  BY <1>2, <1>6 DEF Environment, OperatorEdit, Restart, provVars
<1>7. ASSUME NEW p \in Procs, StartSync(p) PROVE Current'
  BY <1>2, <1>7 DEF StartSync, provVars
<1>8. ASSUME UNCHANGED vars PROVE Current'
  BY <1>2, <1>8 DEF vars, provVars
<1>9. Current'
  BY <1>5, <1>6, <1>7, <1>8 DEF SyncNext
<1> QED
  BY <1>1, <1>9 DEF Runs

(* When no file fails to be written or removed and BIRD can be reached, a  *)
(* run ends with BIRD running, for every session of the new table in       *)
(* ENABLED, the file of the very configuration in its entry, whatever      *)
(* happens to the interfaces, the reports, the center or the process       *)
(* (configureBird, session.go).                                            *)
THEOREM InstallRuns ==
  /\ UniqueNames
  /\ FaultKinds \cap {"conf", "bird"} = {}
  => (Spec => InstalledIsRunning)
<1> DEFINE Given == /\ UniqueNames
                    /\ FaultKinds \cap {"conf", "bird"} = {}
           Installs == \E p \in Procs : Install(p)
<1>1. Given /\ Init => Runs
  <2> SUFFICES ASSUME Given, Init PROVE Runs
    OBVIOUS
  <2>1. Current
    BY DEF Init, ProvInit, Current
  <2> QED
    BY <2>1, InitBacking DEF Runs
<1>2. Runs /\ [SyncNext]_vars => Runs'
  BY RunsStep
<1>3. Runs /\ [SyncNext]_vars => [Installs => EnabledRuns']_vars
  <2> SUFFICES ASSUME Runs, NEW p \in Procs, Install(p)
               PROVE  EnabledRuns'
    OBVIOUS
  <2>1. local' = next[p] /\ loaded' = conf
    BY DEF Install, provVars, Runs, Current
  <2>2. \A u \in Sessions : Held({"file"}, u, next[p][u])
    BY DEF Runs, Backing, Claims
  <2> QED
    BY <2>1, <2>2 DEF EnabledRuns, Held, File
<1> HIDE DEF Given
<1>4. Given => (Spec => InstalledIsRunning)
  BY <1>1, <1>2, <1>3, PTL DEF Spec, InstalledIsRunning
<1> QED
  BY <1>4 DEF Given

-----------------------------------------------------------------------------
(* The updater and the GeoIP check beside the synchronisation.  A step of  *)
(* these two touches files, what BIRD runs of them and the center only, so *)
(* the invariants hold with them, less the claims on the files.            *)

Tasks ==
  /\ updating \in BOOLEAN
  /\ batch \in Table
  /\ checking \subseteq Sessions

AgentShape == Shape /\ Tasks

AgentBacking == Backing({}) /\ Tasks

(* What the two tasks never touch.                                         *)
TasksApart == UNCHANGED <<link, routes, local, runVars, restarts>>

-----------------------------------------------------------------------------
LEMMA ApartShape ==
  ASSUME Shape, TasksApart, ProvTypeOK', center' \in Table, edits' = edits
  PROVE  Shape'
<1>1. /\ UNCHANGED <<local, running, pc, remote, todo, cur, next, restarts>>
      /\ TypeOK /\ SingleSync
  BY DEF TasksApart, runVars, Shape
<1>2. TypeOK'
  BY <1>1 DEF TypeOK
<1>3. SingleSync'
  BY <1>1 DEF SingleSync
<1>4. \A p \in Procs : HandOK(p)' /\ TodoOK(p)' /\ FreshOK(p)'
  BY <1>1 DEF Shape, HandOK, TodoOK, FreshOK, InRemoval, Present
<1> QED
  BY <1>2, <1>3, <1>4 DEF Shape

LEMMA ApartBacking ==
  ASSUME Backing({}), TasksApart, Shape',
         \A u \in Sessions : Named(u, center'[u])
  PROVE  Backing({})'
<1>1. UNCHANGED <<link, local, running, pc, remote, todo, cur, next>>
  BY DEF TasksApart, runVars
<1>2. Order' /\ \A p \in Procs : Raised(p)'
  BY <1>1 DEF Backing, Order, Names, HandNamed, Apart, Raised
<1>3. \A p \in Procs, u \in Sessions : Untouched(p, u)' <=> Untouched(p, u)
  BY <1>1 DEF Untouched, InRemoval
<1>4. Claims({})'
  BY <1>1, <1>3 DEF Backing, Claims, Held
<1> QED
  BY <1>2, <1>4 DEF Backing, UniqueNames, File

-----------------------------------------------------------------------------
LEMMA ActiveFacts == ActiveSessions \subseteq Sessions
  BY DEF ActiveSessions

LEMMA StartUpdateApart ==
  ASSUME Shape, Tasks, StartUpdate
  PROVE  Tasks' /\ TasksApart /\ ProvTypeOK' /\ center' = center /\ edits' = edits
<1>1. UNCHANGED vars /\ ProvTypeOK /\ local \in Table
  BY DEF StartUpdate, Shape, TypeOK
<1>2. UNCHANGED <<link, routes, conf, loaded, faults, center, edits, local, runVars, restarts>>
  BY <1>1 DEF vars, provVars, syncVars, tableVars
<1>3. batch' \in Table
  BY <1>1 DEF StartUpdate, Table
<1>4. Tasks'
  BY <1>3 DEF StartUpdate, Tasks
<1> QED
  BY <1>1, <1>2, <1>4 DEF TasksApart, ProvTypeOK

LEMMA UpdateFileApart ==
  ASSUME Shape, Tasks, NEW u \in Sessions, UpdateFile(u)
  PROVE  Tasks' /\ TasksApart /\ ProvTypeOK' /\ center' = center /\ edits' = edits
<1>1. UNCHANGED <<link, routes, center, edits, local, runVars, restarts, updating, checking>>
  BY DEF UpdateFile, syncVars, tableVars
<1>2. ProvTypeOK /\ batch \in Table
  BY DEF Shape, TypeOK, Tasks
<1>3. batch[u] \in BgpSession
  BY <1>2 DEF UpdateFile, Table
<1> DEFINE c == batch[u].cfg
<1>4. c \in Cfgs
  BY <1>3 DEF BgpSession
<1> HIDE DEF c
<1>5. Made(u, c, TRUE) \in Resource /\ File(c) \in Files
  BY <1>4, MadeType
<1>6. \/ /\ conf' = [conf EXCEPT ![File(c)] = Made(u, c, TRUE)]
         /\ UNCHANGED <<loaded, faults>>
      \/ WriteFails(u, c)
  BY DEF UpdateFile, c
<1>7. /\ conf' \in [Files -> Resource \cup {None}]
      /\ loaded' = loaded
      /\ faults' \in 0 .. MaxFaults
  BY <1>2, <1>4, <1>5, <1>6, WriteFailsType DEF ProvTypeOK
<1>8. ProvTypeOK'
  BY <1>1, <1>2, <1>7 DEF ProvTypeOK
<1>9. batch' \in Table
  BY <1>2 DEF UpdateFile, Table
<1> QED
  BY <1>1, <1>8, <1>9 DEF Tasks, TasksApart

LEMMA FinishUpdateApart ==
  ASSUME Shape, Tasks, FinishUpdate
  PROVE  Tasks' /\ TasksApart /\ ProvTypeOK' /\ center' = center /\ edits' = edits
<1>1. UNCHANGED <<link, routes, conf, center, edits, local, runVars, restarts, batch, checking>>
  BY DEF FinishUpdate, syncVars, tableVars
<1>2. ProvTypeOK /\ BirdConfigure(conf)
  BY DEF FinishUpdate, Shape, TypeOK
<1>3. loaded' \in [Files -> Resource \cup {None}] /\ faults' \in 0 .. MaxFaults
  BY <1>2, ReloadType DEF ProvTypeOK
<1> QED
  BY <1>1, <1>2, <1>3 DEF FinishUpdate, Tasks, TasksApart, ProvTypeOK

LEMMA StartCheckApart ==
  ASSUME Shape, Tasks, StartCheck
  PROVE  Tasks' /\ TasksApart /\ ProvTypeOK' /\ center' = center /\ edits' = edits
<1>1. UNCHANGED vars /\ ProvTypeOK
  BY DEF StartCheck, Shape, TypeOK
<1>2. UNCHANGED <<link, routes, conf, loaded, faults, center, edits, local, runVars, restarts>>
  BY <1>1 DEF vars, provVars, syncVars, tableVars
<1>3. Tasks'
  BY ActiveFacts DEF StartCheck, Tasks
<1> QED
  BY <1>1, <1>2, <1>3 DEF TasksApart, ProvTypeOK

LEMMA PassSessionApart ==
  ASSUME Shape, Tasks, NEW u \in Sessions, PassSession(u)
  PROVE  Tasks' /\ TasksApart /\ ProvTypeOK' /\ center' = center /\ edits' = edits
<1>1. UNCHANGED <<link, routes, conf, loaded, center, edits, local, runVars, restarts, updating, batch>>
  BY DEF PassSession, syncVars, tableVars
<1>2. ProvTypeOK
  BY DEF Shape, TypeOK
<1>3. faults' \in 0 .. MaxFaults
  BY <1>2, FaultType DEF PassSession, ProvTypeOK
<1>4. checking' \subseteq Sessions
  BY DEF PassSession, Tasks
<1> QED
  BY <1>1, <1>2, <1>3, <1>4 DEF Tasks, TasksApart, ProvTypeOK

LEMMA OrderTeardownApart ==
  ASSUME Shape, Tasks, NEW u \in Sessions, OrderTeardown(u)
  PROVE  /\ Tasks' /\ TasksApart /\ ProvTypeOK' /\ center' \in Table /\ edits' = edits
         /\ Names => \A v \in Sessions : Named(v, center'[v])
<1>1. UNCHANGED <<local, runVars, restarts, updating, batch>>
  BY DEF OrderTeardown
<1>2. PICK ok \in BOOLEAN : Report(u, "TEARDOWN", ok)
  BY DEF OrderTeardown
<1>3. ProvTypeOK /\ center \in Table /\ edits \in 0 .. MaxEdits /\ "TEARDOWN" \in Status
  BY DEF Shape, TypeOK, Status
<1>4. ProvTypeOK' /\ center' \in Table
  BY <1>2, <1>3, ReportType
<1>5. UNCHANGED <<link, routes, edits>>
  BY <1>2 DEF Report
<1>6. checking' \subseteq Sessions
  BY DEF OrderTeardown, Tasks
<1>7. Names => \A v \in Sessions : Named(v, center'[v])
  BY <1>2, <1>3, ReportNames
<1> QED
  BY <1>1, <1>4, <1>5, <1>6, <1>7 DEF Tasks, TasksApart

-----------------------------------------------------------------------------
(* A step of the two tasks, and one of the synchronisation.                *)
LEMMA TaskStep ==
  ASSUME Shape, Tasks, Updater \/ Checker
  PROVE  /\ Tasks' /\ TasksApart /\ Shape'
         /\ Names => \A v \in Sessions : Named(v, center'[v])
<1>1. center \in Table
  BY DEF Shape, TypeOK
<1>2. ASSUME Tasks', TasksApart, ProvTypeOK', center' = center, edits' = edits
      PROVE  /\ Tasks' /\ TasksApart /\ Shape'
             /\ Names => \A v \in Sessions : Named(v, center'[v])
  BY <1>1, <1>2, ApartShape DEF Names
<1>3. CASE StartUpdate
  BY <1>2, <1>3, StartUpdateApart
<1>4. ASSUME NEW u \in Sessions, UpdateFile(u)
      PROVE  /\ Tasks' /\ TasksApart /\ Shape'
             /\ Names => \A v \in Sessions : Named(v, center'[v])
  BY <1>2, <1>4, UpdateFileApart
<1>5. CASE FinishUpdate
  BY <1>2, <1>5, FinishUpdateApart
<1>6. CASE StartCheck
  BY <1>2, <1>6, StartCheckApart
<1>7. ASSUME NEW u \in Sessions, PassSession(u)
      PROVE  /\ Tasks' /\ TasksApart /\ Shape'
             /\ Names => \A v \in Sessions : Named(v, center'[v])
  BY <1>2, <1>7, PassSessionApart
<1>8. ASSUME NEW u \in Sessions, OrderTeardown(u)
      PROVE  /\ Tasks' /\ TasksApart /\ Shape'
             /\ Names => \A v \in Sessions : Named(v, center'[v])
  BY <1>8, OrderTeardownApart, ApartShape
<1> QED
  BY <1>3, <1>4, <1>5, <1>6, <1>7, <1>8 DEF Updater, Checker

LEMMA SyncStep ==
  ASSUME Tasks, AgentNext, ~ (Updater \/ Checker)
  PROVE  SyncNext /\ Tasks'
<1>1. CASE ((\E p \in Procs : StartSync(p) \/ Step(p)) \/ Edit) /\ UNCHANGED taskVars
  BY <1>1 DEF SyncNext, Environment, Edit, Tasks, taskVars
<1>2. CASE RestartAgent
  BY <1>2, EmptyIsTable DEF RestartAgent, SyncNext, Environment, Tasks
<1> QED
  BY <1>1, <1>2 DEF AgentNext

LEMMA StutterApart ==
  ASSUME Tasks, UNCHANGED agentVars
  PROVE  Tasks' /\ UNCHANGED vars
  BY DEF agentVars, taskVars, Tasks

LEMMA AgentShapeStep ==
  ASSUME AgentShape, [AgentNext]_agentVars
  PROVE  AgentShape'
<1>1. CASE Updater \/ Checker
  BY <1>1, TaskStep DEF AgentShape
<1>2. CASE AgentNext /\ ~ (Updater \/ Checker)
  BY <1>2, SyncStep, ShapeStep DEF AgentShape
<1>3. CASE UNCHANGED agentVars
  BY <1>3, StutterApart, ShapeStep DEF AgentShape
<1> QED
  BY <1>1, <1>2, <1>3

LEMMA AgentBackingStep ==
  ASSUME AgentBacking, [AgentNext]_agentVars
  PROVE  AgentBacking'
<1>1. CASE Updater \/ Checker
  <2>1. /\ Tasks' /\ TasksApart /\ Shape'
        /\ \A v \in Sessions : Named(v, center'[v])
    BY <1>1, TaskStep DEF AgentBacking, Backing, Order
  <2> QED
    BY <2>1, ApartBacking DEF AgentBacking
<1>2. CASE AgentNext /\ ~ (Updater \/ Checker)
  BY <1>2, SyncStep, BackingStep DEF AgentBacking
<1>3. CASE UNCHANGED agentVars
  BY <1>3, StutterApart, BackingStep DEF AgentBacking
<1> QED
  BY <1>1, <1>2, <1>3

LEMMA AgentInitTasks == AgentInit => Init /\ Tasks
  BY EmptyIsTable DEF AgentInit, Tasks

-----------------------------------------------------------------------------
(* Every variable of the synchronisation and of the two tasks beside it    *)
(* keeps its type, through every interleaving, failure and restart.        *)
THEOREM AgentTypes == AgentSpec => []AgentTypeOK
<1>1. AgentInit => AgentShape
  BY AgentInitTasks, InitShape DEF AgentShape
<1>2. AgentShape /\ [AgentNext]_agentVars => AgentShape'
  BY AgentShapeStep
<1>3. AgentShape => AgentTypeOK
  BY DEF AgentShape, Shape, Tasks, AgentTypeOK
<1> QED
  BY <1>1, <1>2, <1>3, PTL DEF AgentSpec

(* When no two sessions can name one interface, every session held, listed *)
(* next or about to be reported ENABLED has its interface up with that     *)
(* configuration, whatever the updater writes from its copy, the GeoIP     *)
(* check orders, fails, is edited or restarts                              *)
(* (task_filter_params_updater.go:124-335, task_geoip.go:240-274).         *)
THEOREM EnabledKeepsLink == UniqueNames => (AgentSpec => []EnabledHasLink)
<1>1. UniqueNames /\ AgentInit => AgentBacking
  BY AgentInitTasks, InitBacking DEF AgentBacking
<1>2. AgentBacking /\ [AgentNext]_agentVars => AgentBacking'
  BY AgentBackingStep
<1>3. AgentBacking => EnabledHasLink
  BY DEF AgentBacking, Backing, Claims, Held, EnabledHasLink, HasLink
<1> QED
  BY <1>1, <1>2, <1>3, PTL DEF AgentSpec
=============================================================================
