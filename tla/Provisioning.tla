---------------------------- MODULE Provisioning ----------------------------
(***************************************************************************)
(* What the agent does to the node for one session: kernel interfaces, the *)
(* peer probe routes through them, the per-peer BIRD files, and the        *)
(* configuration BIRD itself runs (session.go).  The state outlives the    *)
(* agent's process.  Each operator is one call of session.go, with every   *)
(* outcome its error paths allow; a failure of the environment consumes    *)
(* one unit of the fault budget.                                           *)
(***************************************************************************)
EXTENDS Naturals

CONSTANTS
  Sessions,     \* session UUIDs
  Cfgs,         \* configurations: the fields of a BgpSession but its status
  CfgOf,        \* CfgOf[u]: the configurations session u can be given
  Ifaces,       \* interface names
  Files,        \* names of per-peer BIRD files
  IfaceOf,      \* interface a configuration names
  FileOf,       \* BIRD file of an interface ('-' becomes '_', so not injective)
  ProbedCfgs,   \* configurations for which shouldManagePeerProbeRoute holds
  None,         \* absence of an interface, a file, a table entry, a session
  FaultKinds,   \* which calls of the environment may fail
  MaxFaults     \* how many of them fail in one behaviour

ASSUME ConfigAssumption ==
  /\ CfgOf \in [Sessions -> SUBSET Cfgs]
  /\ IfaceOf \in [Cfgs -> Ifaces]
  /\ FileOf \in [Ifaces -> Files]
  /\ ProbedCfgs \subseteq Cfgs
  /\ MaxFaults \in Nat

VARIABLES
  link,     \* kernel interfaces
  routes,   \* interfaces that carry a peer probe route
  conf,     \* files in cfg.Bird.BGPPeerConfDir
  loaded,   \* what BIRD runs of those files
  faults    \* failures so far

provVars == <<link, routes, conf, loaded, faults>>

(* An interface (whole: fully set up and up) or a file (whole: completely  *)
(* written) and the session and configuration it was made for.             *)
Resource == [sess : Sessions, cfg : Cfgs, whole : BOOLEAN]

ASSUME NoneAssumption == None \notin Resource \cup Sessions

Made(u, c, whole) == [sess |-> u, cfg |-> c, whole |-> whole]

ProvTypeOK ==
  /\ link \in [Ifaces -> Resource \cup {None}]
  /\ routes \subseteq Ifaces
  /\ conf \in [Files -> Resource \cup {None}]
  /\ loaded \in [Files -> Resource \cup {None}]
  /\ faults \in 0 .. MaxFaults

ProvInit ==
  /\ link = [i \in Ifaces |-> None]
  /\ routes = {}
  /\ conf = [f \in Files |-> None]
  /\ loaded = conf
  /\ faults = 0

Fault(kind) ==
  /\ kind \in FaultKinds
  /\ faults < MaxFaults
  /\ faults' = faults + 1

File(c) == FileOf[IfaceOf[c]]

-----------------------------------------------------------------------------
(* What a failed deleteInterface leaves: the interface as it was, or set   *)
(* down because "link set down" went through and "link del" did not.       *)
StillThere(i) ==
  IF link[i] = None THEN {None} ELSE {link[i], [link[i] EXCEPT !.whole = FALSE]}

(* Routes through an interface go with it, and when it is set down.        *)
RoutesAfter(i, l) == IF l = link[i] THEN routes ELSE routes \ {i}

(* What a setup that stopped half-way leaves: the old interface when its   *)
(* deletion failed, none when it could not be created, or one that lacks   *)
(* its peer, an address, its MTU, or is not up.                            *)
HalfMade(u, c) == StillThere(IfaceOf[c]) \cup {None, Made(u, c, FALSE)}

(* ensurePeerProbeIPv6Route through an interface just made: a route that   *)
(* cannot be installed is only a warning to the caller.                    *)
EnsureProbeRoute(c) ==
  LET i == IfaceOf[c] IN
  \/ /\ routes' = IF c \in ProbedCfgs THEN routes \cup {i} ELSE routes \ {i}
     /\ UNCHANGED faults
  \/ /\ c \in ProbedCfgs
     /\ Fault("route")
     /\ routes' = routes \ {i}

(* configureInterface, and the probe route when it succeeded: the old      *)
(* interface is deleted, which may fail with a log line only, and a new    *)
(* one made.                                                               *)
ConfigureInterface(u, c, ok) ==
  LET i == IfaceOf[c] IN
  /\ UNCHANGED <<conf, loaded>>
  /\ \/ /\ ok
        /\ link' = [link EXCEPT ![i] = Made(u, c, TRUE)]
        /\ EnsureProbeRoute(c)
     \/ /\ ~ok
        /\ Fault("iface")
        /\ \E l \in HalfMade(u, c) :
             /\ link' = [link EXCEPT ![i] = l]
             /\ routes' = RoutesAfter(i, l)

(* removePeerProbeIPv6Route before the interface goes, or is left as l;    *)
(* its failure is only a warning, and the route goes with the interface.   *)
RemoveProbeRoute(i, l) == routes' \in {RoutesAfter(i, l), routes \ {i}}

(* The part of deleteSession before deleteBird: the probe route and the    *)
(* interface; an interface that does not exist is a success.               *)
DeleteInterface(c) ==
  LET i == IfaceOf[c] IN
  /\ UNCHANGED <<conf, loaded>>
  /\ \/ /\ link' = [link EXCEPT ![i] = None]
        /\ routes' = routes \ {i}
        /\ UNCHANGED faults
     \/ /\ link[i] # None
        /\ Fault("iface")
        /\ \E l \in StillThere(i) :
             /\ link' = [link EXCEPT ![i] = l]
             /\ RemoveProbeRoute(i, l)

-----------------------------------------------------------------------------
(* birdPool.Configure, BIRD being external: it loads the files, refuses the *)
(* whole set when one of them is cut short (or reads nothing from it), and *)
(* a failure to reach it is only logged by every caller.                   *)
Parsed(files) ==
  [f \in Files |-> IF files[f] # None /\ files[f].whole THEN files[f] ELSE None]

BirdConfigure(files) ==
  \/ loaded' = Parsed(files) /\ UNCHANGED faults
  \/ /\ Parsed(files) # files
     /\ UNCHANGED <<loaded, faults>>
  \/ Fault("bird") /\ UNCHANGED loaded

(* A file that could not be rewritten: still there, removed and not        *)
(* recreated, or cut short where the template stopped.                     *)
WriteFails(u, c) ==
  /\ Fault("conf")
  /\ \E r \in {conf[File(c)], None, Made(u, c, FALSE)} :
       conf' = [conf EXCEPT ![File(c)] = r]
  /\ UNCHANGED loaded

(* Seeded fault: the file is written and BIRD not told.                    *)
ConfigureBirdSilently(u, c, ok) ==
  /\ UNCHANGED <<link, routes>>
  /\ \/ /\ ok
        /\ conf' = [conf EXCEPT ![File(c)] = Made(u, c, TRUE)]
        /\ UNCHANGED <<loaded, faults>>
     \/ ~ok /\ WriteFails(u, c)

(* configureBird; only a complete file is followed by a reload.            *)
ConfigureBird(u, c, ok) ==
  /\ UNCHANGED <<link, routes>>
  /\ \/ /\ ok
        /\ conf' = [conf EXCEPT ![File(c)] = Made(u, c, TRUE)]
        /\ BirdConfigure(conf')
     \/ ~ok /\ WriteFails(u, c)

(* A file that does not exist is a success that does not reload BIRD.      *)
DeleteBird(c) ==
  /\ UNCHANGED <<link, routes>>
  /\ \/ /\ conf[File(c)] = None
        /\ UNCHANGED <<conf, loaded, faults>>
     \/ /\ conf[File(c)] # None
        /\ conf' = [conf EXCEPT ![File(c)] = None]
        /\ BirdConfigure(conf')
     \/ /\ conf[File(c)] # None
        /\ Fault("conf")
        /\ UNCHANGED <<conf, loaded>>
=============================================================================
