---------------------------- MODULE TrafficRates ----------------------------
(***************************************************************************)
(* monitorTrafficRates (task_monitoring.go) and getTrafficRates            *)
(* (task_metric.go): two readings of the counters a second apart, whose    *)
(* difference is kept for each interface.  Counters start at zero with     *)
(* their interface, and an interface may go or come in between.            *)
(***************************************************************************)
EXTENDS Peering

VARIABLES
  sampling,  \* the first reading has been made
  stats,     \* the counter in it, None when the interface was not there
  rate       \* entry of localTrafficRate, None without one

rateVars == <<sampling, stats, rate>>

Counter == 0 .. Modulus - 1

RatesTypeOK ==
  /\ sampling \in BOOLEAN
  /\ stats \in Counter \cup {None}
  /\ rate \in Counter \cup {None}

RatesInit == sampling = FALSE /\ stats = None /\ rate = None

NetStats == IF link = None THEN None ELSE link.bytes

(* A reading that fails ends the round.                                    *)
ReadFirst ==
  /\ ~ sampling
  /\ \/ sampling' = TRUE /\ stats' = NetStats /\ UNCHANGED faults
     \/ Fault /\ UNCHANGED <<sampling, stats>>
  /\ UNCHANGED <<siteVars, rate>>

(* Seeded fault: the changed copy of an entry is not stored back.          *)
RateOnce ==
  CASE stats # None /\ NetStats # None -> IF rate = None THEN (NetStats - stats) % Modulus ELSE rate
    [] stats = None /\ NetStats # None -> 0
    [] OTHER -> rate

(* Unsigned difference; zero for a new interface; the entry of one that is *)
(* gone stays.                                                             *)
Rate ==
  CASE stats # None /\ NetStats # None -> (NetStats - stats) % Modulus
    [] stats = None /\ NetStats # None -> 0
    [] OTHER -> rate

(* The second reading, and the rate, if it succeeds.                       *)
StoreRate ==
  /\ sampling
  /\ \/ rate' = Rate /\ UNCHANGED faults
     \/ Fault /\ UNCHANGED rate
  /\ sampling' = FALSE
  /\ stats' = None
  /\ UNCHANGED siteVars

Monitor == ReadFirst \/ StoreRate

(* int64(rate), as the metric task reports it.                             *)
ReportedRate ==
  CASE rate = None -> 0
    [] rate # None /\ 2 * rate >= Modulus -> rate - Modulus
    [] OTHER -> rate
=============================================================================
