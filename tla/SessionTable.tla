---------------------------- MODULE SessionTable ----------------------------
(***************************************************************************)
(* What session synchronisation promises to the center and to the agent's  *)
(* other tasks: localSessions changes in one step, to a table that answers *)
(* one snapshot of the center entry by entry, and the center only receives *)
(* answers to a question that snapshot asked.  How a snapshot is worked    *)
(* off, on the node and in several steps, is left out.                     *)
(***************************************************************************)
EXTENDS Naturals

CONSTANTS Sessions, Cfgs, None, NoSnapshot

Statuses == {"DELETED", "DISABLED", "ENABLED", "PENDING_APPROVAL",
             "QUEUED_FOR_SETUP", "QUEUED_FOR_DELETE", "PROBLEM", "TEARDOWN"}

Tables == [Sessions -> [status : Statuses, cfg : Cfgs] \cup {None}]

VARIABLES
  center,   \* the center's table
  local,    \* the agent's table
  snap,     \* the snapshot being answered, or NoSnapshot
  edits     \* changes of the center by its operator

tvars == <<center, local, snap, edits>>

(* The statuses that answer a status, as a report or as the new entry; any *)
(* session may be torn down instead, when its configuration is invalid.    *)
Answers(status) ==
  {answer \in {"TEARDOWN", "ENABLED", "PROBLEM", "DELETED"} :
     /\ answer \in {"ENABLED", "PROBLEM"} =>
          status \in {"QUEUED_FOR_SETUP", "ENABLED", "PROBLEM"}
     /\ answer = "DELETED" => status = "QUEUED_FOR_DELETE"}

(* An entry is an answer to the snapshot's, or that entry itself unless it *)
(* asks for a setup: a setup is always attempted.                          *)
Entry(asked, new) ==
  IF asked = None THEN new = None
  ELSE /\ new # None
       /\ new.cfg = asked.cfg
       /\ \/ new.status \in Answers(asked.status)
          \/ new = asked /\ asked.status # "QUEUED_FOR_SETUP"

TInit ==
  /\ center \in Tables
  /\ local = [u \in Sessions |-> None]
  /\ snap = NoSnapshot
  /\ edits = 0

TEdit ==
  /\ edits' = edits + 1
  /\ center' \in Tables
  /\ UNCHANGED <<local, snap>>

TSnapshot ==
  /\ snap = NoSnapshot
  /\ snap' = center
  /\ UNCHANGED <<center, local, edits>>

TReport(u) ==
  /\ snap # NoSnapshot
  /\ snap[u] # None
  /\ center[u] # None
  /\ \E status \in Answers(snap[u].status) :
       center' = [center EXCEPT ![u].status = status]
  /\ UNCHANGED <<local, snap, edits>>

TInstall ==
  /\ snap # NoSnapshot
  /\ local' \in Tables
  /\ \A u \in Sessions : Entry(snap[u], local'[u])
  /\ snap' = NoSnapshot
  /\ UNCHANGED <<center, edits>>

TForget ==
  /\ local' = [u \in Sessions |-> None]
  /\ snap' = NoSnapshot
  /\ UNCHANGED <<center, edits>>

TNext ==
  \/ TEdit \/ TSnapshot \/ TInstall \/ TForget
  \/ \E u \in Sessions : TReport(u)

TSpec == TInit /\ [][TNext]_tvars
=============================================================================
