CONSTANTS
  None = None
  Callers = {"worker", "viewer"}
  Workers = {"worker"}
  Entries = {"e1", "e2"}
  Protocols = {"half", "none"}
  Families = {"ipv4", "ipv6"}
  Counts <- MCCounts
  Report <- MCReport
SPECIFICATION FairQuerySpec
INVARIANTS QueryTypeOK OwnAnswer AnswersWhole OnlyRestricted CountsAreTrue
PROPERTIES CallsEnd KeepsLease
\* The process may have ended, by the panic of a worker.
CHECK_DEADLOCK FALSE
