CONSTANTS
  v6 = v6  v4 = v4
  None = None
  Sessions = {u1}
  Protos <- MCProtos
  AddrOf <- MCAddrOf
  Answers <- MCFar
  MaxHistory = 2
  Workers = {w1}
  MaxChanges = 2
SPECIFICATION FairLatencySpec
INVARIANTS LatencyTypeOK CommunityIsWarranted
PROPERTIES CommunitySettles StaleTrackerGoes FailureIsForgotten
