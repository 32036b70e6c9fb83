CONSTANTS
  None = None
  Keys = {k1, k2}
  Addresses = {a1, a2}
  Setups <- MCSetups
  FamilyOrder <- MCFamilyOrder
  Modulus = 4
  MaxChanges = 2
  MaxFaults = 1
SPECIFICATION FairUpkeepSpec
INVARIANTS UpkeepTypeOK InstalledHasPeer
PROPERTIES EndpointFollows QuietIsReported FlagsSettle
