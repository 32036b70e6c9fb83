CONSTANTS
  u1 = u1  u2 = u2
  c1 = c1  c1b = c1b  c1r = c1r  c2 = c2  bad = bad
  e1 = e1  e1r = e1r  e2 = e2  f1 = f1  f1r = f1r  f2 = f2
  ticker = ticker  manual = manual
  None = None
  Sessions = {u1}
  Cfgs = {c1, c1b, bad}
  Ifaces = {e1}
  Files = {f1}
  CfgOf <- MCCfgOf
  IfaceOf <- MCIfaceOf
  FileOf <- MCFileOf
  ProbedCfgs <- MCProbed
  ValidCfgs <- MCValid
  FaultKinds = {"fetch", "report", "iface", "conf", "bird", "route"}
  MaxFaults = 2
  Procs = {ticker, manual}
  Ticker = ticker
  OperatorStatuses = {"QUEUED_FOR_SETUP", "QUEUED_FOR_DELETE", "DISABLED", "PENDING_APPROVAL"}
  MaxEdits = 2
  MaxRestarts = 1
  Abrupt = TRUE
SPECIFICATION FairSpec
PROPERTIES Converges SetupIsAnswered
