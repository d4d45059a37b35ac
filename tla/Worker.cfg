SPECIFICATION FairSpec
CONSTANTS
  Clients = {c1, c2}
  InitialState = "RUNNING"
INVARIANTS ProcessOnlyStarted AtMostOneIterationAfterStop
PROPERTIES ReloadIsServed StopIsServed
CHECK_DEADLOCK FALSE
