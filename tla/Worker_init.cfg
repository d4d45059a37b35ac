SPECIFICATION WorkerSpec
CONSTANTS
  Clients = {c1, c2}
  InitialState = "RUNNING"
PROPERTY CommandDuringInitKept
CHECK_DEADLOCK FALSE
