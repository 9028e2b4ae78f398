\* Two processes, three calls over one database, of each engine.
SPECIFICATION Spec
CONSTANTS
  Engines = {"redis", "postgres", "mongo", "sqlite"}
  Keys <- MCKeys
  Labels <- MCLabels
  MaxVersion = 2
  Requests <- MCRequests
  Clients = {"c1", "c2"}
  Procs = {"p1", "p2"}
  ProcOf <- MCProcOf
  MaxCalls = 3
  MaxFaults = 1
INVARIANTS TypeOK OneWinner ErrorsAreReal 
CHECK_DEADLOCK FALSE
