\* Concurrent writers under a fault: numbering, ownership, labels, retries, events, refinement.
SPECIFICATION HSpec
CONSTANTS
  p1 = p1  p2 = p2  a1 = a1  a2 = a2  b1 = b1
  k1 = k1  k2 = k2  good = good  fine = fine  bad = bad  odd = odd
  active = active  canary = canary  None = None
  Keys = {k1}
  Labels = {active}
  Active = active
  Values = {good, fine}
  Hashes = {good, fine}
  Clients = {a1, a2, b1}
  Procs = {p1, p2}
  ProcOf <- MCProcOf
  Default <- MCDefault
  Hash <- MCHash
  Accepts <- MCAccepts
  Readable <- MCReadable
  Sound <- MCSound
  GateChoices = {FALSE}
  Offered = {"add", "promote", "revert"}
  MaxCasAttempts = 2
  MaxCalls = 3
  MaxFaults = 1
INVARIANTS TypeOK UniqueVersions DenseVersions NoDanglingLabel ReturnedVersionIsOwn RetriesArePaid AuditCountsMoves
PROPERTIES Immutable ImplementsHistory
