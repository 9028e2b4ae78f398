\* Readers against promoters, with a failing await or a crash: freshness and the cache.
SPECIFICATION HSpec
CONSTANTS
  p1 = p1  p2 = p2  a1 = a1  a2 = a2  b1 = b1
  k1 = k1  k2 = k2  good = good  fine = fine  bad = bad  odd = odd
  active = active  canary = canary  None = None
  Keys = {k1}
  Labels = {active}
  Active = active
  Values = {odd, fine}
  Hashes = {odd, fine}
  Clients = {a1, a2, b1}
  Procs = {p1, p2}
  ProcOf <- MCProcOf
  Default <- MCOddDefault
  Hash <- MCHash
  Accepts <- MCAccepts
  Readable <- MCReadable
  Sound <- MCSound
  GateChoices = {FALSE}
  Offered = {"resolve", "revert", "promote"}
  MaxCasAttempts = 2
  MaxCalls = 4
  MaxFaults = 1
SYMMETRY ClientSymmetry
INVARIANTS CacheCoherent ResolveIsFresh
