\* Every operation on one key, one fault, every caller gating, and one build
\* shipping a default its gate refuses: calls return, listings are whole, and
\* nothing unvetted goes live.
SPECIFICATION FairSpec
CONSTANTS
  p1 = p1  p2 = p2  a1 = a1  a2 = a2  b1 = b1
  k1 = k1  k2 = k2  good = good  fine = fine  bad = bad  odd = odd
  active = active  canary = canary  None = None
  Keys = {k1}
  Labels = {active}
  Active = active
  Values = {good, bad}
  Hashes = {good, bad}
  Clients = {a1, b1}
  Procs = {p1, p2}
  ProcOf <- MCProcOf
  Default <- MCBadDefault
  Hash <- MCHash
  Accepts <- MCOldRefusesBad
  Readable <- MCReadable
  Sound <- MCSound
  GateChoices = {TRUE}
  Offered = {"resolve", "getVersion", "getActive", "add", "promote", "revert", "listVersions", "listKeys", "seed", "sync"}
  MaxCasAttempts = 2
  MaxCalls = 3
  MaxFaults = 1
INVARIANTS OnlyVettedLive ListingShowsActive
PROPERTY CallsReturn
