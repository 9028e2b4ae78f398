\* Two upserts of one label at once.
SPECIFICATION Spec
CONSTANTS
  p1 = p1  p2 = p2  a1 = a1  a2 = a2  b1 = b1  k1 = k1  k2 = k2
  active = active  d1 = d1  d2 = d2  short = short  long = long
  None = None  Torn = Torn
  Keys = {k1}
  Labels = {active}
  MaxVersion = 1
  Docs = {d1}
  Marks = {short, long}
  Size <- MCSize
  Clients = {a1, b1}
  Procs = {p1, p2}
  ProcOf <- MCProcOf
  MaxCalls = 3
  MaxFaults = 0
INVARIANT LabelsReadable
