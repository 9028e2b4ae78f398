\* Facade-backed descriptors that leave the gate off, as their comment allows.
SPECIFICATION Spec
CONSTANTS
  prompts = prompts  scaffolds = scaffolds  good = good  bad = bad  None = None
  Domains = {prompts, scaffolds}
  Commands <- MCCommands
  Values = {good, bad}
  Default <- MCDefault
  Sound = {good}
  Gated = {}
  Drained = {prompts, scaffolds}
  MaxRuns = 2
  MaxEvents = 2
  MaxFaults = 0
INVARIANT SeedsAreGated
CHECK_DEADLOCK FALSE
