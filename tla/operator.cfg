\* Two runs of any verb over two domains, with a fault and failing sinks.
SPECIFICATION Spec
CONSTANTS
  prompts = prompts  scaffolds = scaffolds  good = good  bad = bad  None = None
  Domains = {prompts, scaffolds}
  Commands <- MCCommands
  Values = {good, bad}
  Default <- MCDefault
  Sound = {good}
  Gated = {prompts}
  Drained = {prompts, scaffolds}
  MaxRuns = 2
  MaxEvents = 2
  MaxFaults = 1
INVARIANTS AuditSurvives ExitTellsTruth OnlyGatedLive
PROPERTY RunReturns
CHECK_DEADLOCK FALSE
