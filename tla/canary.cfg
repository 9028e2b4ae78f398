\* A sweep, another sweep or user, and operators who move all three labels.
SPECIFICATION Spec
CONSTANTS
  k1 = k1  good = good  bad = bad  active = active  canary = canary  shadow = shadow
  sweep1 = sweep1  sweep2 = sweep2  user = user
  Keys = {k1}
  Labels = {active, canary, shadow}
  Values = {good, bad}
  Active = active  CanaryLabel = canary  ShadowLabel = shadow
  Sound = {good}
  Callers = {sweep1, user}
  Controllers = {sweep1, user}
  Readable <- MCReadable
  MaxVersion = 2
  MaxMoves = 1
  MaxFaults = 1
INVARIANTS ServedWasNamed ReportIsTrue
PROPERTIES SweepOnlyDemotes BadCanaryIsDemoted
