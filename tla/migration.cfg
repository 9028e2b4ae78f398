\* Migrate, back up and restore with a fault, while both stores are written.
SPECIFICATION Spec
CONSTANTS
  k1 = k1  k2 = k2  v1 = v1  v2 = v2  active = active  secret = secret  j1 = j1  j2 = j2
  None = None
  Keys = {k1}
  Labels = {active}
  Values = {v1, v2}
  Hash <- MCHash
  Exported = {active}
  Secrets = {secret}
  Jobs = {j1}
  MaxVersion = 2
  MaxWrites = 2
  MaxFaults = 1
INVARIANTS CleanReportIsCopied TargetIsTraceable TargetLabelsResolve
PROPERTIES JobsOnlyAdd RerunCompletes
