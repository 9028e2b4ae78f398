\* A deterministic tier that refuses without a reason.
SPECIFICATION Spec
CONSTANTS
  Words <- MCWords
  Others <- MCOthers
  Schema <- MCSchema
  Goldens <- MCGoldens
  AllowedExecutables <- MCAllowedExecutables
  AllowedVars <- MCAllowedVars
  FloatingTags = {"@latest"}
  RequirePinned = TRUE
  GoldenCases <- MCGoldenCases
  JudgeCases <- MCJudgeCases
  Key = "k"
  Prompts <- MCPrompts
  Specs <- MCSpecs
  Inputs <- MCInputs
  c1 = c1  c2 = c2
  Callers = {c1, c2}
  Silent = TRUE
  MaxVersion = 2
  MaxCalls = 1
  None = None
SYMMETRY CallersSymmetry
INVARIANTS AllMustPass
CHECK_DEADLOCK FALSE
