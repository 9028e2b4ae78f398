\* Both facades, with sound and unsound defaults: three calls of two callers.
SPECIFICATION Spec
CONSTANTS
  Words <- MCWords
  Others <- MCOthers
  Schema <- MCSchema
  Goldens <- MCGoldens
  AllowedExecutables <- MCAllowedExecutables
  AllowedVars <- MCAllowedVars
  FloatingTags = {"@latest"}
  RequirePinned = TRUE
  GoldenCases <- MCGoldenCases
  JudgeCases <- MCJudgeCases
  Key = "k"
  Prompts <- MCPrompts
  Specs <- MCSpecs
  Inputs <- MCInputs
  c1 = c1  c2 = c2
  Callers = {c1, c2}
  Silent = FALSE
  MaxVersion = 2
  MaxCalls = 3
  None = None
SYMMETRY CallersSymmetry
INVARIANTS GatedPromptRenders GatedCommandRuns RendersAreLiteral VerdictIsWhole
CHECK_DEADLOCK FALSE
