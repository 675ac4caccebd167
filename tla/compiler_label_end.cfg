SPECIFICATION Spec
CONSTANTS
  Programs <- BlockLast
  Processors = {"vertex", "fragment"}
  Inputs <- MCInputs
  Outputs <- MCOutputs
  Temps <- MCTemps
  Consts <- MCConsts
  Positions <- MCPositions
  DeclaresUnwritten = FALSE
  NeedZDiv = TRUE
  MaxRegisters = 5
  MaxInstructions = 7
  MaxVsUniforms = 3
  MaxPsUniforms = 3
  MaxVaryings = 2
INVARIANT BranchesInside
CHECK_DEADLOCK FALSE
