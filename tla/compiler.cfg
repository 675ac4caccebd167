SPECIFICATION Spec
CONSTANTS
  Programs <- MCPrograms
  Processors = {"vertex", "fragment"}
  Inputs <- MCInputs
  Outputs <- MCOutputs
  Temps <- MCTemps
  Consts <- MCConsts
  Positions <- MCPositions
  DeclaresUnwritten = FALSE
  NeedZDiv = TRUE
  MaxRegisters = 5
  MaxInstructions = 6
  MaxVsUniforms = 3
  MaxPsUniforms = 2
  MaxVaryings = 1
INVARIANT TypeOK
INVARIANT ResultsMatch
INVARIANT CodeWellFormed
INVARIANT RegistersPlaced
CHECK_DEADLOCK FALSE
