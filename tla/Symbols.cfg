SPECIFICATION MCSpec
CHECK_DEADLOCK FALSE
CONSTANTS
  Names = {f, g}
  Signatures <- SomeSignatures
  Arguments <- SomeArguments
  MaxLines = 3
  Beyond = {}
SYMMETRY NameSymmetry
INVARIANTS TypeOK CallsAgree AcceptsLegal EveryFunctionCompiled
