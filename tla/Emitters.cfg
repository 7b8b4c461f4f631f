SPECIFICATION EmittersSpec
CONSTANTS
  f1 = f1
  f2 = f2
  l1 = l1
  Declared = {f1, f2}
  LabelNames = {l1}
  MaxFiles = 3
  MaxLines = 2
  MaxPrologue = 1
  Late = FALSE
  MaxContexts = 2
  CodeCap = 5
  LabelCap = 3
  FixupCap = 2
CONSTRAINT SmallProgram
SYMMETRY Symmetry
INVARIANTS
  TypeOK
  BranchesLand
  CallsLand
  EntryIsMain
PROPERTIES
  TextInOnePiece
  CodeInOnePiece
