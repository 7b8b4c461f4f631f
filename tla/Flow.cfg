SPECIFICATION FlowSpec
CONSTANTS
  n1 = n1
  n2 = n2
  Names = {n1, n2}
  Widths = {1}
  BlockWidths = {1}
  MaxLevel = 2
  MaxDedent = 1
  MaxDepth = 3
  NregCap = 2
  RetAirity = 1
  SaveMax = TRUE
SYMMETRY Symmetry
INVARIANTS
  FlowTypeOK
  
  TailReturns
