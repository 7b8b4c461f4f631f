SPECIFICATION Spec
CHECK_DEADLOCK FALSE
CONSTANTS
  Called = {"puts", "_Exit", "exit", "read"}
  Own = {"puts"}
  Length <- NameLengths
  Hash <- NameHashes
  FixupCap = 4
  ImportCap = 3
  NameCap = 3
  NameMost = 3
  CodeSizes = {0, 4000}
INVARIANTS TypeOK PartsApart ReferencesLand
