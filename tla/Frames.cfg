SPECIFICATION Spec
CONSTANTS
  Targets = {"linux", "windows", "aarch64"}
  MaxRegs = 8
  LocalSizes = {0, 4, 8, 12, 16, 24, 40}
  Deepest = 680
  Beyond = {}
INVARIANTS TypeOK FrameRestored CallsAligned LocalsKept
