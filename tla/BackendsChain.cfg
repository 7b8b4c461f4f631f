SPECIFICATION Spec
CHECK_DEADLOCK FALSE
CONSTANTS
  ByteBits = 2
  Memory = 32
  Samples = {0, 1, 8, 130, 254, 255, 32768, 65535}
  Beyond = {"chain"}
INVARIANT DoesWhatItIsFor
