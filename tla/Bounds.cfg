SPECIFICATION BoundsSpec
CHECK_DEADLOCK FALSE
CONSTANTS
  ByteBits = 2
  Memory = 32
  Samples = {0, 1, 8, 130, 254, 255, 32768, 65535}
  LiteralSamples = {8, 255, 65535}
  IndexValues = {0, 1, 2, 3, 257, 65535}
  EndValues = {0, 2, 65535}
  SliceLengths = {0, 2}
  Beyond = {}
INVARIANTS TypeOK DoesWhatItIsFor VariablesKept SameEffect AllInstructions ChecksDecide ArgumentsKept
