SPECIFICATION Spec
CONSTANTS
  Octet = 64
  Preface <- TwoOctets
  LocalSettings <- OneSetting
  MaxFrameSize = 10
  ReadSize = 12
  Block <- TwoOctets
  Scripts <- FullPadding
  Takes = {0, 11}
  MaxPings = 1
CHECK_DEADLOCK FALSE
INVARIANTS
  FramesIntact
