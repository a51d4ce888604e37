SPECIFICATION Spec
CONSTANTS
  Int32Max = 8
  MinRefresh = 2
  MaxStreamId = 4
  DefaultWindow = 3
  DefaultFrame = 2
  MaxFrame = 3
  ConfigWindow = 4
  ConfigStreams = 2
  ConfigHeaderList = 0
  Requests <- Downloads
  PeerIds = {1, 2, 3}
  Lens = {0, 1, 3}
  Fragments = {1}
  Blocks <- Answers
  Increments = {}
  PeerSettings <- OddSettings
  MaxBlock = 0
  MaxResponse = 3
  MaxPings = 0
INVARIANTS
  ConformingPeerNotBlamed
