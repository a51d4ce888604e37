SPECIFICATION Spec
CONSTANTS
  Int32Max = 4
  MinRefresh = 2
  MaxStreamId = 4
  DefaultWindow = 4
  DefaultFrame = 2
  MaxFrame = 4
  ConfigWindow = 3
  ConfigStreams = 2
  ConfigHeaderList = 0
  Requests <- Downloads
  PeerIds = {1, 3}
  Lens = {1, 3}
  Fragments = {1}
  Blocks <- Plain
  Increments = {}
  PeerSettings <- OnlyNothing
  MaxBlock = 0
  MaxResponse = 3
  MaxPings = 0
INVARIANTS
  ConformingPeerNotBlamed
