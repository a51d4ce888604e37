SPECIFICATION Spec
CONSTANTS
  Int32Max = 4
  MinRefresh = 2
  MaxStreamId = 4
  DefaultWindow = 3
  DefaultFrame = 2
  MaxFrame = 3
  ConfigWindow = 3
  ConfigStreams = 2
  ConfigHeaderList = 2
  Requests <- AllMethods
  PeerIds = {1, 3}
  Lens = {}
  Fragments = {0, 1}
  Blocks <- AllBlocks
  Increments = {}
  PeerSettings <- ListLimits
  MaxBlock = 2
  MaxResponse = 0
  MaxPings = 1
INVARIANTS
  HeaderBlockKept
  HpackInSync
