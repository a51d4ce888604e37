SPECIFICATION Spec
CONSTANTS
  Int32Max = 4
  MinRefresh = 2
  MaxStreamId = 2
  DefaultWindow = 3
  DefaultFrame = 2
  MaxFrame = 3
  ConfigWindow = 2
  ConfigStreams = 2
  ConfigHeaderList = 0
  Requests <- Uploads
  PeerIds = {1}
  Lens = {}
  Fragments = {1}
  Blocks <- Plain
  Increments = {}
  PeerSettings <- WindowChanges
  MaxBlock = 0
  MaxResponse = 3
  MaxPings = 0
INVARIANTS
  FlushDefined
