SPECIFICATION Spec
CONSTANTS
  Int32Max = 4
  MinRefresh = 2
  MaxStreamId = 2
  DefaultWindow = 2
  DefaultFrame = 2
  MaxFrame = 3
  ConfigWindow = 2
  ConfigStreams = 2
  ConfigHeaderList = 0
  Requests <- BigHeaders
  PeerIds = {1}
  Lens = {}
  Fragments = {1}
  Blocks <- Plain
  Increments = {}
  PeerSettings <- OnlyNothing
  MaxBlock = 0
  MaxResponse = 3
  MaxPings = 0
INVARIANTS
  RequestEnded
