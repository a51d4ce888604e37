SPECIFICATION Spec
CONSTANTS
  Int32Max = 4
  MinRefresh = 2
  MaxStreamId = 4
  DefaultWindow = 2
  DefaultFrame = 2
  MaxFrame = 3
  ConfigWindow = 2
  ConfigStreams = 2
  ConfigHeaderList = 0
  Requests <- Uploads
  PeerIds = {1, 3}
  Lens = {1}
  Fragments = {1}
  Blocks <- Plain
  Increments = {0, 2}
  PeerSettings <- WindowChanges
  MaxBlock = 0
  MaxResponse = 2
  MaxPings = 0
INVARIANTS
  TypeOK
  StreamTableOK
  NothingSendableLeft
  OneVerdict
  WindowsBounded
PROPERTY
  GoneForGood
