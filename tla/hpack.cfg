SPECIFICATION Spec
CONSTANTS
  Static <- StaticTable
  Length <- Lengths
  InitMaxTableSize = 104
  Fields <- RequestFields
  PeerFields <- ResponseFields
  Sizes = {0, 40, 200}
  ConfigTables = {70, 200}
  NoMin = 201
  MaxGroups = 3
  Indices = {0, 3, 62, 63}
  MaxFields = 2
  MaxId = 5
CHECK_DEADLOCK FALSE
INVARIANTS
  PeerUnderstands
  DecoderConforms
  LookupsSound
