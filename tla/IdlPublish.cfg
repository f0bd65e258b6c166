SPECIFICATION PublishSpec
CONSTANTS
  Canonical = Canonical
  Buffers = {B1}
  Keys = {K1, K2}
  Erased = Erased
  HEADER_LEN = 1
  MAX_SPACE_PER_OP = 7
  Bytes = {1, 2, 3, 4, 5}
  Lengths = {0, 3, 8}
  Payloads <- MCPayloads
  Authority = K1
  IDL_WRITE_CHUNK = 2
  MaxRuns = 3
  Document <- MCDocument
INVARIANTS
  PayloadIsWritten
  
  PrefixUnlessLate
PROPERTIES
  RunEnds
CHECK_DEADLOCK FALSE
