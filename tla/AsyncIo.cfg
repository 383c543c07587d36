SPECIFICATION Spec
CONSTANTS
  MaxIn <- MCMaxIn
  Room <- MCRoom
  Chunk <- MCChunk
  MaxCalls <- MCMaxCalls
CHECK_DEADLOCK FALSE
INVARIANTS
  NothingLost
  WakesAreHonest
  BuffersOutliveCalls
PROPERTY CallsEnd
