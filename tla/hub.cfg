SPECIFICATION HubFairSpec
CONSTANTS
  Streams = {s1, s2}
  Broadcasters = {processor, narration}
  BufMax = 2
INVARIANTS
  NeverSendOnClosed
PROPERTIES
  BroadcastReturns
  LeavingCompletes
