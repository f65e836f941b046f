\* LIVE_QUEUE_MAX 3 and BLACK_BOX_SIZE 2 with 6 calls of any level: the
\* queue fills, both pruning passes run, and the ring wraps.
CONSTANTS
  LiveMax = 3
  BlackBoxSize = 2
  MaxLogs = 6
SPECIFICATION Spec
INVARIANT BlackBoxIsLatest
PROPERTY PruneKeepsSevere
\* The calls are bounded.
CHECK_DEADLOCK FALSE
