CONSTANTS
  Cap = 4
  High = 3
  Low = 1
  ReadSizes = {2}
  MaxReads = 2
  Latency <- MCLatencyS2C
  Jitter <- MCJitterNone
  Rates <- MCRatesNone
  ConnectTimeout = 1
  IdleTimeout = 2
  PeerErrors = FALSE
  MgrRequests = {"shutdown"}
  DqMax = 3

SPECIFICATION FairSpec

INVARIANT DelayQueueAccounting

PROPERTY
  DelayedEventuallyFlushed
CHECK_DEADLOCK FALSE
