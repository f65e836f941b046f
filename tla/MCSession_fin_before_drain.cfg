CONSTANTS
  Cap = 4
  High = 3
  Low = 1
  ReadSizes = {1}
  MaxReads = 2
  Latency <- MCLatency01
  Jitter <- MCJitter10
  Rates <- MCRatesNone
  ConnectTimeout = 1
  IdleTimeout = 2
  PeerErrors = FALSE
  MgrRequests = {"shutdown", "force"}
  DqMax = 8

SPECIFICATION FairSpec

INVARIANT FinAfterDrain

CHECK_DEADLOCK FALSE
