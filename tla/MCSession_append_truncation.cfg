CONSTANTS
  Cap = 8
  High = 6
  Low = 2
  ReadSizes = {1, 4}
  MaxReads = 3
  Latency <- MCLatencyNone
  Jitter <- MCJitterNone
  Rates <- MCRatesNone
  ConnectTimeout = 1
  IdleTimeout = 2
  PeerErrors = FALSE
  MgrRequests = {"shutdown", "force"}
  DqMax = 8

SPECIFICATION FairSpec

INVARIANT NoSilentLoss

CHECK_DEADLOCK FALSE
