CONSTANTS
  Cap = 4
  High = 3
  Low = 1
  ReadSizes = {1}
  MaxReads = 1
  Latency <- MCLatencyNone
  Jitter <- MCJitterNone
  Rates <- MCRatesNone
  ConnectTimeout = 1
  IdleTimeout = 2
  PeerErrors = FALSE
  MgrRequests = {}
  DqMax = 8

SPECIFICATION FairSpec

PROPERTY SessionEventuallyRemoved

CHECK_DEADLOCK FALSE
