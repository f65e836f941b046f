CONSTANTS
  Cap = 4
  High = 3
  Low = 1
  ReadSizes = {2}
  MaxReads = 2
  Latency <- MCLatency01
  Jitter <- MCJitter10
  Rates <- MCRatesSome
  ConnectTimeout = 1
  IdleTimeout = 2
  PeerErrors = TRUE
  MgrRequests = {"shutdown", "force"}
  DqMax = 8

SPECIFICATION FairSpec

INVARIANT TypeOK
INVARIANT SingleOutstandingIO
INVARIANT NoStrandedBytes
INVARIANT DeregisteredWhenClosed
INVARIANT BackpressureHasWriter
INVARIANT EngineMatchesSpec
INVARIANT LatenessBounded
INVARIANT DelayTimerCoversQueues

CHECK_DEADLOCK FALSE
