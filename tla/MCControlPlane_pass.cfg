\* Two names, a rate limit of 2 per second and half-second ticks over one
\* second: a window fills, refuses, and reopens, with POSTs and DELETEs of
\* present and absent profiles, bad bodies and other paths.  Two buckets
\* and a value inside or above them: one observe racing repeated renders.
CONSTANTS
  Names <- MCNames
  Default = "default"
  Limit = 2
  TickMs = 500
  MaxTicks = 4
  MaxRequests = 4
  NoProfile = NoProfile
  Bounds <- MCBounds
  Values = {1, 3}
  MaxObs = 1
SPECIFICATION Spec
INVARIANTS WindowQuota RenderedWithinCount
\* The clock, the requests and the observations are bounded.
CHECK_DEADLOCK FALSE
