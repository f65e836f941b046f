\* Three timers (a connect, an idle and its reset, as Session uses them),
\* each cancelled up to twice (by a handler and by the destructor).
CONSTANTS
  MaxTimers = 3
  MaxCancels = 2

SPECIFICATION FairSpec

INVARIANT CancelTrueAtMostOnce
PROPERTY EveryTimerErased

\* Every timer is scheduled, resolved and its handler run: the run stops.
CHECK_DEADLOCK FALSE
