\* Three timers, each cancelled up to twice.
CONSTANTS
  MaxTimers = 3
  MaxCancels = 2

SPECIFICATION Spec

PROPERTY ImplementsTimerService

CHECK_DEADLOCK FALSE
