\* Buffer scaled to 4 units (one unit = 16 KiB): reads of 16 or 32 KiB.
CONSTANTS
  Cap = 4
  High = 3
  Low = 1
  Chunks = {1, 2}
  MaxAppends = 5

SPECIFICATION Spec

INVARIANT TypeOK
PROPERTY BufferIsFifo

\* The peer stops sending after MaxAppends chunks: the run then stops.
CHECK_DEADLOCK FALSE
