\* Admission, shedding and main's shutdown sequence with accept errors.
\* MAX_SESSIONS 3 with the code's 90% gives a soft limit of 2, so arrivals
\* below, inside and at the hard limit all happen within 5 connections.
CONSTANTS
  MaxSessions = 3
  SoftLimitPercent = 90
  MaxArrivals = 5
  AcceptErrors = TRUE
SPECIFICATION Spec
INVARIANT CountBounded
\* The accept loop ends and main's sequence ends at eventLoop.stop().
CHECK_DEADLOCK FALSE
