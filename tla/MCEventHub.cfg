\* One client, two connections, channels of one event, three changes: the third finds a closed channel.
SPECIFICATION FairSpec
CONSTANTS
  None = None
  Client = {c1}
  Conn = {k1, k2}
  Capacity = 1
  MaxStreams = 1
  MaxAttempts = 2
  MaxChanges = 3
INVARIANTS QuietMeansCurrent
PROPERTIES Shows
\* The system may stop: every client has left and no change is left to make.
CHECK_DEADLOCK FALSE
