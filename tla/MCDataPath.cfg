\* Five bytes through pipes of two, or four frames, in both directions
\* together, through queues and channels of one.
SPECIFICATION PathSpec
CONSTANTS
  Capacity = 2
  MaxChunk = 2
  MaxBytes = 5
  QueueFrames = 1
  HopFrames = 1
  MaxFrames = 4
  DropsLimit = 2
INVARIANTS
  PathTypeOK
  PathInOrder
  EverythingAccounted
  OverflowCounted
  PathStaysUp
PROPERTIES
  PathTasksEnd
  BytesImplementLossyFifo
  FramesImplementLossyFifo
\* A closed link stops.
CHECK_DEADLOCK FALSE
