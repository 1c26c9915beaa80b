\* Six bytes through a pipe of three, in chunks of one or two bytes.
SPECIFICATION Spec
CONSTANTS
  Capacity = 3
  MaxChunk = 2
  MaxBytes = 6
INVARIANTS
  Fifo
  NoLostWakeup
PROPERTIES
  Drains
\* Both ends may be gone.
CHECK_DEADLOCK FALSE
