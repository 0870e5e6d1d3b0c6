CONSTANTS
  Values = {v1, v2}
  Nothing = nothing
  QUEUE_INIT_SIZE = 2
  MaxSize = 3
SPECIFICATION Spec
INVARIANTS
  RingInBounds
PROPERTY ImplementsQueue
