SPECIFICATION Spec
CONSTANTS
  worklet = worklet
  second = second
  mic = mic
  None = None
  Emitters <- MCEmitters
  Medium <- MCMedium
  Capacity <- MCCapacity
  MaxPushes = 3
INVARIANTS PushesAccounted ReadersRight
\* The pushes are bounded: the system stops when all are made and polled.
CHECK_DEADLOCK FALSE
