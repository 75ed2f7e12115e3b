SPECIFICATION ConnectionSpec
CONSTANTS
  a = a
  rx = rx
  timeout = timeout
  bonded = bonded
  NoError = NoError
  Subscribers <- MCSubscribers
  Kinds <- MCKinds
  Callers <- MCOne
INVARIANTS SeenRight TransportUp
