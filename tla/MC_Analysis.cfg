CONSTANTS
  Trainers = {t1, t2}
  Hashes = {h1, h2}
  MaxLines = 3
  Pending = Pending
  Tasks <- MCTasks
SPECIFICATION Spec
INVARIANTS NotesGrounded GoalCleaned ShotsCounted OffsetRecovered GateHolds ConformalCovers CoresetNearBest ProgressInOrder ReportsHonest
PROPERTY ExcludedStaysOut
CHECK_DEADLOCK FALSE
