CONSTANTS
  WORD = 32
  HALF = 8
  INTERVAL = 3
  WAIT = 5
  MaxGap = 7
SPECIFICATION Spec
INVARIANTS TypeOK OnSchedule DeadlineTrue
