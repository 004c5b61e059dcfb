SPECIFICATION LogFairSpec
CONSTANTS
  None = None
  MaxEvents = 3
  Limit = 1
  MaxRestarts = 1
INVARIANTS OnlyOvertakenMissed
PROPERTIES SeenUnlessOvertaken
CHECK_DEADLOCK FALSE
