SPECIFICATION Spec
CONSTANTS
  Tasks = {1, 2, 3, 4}
  Day = 24
  Window = 2
  Cooldown = 1
  MinAge = 1
  MinTasksForTrip = 3
  MaxTime = 48
CHECK_DEADLOCK FALSE
PROPERTIES TripsOnRecent
