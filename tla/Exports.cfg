\* Two schedules with two slots a minute apart, one client, two two-minute days in half minutes.
SPECIFICATION Spec
CONSTANTS
  Ids = {"i1", "i2"}
  Clients = {c1}
  Torn = Torn
  Plans = {{2, 4}}
  Minute = 2
  DayLength = 4
  WeekDays = 2
  MaxTime = 5
  MaxEdits = 1
  MaxFaults = 1
INVARIANTS
  OncePerSlot
PROPERTIES
  DeletedStaysDeleted
  UnreadableFileIsKept
CHECK_DEADLOCK FALSE
