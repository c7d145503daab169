SPECIFICATION Spec
CONSTANTS
  Events = {e1, e2}
  Blank = Blank
  Slots = 2
  Laps = 2
  MaxEvents = 5
  MaxInits = 2
  MaxTimeouts = 1
INVARIANTS AllCounted NoStrayWrite
PROPERTY RingsAreQueues
CHECK_DEADLOCK FALSE
