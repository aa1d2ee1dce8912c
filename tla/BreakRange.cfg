SPECIFICATION Spec
CONSTANTS
  Handlers = {h1}
  Events = {e1, e2}
  NoEvent = noEvent
  MaxTime = 2
  MaxActions = 3
  MaxNotes = 2
  MaxCrashes = 1
SYMMETRY RangeSymmetry
INVARIANTS TypeOK BreakKept EndMatchesStart
