SPECIFICATION ScreenSpec
CONSTANTS
  f1 = f1
  f2 = f2
  f3 = f3
  i1 = i1
  i2 = i2
  Filter = {f1}
  Short = {}
  Item = {i1, i2}
  NoItem = NoItem
  MaxRev = 1
  MaxFlight = 1
CONSTRAINT Bound
INVARIANT EditsItsOwnProfile
CHECK_DEADLOCK FALSE
