SPECIFICATION ScreenSpec
CONSTANTS
  f1 = f1
  f2 = f2
  f3 = f3
  i1 = i1
  i2 = i2
  Filter = {f1, f2, f3}
  Short = {f3}
  Item = {i1, i2}
  NoItem = NoItem
  MaxRev = 2
  MaxFlight = 2
CONSTRAINT Bound
SYMMETRY Symmetry
INVARIANTS ShowsWhatIsAsked OwnChangeShown OwnInput WaitsForAnAnswer
CHECK_DEADLOCK FALSE
