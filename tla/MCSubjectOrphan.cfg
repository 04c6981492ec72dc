\* A deletion by the retention that overtakes a check-in.
SPECIFICATION Spec
CONSTANTS
  None = None
  Subject = Subject
  Request = {r1, r2}
  Person = {p1, p2}
  Visit = {v1, v2}
  Arco = {a1, a2}
  Retains = TRUE
SYMMETRY Symmetry
PROPERTIES PurgesOnlyUnreferenced
