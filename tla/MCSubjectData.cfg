\* Two concurrent transactions, two rows of each table, retention enabled.
SPECIFICATION Spec
CONSTANTS
  None = None
  Subject = Subject
  Request = {r1, r2}
  Person = {p1, p2}
  Visit = {v1, v2}
  Arco = {a1, a2}
  Retains = TRUE
SYMMETRY Symmetry
INVARIANTS StaysAnonymous
PROPERTIES CancelForgets PurgesOnlyOld
