\* Two documents, two values of personal data, two overlapping submissions
\* and two lookups, within Bound.
SPECIFICATION Spec
CONSTANTS
  None = None
  Doc = {d1, d2}
  Value = {v1, v2}
  Submission = {s1, s2}
  MaxLookups = 2
CONSTRAINT Bound
SYMMETRY Symmetry
INVARIANTS OwnData ChangesSaved SpinnerHasCause
