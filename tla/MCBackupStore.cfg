\* Two processes, three attempts, three copies of which one automated is kept.
SPECIFICATION Spec
CONSTANTS
  None = None
  Stale = Stale
  Process = {p1, p2}
  Keep = 1
  MaxCopies = 3
  MaxRuns = 3
SYMMETRY Symmetry
INVARIANTS TypeOK ListedIsDescribed StatusIsRestorable
PROPERTIES KeepsNewest
\* The system may stop: the attempts of the model are used up.
CHECK_DEADLOCK FALSE
