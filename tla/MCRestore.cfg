\* The maintenance command: two ids, versions 0 to 4, two restores.
SPECIFICATION Spec
CONSTANTS
  None = None
  Online = FALSE
  MaxVersion = 4
  MaxAccounts = 2
  MaxRestores = 2
INVARIANTS TypeOK TargetIsCurrent
PROPERTIES OpenSessionsEnd
