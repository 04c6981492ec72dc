\* Two concurrent requests, two reset links, versions 0 to 2, two wrong
\* passwords lock.
SPECIFICATION Spec
CONSTANTS
  None = None
  Request = {r1, r2}
  Password = {p1, p2}
  Link = {l1, l2}
  MaxAttempts = 2
  MaxVersion = 2
  IsRoot = FALSE
CONSTRAINT Bound
SYMMETRY Symmetry
INVARIANTS SessionsMatchPassword LockoutCounts LinkSingleUse
PROPERTIES EndedSessionChangesNothing NoLostPassword MailedLinkStands ImplementsAccount
\* A deleted account takes no further step.
CHECK_DEADLOCK FALSE
