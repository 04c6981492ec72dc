\* Two concurrent requests about one identity and two visits.
SPECIFICATION FairSpec
CONSTANTS
  None = None
  Session = {s1, s2}
  Identity = {i1}
  Visit = {v1, v2}
INVARIANTS OneOpenVisit VisitCoherent AuditExplains
PROPERTIES NoEntryWhileBlocked ConflictIsReal Answered ImplementsLifecycle
