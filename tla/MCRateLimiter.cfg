\* Two requests at a time, one address, two names, room for three of the four keys.
SPECIFICATION Spec
CONSTANTS
  None = None
  Request = {r1, r2}
  Address = {a1}
  Account = {u1, u2}
  Limit <- SmallMax
  Ttl <- SmallTtl
  MaxKeys = 3
  Lag = 1
  MaxTime = 3
SYMMETRY Symmetry
INVARIANTS AtMostTwice TableBounded
PROPERTIES DenialIsEarned
