\* One tab with two calls, two logins, one fault, two roles.
SPECIFICATION SessionSpec
CONSTANTS
  Absent = Absent
  t1 = t1
  c1 = c1
  c2 = c2
  Tab = {t1}
  Call = {c1, c2}
  TabOf <- MCTabOf
  Role = {"operador", "auditor"}
  Asked = {"audit", "password", "reset"}
  MaxLogins = 2
  MaxFaults = 1
CONSTRAINT Bound

INVARIANTS CarriedOutOnce
PROPERTIES LostForCause CallsSettle NavigationSettles
