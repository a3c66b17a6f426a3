SPECIFICATION Spec
CONSTANTS
  Users = {u1, u2}
  TopUps = {t1, t2}
  Tasks = {k1, k2, k3}
  Amounts = {2}
  Corrections <- SmallCorrections
  Price = 1
  GBCost = 1
  MaxBalance = 3
  MaxUpdates = 4
  None = None
INVARIANT LedgerAlwaysExact
CHECK_DEADLOCK FALSE
