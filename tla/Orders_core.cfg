SPECIFICATION FairSpec
CONSTANTS
  Orders = {o1, o2}
  Users = {u1}
  Owner <- OneOwner
  Plans = {p1}
  Contents = {c1, c2}
  Tasks = {k1, k2}
  MaxEvents = 4
  None = None
INVARIANTS TypeOK WorkIsExclusive AccountMatchesLast PlansExist
PROPERTIES Lifecycle
