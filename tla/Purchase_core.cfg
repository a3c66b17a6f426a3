SPECIFICATION Spec
CONSTANTS
  Plans = {p1, p2}
  Services = {}
  Random = {f1}
  Default = d
  Accounts = {f1, d}
  Buyers = {b1, b2}
  Flows = {b1, b2, a1}
  PlanVolume = 2
  PlanDays = 1
  MaxVolume = 3
  MaxDay = 3
  MaxEvents = 2
  None = None
  Nobody = Nobody
SYMMETRY Symmetry
INVARIANTS TypeOK AdditionsKept
PROPERTY ConfirmedIsDelivered
