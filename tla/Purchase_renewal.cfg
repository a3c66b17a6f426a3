SPECIFICATION Spec
CONSTANTS
  Plans = {p1, p2}
  Services = {s1}
  Random = {f1}
  Default = d
  Accounts = {s1, f1, d}
  Buyers = {b1}
  Flows = {b1, a1}
  PlanVolume = 2
  PlanDays = 1
  MaxVolume = 3
  MaxDay = 2
  MaxEvents = 2
  None = None
  Nobody = Nobody
PROPERTY RenewalAddsVolume
