SPECIFICATION Spec
CONSTANTS
  Services = {s1, s2}
  Main = s1
  Gates = {g1, g2}
  Admins = {a1, a2}
  MaxEvents = 5
SYMMETRY Symmetry
INVARIANTS TypeOK CacheFollows KeyboardRemoved ServicesFollow
