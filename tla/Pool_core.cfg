SPECIFICATION FairSpec
CONSTANTS
  Conns = {c1, c2}
  Tasks = {k1, k2, k3}
  Users = {u1, u2}
  Intents = 1
  Job = Job
  None = None
INVARIANTS TypeOK NoConnectionLost StallNeedsNesting
PROPERTIES UpdatesEnd
