SPECIFICATION FairSpec
CONSTANTS
  Users = {u1}
  Jobs = {"usage", "expiry"}
  Thresholds = 2
  NoticeDays = {0, 1, 2}
  Term = 2
  MaxRenewals = 2
  MaxLosses = 1
INVARIANTS TypeOK OncePerThreshold OncePerDay
PROPERTIES UsageAnnounced
