SPECIFICATION Spec
CONSTANTS
  u1 = u1
  u2 = u2
  n1 = n1
  n2 = n2
  Users = {u1, u2}
  Names = {n1, n2, n3}
  Default <- Defaults
  Tasks = {k1, k2}
  MaxEvents = 4
  None = None
SYMMETRY Symmetry
INVARIANTS TypeOK RowHasAccount TrialOnce RenameWeekly
CHECK_DEADLOCK FALSE
