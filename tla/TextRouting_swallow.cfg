SPECIFICATION RoutingSpec
CONSTANTS
  Late = {"name", "coupon", "reason"}
  MaxOpen = 2
  Nothing = Nothing
INVARIANTS AnswerReachesDialog
