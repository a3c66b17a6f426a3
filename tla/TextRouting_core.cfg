SPECIFICATION RoutingSpec
CONSTANTS
  Late = {"name", "coupon", "reason"}
  MaxOpen = 3
  Nothing = Nothing
INVARIANTS RoutingTypeOK TextCountsOnce CreditSurvives
