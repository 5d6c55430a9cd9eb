SPECIFICATION Spec
CONSTANTS
  Order <- MCOrder
  Planned <- MCPlanned
  Demands <- MCDemands
  MaxCap = 4
INVARIANTS Books PlannerExact WalletAdmitted ShrinkReaches PushSettles RestoreExact
PROPERTY ReadyInConfig
