SPECIFICATION FairSpec
CONSTANTS
  Mints = {m1}
  Pools = {p1}
  None = None
  QueueCap = 1
  PendingCap = 6
  Budgets <- MCBudgets
CHECK_DEADLOCK FALSE
INVARIANT TypeOK
PROPERTIES StartupSettles WalletConverges Published ActiveRecovers
