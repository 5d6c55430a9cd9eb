SPECIFICATION Spec
CONSTANTS
  Dexes = {"pump_amm", "orca", "raydium", "meteora_cpmm"}
  MaxSlot = 2
  Balance <- Swaps
  Touched <- Split
  TxThreads = {"pin_seed"}
  MaxFaults = 1
INVARIANTS TickRepairs
PROPERTIES PairKept SeenKept
CHECK_DEADLOCK FALSE
