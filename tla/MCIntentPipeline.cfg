SPECIFICATION Spec
CONSTANTS
    buy = buy
    sell = sell
    mint = mint
    t1 = t1
    t2 = t2
    Tasks = {t1, t2}
    Intents <- BuySell
    Mints = {mint}
    Sol <- BuySellSol
    Tokens <- BuySellTokens
    Fill <- BuySellFill
    Proceeds <- BuySellProceeds
    Bundles = {buy}
    ColdPath = {}
    InitialWsol = 2
    InitialTokens <- Holding
    max_concurrent_intents = 2
    MaxRecoveries = 1
    MaxUnits = 6
    AmbiguousSend = TRUE
    Worlds <- BothWorlds
CHECK_DEADLOCK FALSE
INVARIANTS NoLeakedReservation InFlightReserved SettledBooks
PROPERTIES EveryIntentEnds
