SPECIFICATION Spec
CONSTANTS
    buy = buy
    sell = sell
    mint = mint
    Intents = {buy, sell}
    Mints = {mint}
    Sol <- MCSol
    Tokens <- MCTokens
    InitialSol = 1
    MaxLamports = 2
    MaxUnits = 1
    MaxFill = 1
INVARIANTS TypeOK NativeBooks WsolBooks
PROPERTIES InFlightImmune TokensLeaveOnlyWhenSold
