SPECIFICATION FairSpec
CONSTANTS
    m1 = m1
    None = None
    Mints = {m1}
    Hosts = {"manager", "engine"}
    MaxBal = 2
    MaxTrades = 2
    MaxStream = 2
    MaxQueue = 1
    MaxFaults = 1
INVARIANTS TypeOK KvFollows
PROPERTIES Converges KvConverges
