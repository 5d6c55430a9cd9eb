SPECIFICATION Spec
CONSTANTS
    arb1 = arb1
    arb2 = arb2
    mom = mom
    p1 = p1
    p2 = p2
    Intents = {arb1, arb2, mom}
    Resources = {p1, p2}
    Sources = {"arb", "momentum"}
    Tier <- MCTier
    SourceOf <- MCSourceOf
    max_preemptions = 2
    window_duration = 2
    protection_duration = 1
    enabled = TRUE
    MaxTime = 4
SYMMETRY Alike
INVARIANTS PreemptionBound BuilderKeepsPool
