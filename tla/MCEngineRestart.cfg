SPECIFICATION Spec
CONSTANTS
    Intents = {"i1", "i2"}
    MaxSends = 2
PROPERTIES KillSwitchHolds SavedNeverResent
