SPECIFICATION PresenceSpec
CONSTANTS
    MaxSlot = 2
    MaxAmount = 1
    SlotKnown = {TRUE, FALSE}
INVARIANTS ClosedStaysClosed
PROPERTIES CleanCloseHolds
