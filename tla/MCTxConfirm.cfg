SPECIFICATION ConfirmSpec
CONSTANTS
    Sigs = {"tx", "bundle"}
    Bundles = {"bundle"}
    MaxDelivery = 2
CHECK_DEADLOCK FALSE
INVARIANTS OutcomeIsTrue NoStaleWaiter
PROPERTIES EveryTxDecided
