\* Reset frames and netlink notifications at once, two interfaces.
SPECIFICATION FairSpec
CONSTANTS
    RxIface = "can0"
    TxIface = "can1"
    Netlink = TRUE
    MaxEvents = 4
    MaxFailures = 2
INVARIANT DownIsPending
PROPERTY BothComeBack
CHECK_DEADLOCK FALSE
