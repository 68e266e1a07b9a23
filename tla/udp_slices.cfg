\* Commands of one and two slices, cut in either way, on three transactions,
\* two of which share a buffer;
\* sizes in the proportion of 150 to 123 bytes.
SPECIFICATION FairSpec
CONSTANTS
    BufSize = 6
    NBufs = 2
    SliceMax = 4
    Lengths = {1, 5}
    Transactions = {0, 1, 2}
    Cuts = {"generated", "protocol"}
    MaxCommands = 3
    MaxFaults = 1
INVARIANTS TypeOK ForwardedWhole
PROPERTIES AllForwarded PanicsExplained
CHECK_DEADLOCK FALSE
