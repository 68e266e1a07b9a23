\* The 300 bytes in three parts of the test, at the sizes of the source.
SPECIFICATION Spec
CONSTANTS
    BufSize = 150
    NBufs = 4
    SliceMax = 123
    Lengths = {300}
    Transactions = {0}
    Cuts = {"protocol"}
    MaxCommands = 1
    MaxFaults = 0
INVARIANT ForwardsPartsOfCommands
CHECK_DEADLOCK FALSE
