\* One command of two slices, cut by generate_request.
SPECIFICATION Spec
CONSTANTS
    BufSize = 150
    NBufs = 4
    SliceMax = 142
    Lengths = {150}
    Transactions = {0}
    Cuts = {"generated"}
    MaxCommands = 1
    MaxFaults = 0
INVARIANT OneMessagePerCommand
CHECK_DEADLOCK FALSE
