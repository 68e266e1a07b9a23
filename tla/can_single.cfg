\* One short command.
SPECIFICATION Spec
CONSTANTS
    Nodes = {0, 1}
    Foreign = {}
    Tasks = {"a"}
    Requests <- ShortRequests
    Noise = {}
    NSlots = 128
    NPids = 256
    SlotSize = 157
    PayloadMax = 145
    MaxSends = 1
    MaxOvertakes = 1
    Faults = {}
    MaxFaults = 0
INVARIANT DataNeverResets
CHECK_DEADLOCK FALSE
