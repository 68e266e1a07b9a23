\* The source's sizes: one sender, 129 messages, nothing goes wrong.
SPECIFICATION Spec
CONSTANTS
    Nodes = {0, 1}
    Foreign = {}
    Tasks = {"a"}
    Requests <- LongRequests
    Noise = {}
    NSlots = 128
    NPids = 256
    SlotSize = 157
    PayloadMax = 145
    MaxSends = 129
    MaxOvertakes = 129
    Faults = {}
    MaxFaults = 0
INVARIANT NoPanic
CHECK_DEADLOCK FALSE
