\* Two tasks of the OBC send at once and reuse their pids; writes fail
\* and leave slots half full.
SPECIFICATION FairSpec
CONSTANTS
    Nodes = {0, 1}
    Foreign = {}
    Tasks = {"a", "b"}
    Requests <- SendsRequests
    Noise = {}
    NSlots = 2
    NPids = 2
    SlotSize = 157
    PayloadMax = 145
    MaxSends = 3
    MaxOvertakes = 1
    Faults = {"error"}
    MaxFaults = 1
INVARIANTS TypeOK PidsDistinct
PROPERTY AckedArrives
CHECK_DEADLOCK FALSE
