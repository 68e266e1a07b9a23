\* Losses, failed writes, noise and two senders that share a pid.
SPECIFICATION Spec
CONSTANTS
    Nodes = {0, 1, 2}
    Foreign = {0}
    Tasks = {"a", "b"}
    Requests <- LossyRequests
    Noise <- LossyNoise
    NSlots = 1
    NPids = 2
    SlotSize = 157
    PayloadMax = 145
    MaxSends = 2
    MaxOvertakes = 2
    Faults = {"error", "loss", "noise"}
    MaxFaults = 2
INVARIANTS SlotsOpen
PROPERTIES DeliversFaithfully PanicsKnown
CHECK_DEADLOCK FALSE
