\* Two ports, tasks that share them, reads that split and join frames.
SPECIFICATION FairSpec
CONSTANTS
    Ports = {1, 2}
    Tasks = {"a", "b"}
    Requests <- LineRequests
    Noise <- LineNoise
    ReadMax = 10
    Faults = {"noise", "cut", "lose", "change"}
    MaxSends = 2
    MaxFaults = 1
INVARIANT LineInv
PROPERTIES HandedWereOffered DeliversFaithfully WholeReadsArrive EverythingMoves
CHECK_DEADLOCK FALSE
