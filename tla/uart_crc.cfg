\* Two frames, the first of which may be written in part.
SPECIFICATION Spec
CONSTANTS
    Ports = {1, 2}
    Tasks = {"a"}
    Requests <- ShortRequests
    Noise <- NoNoise
    ReadMax = 150
    Faults = {"cut"}
    MaxSends = 2
    MaxFaults = 1
PROPERTY ChecksMatch
CHECK_DEADLOCK FALSE
