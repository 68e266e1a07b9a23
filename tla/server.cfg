\* One process that serves a CAN bus and a serial line over one socket.
SPECIFICATION FairSpec
CONSTANTS
    Servers = {"can", "uart"}
    Apps <- BusApps
    Requests <- BusRequests
    MaxRequests = 3
INVARIANTS TypeOK AnswersLagByTimeouts ForwardsTheTime ResponsesGoBack
PROPERTY AllServed
CHECK_DEADLOCK FALSE
