\* One time request built by TimeSync::request, over the test channel.
SPECIFICATION Spec
CONSTANTS
    Servers = {"channel"}
    Apps <- ChannelApps
    Requests <- ChannelRequests
    MaxRequests = 1
INVARIANT ForwardsTheTime
CHECK_DEADLOCK FALSE
