------------------------------ MODULE MCServer ------------------------------
(***************************************************************************)
(* Values of the constants of Server for TLC: one process that serves a    *)
(* CAN bus (device 42, OBC 0) and a serial line over one ZeroMQ socket.    *)
(***************************************************************************)
EXTENDS Server, TLC

Ask(src, dest, flag, data, meant) ==
    [frame |-> NewFrame(src, dest, flag, data), meant |-> meant]

OverCan(data) == Ask(0, 42, NoFlag, data, <<>>)
OverUart(data) == Ask(0, 16, NoFlag, data, SubSeq(data, 3, Len(data)))

TheTime == <<102, 118, 252, 164>>

\* The longest message CAN carries, and what is built of it.
LongEcho == [i \in 1..145 |-> IF i = 1 THEN VersionId ELSE IF i = 2 THEN EchoId ELSE i]

BusRequests ==
    ("can" :> {OverCan(<<VersionId, TelemetryId>>),
               Ask(0, 253, CanTimeBroadcast, <<80, 5>> \o TheTime \o <<0, 0>>, TheTime),
               OverCan(LongEcho),
               OverCan(<<VersionId, RebootId>>),
               OverCan(<<VersionId, ResetNetworkId, 1>>),
               OverCan(<<VersionId, ResetNetworkId, 2, 0>>),
               OverCan(<<VersionId, ResetNetworkId, 7>>),
               OverCan(<<33, TelemetryId>>)}) @@
    ("uart" :> {OverUart(<<VersionId, TelemetryId>>),
                OverUart(<<VersionId, TimeSyncId>> \o TheTime),
                OverUart(<<VersionId, TimeSyncId, 1>>),
                OverUart(<<VersionId, ResetNetworkId, 1>>)})

BusApps == ("can" :> {0, 1, 2, 3, 5}) @@ ("uart" :> {0, 1, 2, 3})

\* TimeSync::request: the seconds as an i64, eight bytes, big endian.
TimeRequest(seconds) == <<VersionId, TimeSyncId>> \o <<0, 0, 0, 0>> \o seconds

ChannelRequests == ("channel" :> {Ask(0, 0, NoFlag, TimeRequest(TheTime), TheTime)})
ChannelApps == ("channel" :> {0, 1, 2, 3})
=============================================================================
