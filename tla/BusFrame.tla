------------------------------ MODULE BusFrame ------------------------------
(***************************************************************************)
(* The frame every layer passes on, src/adaptor/frame.rs, and the header   *)
(* that src/protocol/v1/frame.rs puts into it.                             *)
(*                                                                         *)
(* A frame owns FrameDataLength bytes and shows len of them from off on.   *)
(* The record keeps the bytes from off on that were ever written: those    *)
(* past them are zero.                                                     *)
(***************************************************************************)
EXTENDS Integers, Sequences

FrameMaxLength == 150        \* FRAME_MAX_LENGTH
FrameDataLength == 168       \* FRAME_DATA_LENGTH
StartOffset == 16            \* FRAME_DEFAULT_START_OFFSET

\* FrameFlag
NoFlag == "none"
CanTimeBroadcast == "time"
UartTelemetry == "telemetry"

BusFrame(src, dest, flag, len, bytes) ==
    [src |-> src, dest |-> dest, flag |-> flag,
     off |-> StartOffset, len |-> len, bytes |-> bytes]

Flags == {NoFlag, CanTimeBroadcast, UartTelemetry}

\* Frame::new, for data of at most FrameMaxLength bytes.
NewFrame(src, dest, flag, data) == BusFrame(src, dest, flag, Len(data), data)

\* Such a frame: what an adaptor hands up.
IsNewFrame(f) ==
    /\ f \in [src : 0..255, dest : 0..255, flag : Flags, off : {StartOffset},
              len : 0..FrameMaxLength, bytes : Seq(0..255)]
    /\ f.len = Len(f.bytes)

\* data(): the slice is in bounds, and what it shows.
InBounds(f) == f.off + f.len <= FrameDataLength

Data(f) == [i \in 1..f.len |-> IF i <= Len(f.bytes) THEN f.bytes[i] ELSE 0]

SetLenOk(len) == len <= FrameDataLength
SetLen(f, len) == [f EXCEPT !.len = len]

\* expand_head(), the new bytes written at once.
ExpandHeadOk(f, n) == f.off >= n
ExpandHead(f, head) ==
    [f EXCEPT !.off = @ - Len(head), !.len = @ + Len(head), !.bytes = head \o @]

ShrinkHeadOk(f, n) == f.off + n < FrameDataLength
ShrinkHead(f, n) ==
    [f EXCEPT !.off = @ + n,
              !.len = IF @ < n THEN 0 ELSE @ - n,
              !.bytes = SubSeq(@, n + 1, Len(@))]

ExpandTailOk(f, n) == f.off + f.len + n <= FrameDataLength

---------------------------------------------------------------------------
(* The protocol header. *)

VersionId == 32              \* VERSION_ID
HeaderSize == 2              \* size_of::<FrameHeader>()

TelemetryId == 0
TimeSyncId == 1
EchoId == 2
RebootId == 3
ResetNetworkId == 5

InsertHeader(f, app) == ExpandHead(f, <<VersionId, app>>)

\* Mutant of InstallHeaderIfNeeded: the marker of a broadcast is kept.
InstallOverMarker(f) ==
    IF f.flag = CanTimeBroadcast THEN InsertHeader(f, TimeSyncId) ELSE f

\* Frames whose flag stands for a header get one; the marker of a time
\* broadcast gives way to it.
InstallHeaderIfNeeded(f) ==
    CASE f.flag = UartTelemetry -> InsertHeader(f, TelemetryId)
      [] f.flag = CanTimeBroadcast -> InsertHeader(ShrinkHead(f, 2), TimeSyncId)
      [] OTHER -> f

\* Frame::try_from(BusFrame): the errors, the application, the frame left.
Parses(f) ==
    LET d == Data(InstallHeaderIfNeeded(f))
    IN Len(d) >= HeaderSize /\ d[1] = VersionId

Application(f) == Data(InstallHeaderIfNeeded(f))[2]

Request(f) == ShrinkHead(InstallHeaderIfNeeded(f), HeaderSize)

\* Mutant of WithRequestMeta: source and destination stay.
WithSameMeta(f, r) ==
    [f EXCEPT !.src = r.src, !.dest = r.dest, !.flag = r.flag, !.len = r.len]

\* set_meta_from_request: all of the meta is copied, its len too.
WithRequestMeta(f, r) ==
    [f EXCEPT !.src = r.dest, !.dest = r.src, !.flag = r.flag, !.len = r.len]
=============================================================================
