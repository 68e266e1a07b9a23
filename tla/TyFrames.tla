------------------------------ MODULE TyFrames ------------------------------
(***************************************************************************)
(* The frame formats of src/adaptor/can/ty.rs as pure operators: the CAN   *)
(* identifier, the single and multi headers, the checksum, and how a       *)
(* message is cut into CAN frames.                                         *)
(*                                                                         *)
(* A CAN frame is the record                                               *)
(*    [src, dest, csp, type, pid, data]                                    *)
(* whose first five fields are those of TyCanId and whose data is the      *)
(* payload of 0 to 8 bytes.  A request is what a caller hands to send():   *)
(*    [dest, data, time, obc]                                              *)
(* time is the CanTimeBroadcast flag, obc whether meta.src_id is the OBC's. *)
(***************************************************************************)
EXTENDS Integers, Sequences, FiniteSets

Byte == 0..255

CanFrameSize == 8            \* TY_CAN_PROTOCOL_CAN_FRAME_SIZE
SingleHdrSize == 2           \* size_of::<TySingleFrameHeader>()
MultiHdrSize == 4            \* size_of::<TyMultiFrameHeader>()
ChecksumSize == 1            \* TY_CAN_PROTOCOL_CHECKSUM_SIZE
FrameMax == 150              \* FRAME_MAX_LENGTH, the limit of BusFrame::new
SingleMax == CanFrameSize - SingleHdrSize

ObcId == 0                   \* TY_CAN_OBC_ID
BroadcastId == 253           \* TY_CAN_BROADCAST_ID
CommandType == 190           \* 0xbe, ..._TYPE_RESPONSE is the same byte
BroadcastType == 15          \* 0x0f
SingleRequest == 1
SingleResponse == 2
MultiRequest == 3
MultiResponse == 4

\* TyCanProtocolFrameType; every other value of the four bits is Unknown.
Reset == 0
Single == 1
MultiFirst == 2
MultiMiddle == 3
TimeBroadcast == 4

\* The type bits of a fresh TyCanId(0).
DefaultType == 0

---------------------------------------------------------------------------
(* Headers and checksum. *)

\* get_checksum: the bytes added modulo 256.  The sum is the number of unit
\* marks, a form whose type needs no induction.
Checksum(s) == Cardinality(UNION {{i} \X (1..s[i]) : i \in DOMAIN s}) % 256

SingleHdrValid(d) ==
    /\ d[2] = SingleRequest
    /\ d[1] \in {CommandType, BroadcastType}

MultiHdrValid(d) ==
    /\ d[4] = MultiRequest
    /\ d[3] \in {CommandType, BroadcastType}

HdrTotal(d) == 256 * d[1] + d[2]

---------------------------------------------------------------------------
(* What send_using_ty_protocol puts on the bus. *)

SingleWire(obc, data) ==
    <<CommandType, IF obc THEN SingleRequest ELSE SingleResponse>> \o data

MultiBody(obc, data) ==
    LET total == Len(data) + 2
    IN <<total \div 256, total % 256, CommandType,
         IF obc THEN MultiRequest ELSE MultiResponse>> \o data

MultiWire(obc, data) ==
    Append(MultiBody(obc, data), Checksum(MultiBody(obc, data)))

TimeWire(data) == <<80, 5>> \o data \o <<0, 0>>      \* 50 05 .. 00 00

CanFrame(src, dest, type, pid, data) ==
    [src |-> src, dest |-> dest, csp |-> FALSE,
     type |-> type, pid |-> pid, data |-> data]

\* Mutant of NumPieces: the last, shorter piece is left out.
NumWholePieces(w) == Len(w) \div CanFrameSize

\* The pieces of at most 8 bytes that the loop over "remain" cuts.
NumPieces(w) == (Len(w) + CanFrameSize - 1) \div CanFrameSize

Piece(w, i) ==
    SubSeq(w, CanFrameSize * (i - 1) + 1,
           IF CanFrameSize * i < Len(w) THEN CanFrameSize * i ELSE Len(w))

MultiFrames(self, pid, req) ==
    LET w == MultiWire(req.obc, req.data)
    IN [i \in 1..NumPieces(w) |->
          CanFrame(self, req.dest, IF i = 1 THEN MultiFirst ELSE MultiMiddle,
                   pid, Piece(w, i))]

\* new_id is never given a type on this path, so the type bits stay as they
\* were: singleType is DefaultType for the nodes that run this code.
SingleFrames(self, pid, req, singleType) ==
    <<CanFrame(self, req.dest, singleType, pid, SingleWire(req.obc, req.data))>>

\* construct_broadcast_can_frame: source and destination are fixed.
TimeFrames(req) ==
    <<CanFrame(ObcId, BroadcastId, TimeBroadcast, 0, TimeWire(req.data))>>

FramesOf(self, pid, req, singleType) ==
    IF req.time THEN TimeFrames(req)
    ELSE IF Len(req.data) <= SingleMax
    THEN SingleFrames(self, pid, req, singleType)
    ELSE MultiFrames(self, pid, req)

---------------------------------------------------------------------------
(* What recv makes of a frame or of a complete slot. *)

\* The message a bus frame carries, as the upper layer sees it.
Message(src, dest, data, time) ==
    [src |-> src, dest |-> dest, data |-> data, time |-> time]

SinglePayload(d) == SubSeq(d, SingleHdrSize + 1, Len(d))

MultiPayload(d) == SubSeq(d, MultiHdrSize + 1, Len(d) - ChecksumSize)

\* Mutant of ChecksumMatches: the test is left out.
ChecksumIgnored(d) == TRUE

ChecksumMatches(d) == Checksum(SubSeq(d, 1, Len(d) - 1)) = d[Len(d)]

TimeValid(d) == /\ Len(d) = CanFrameSize
                /\ d[1] = 80
                /\ d[2] = 5
                /\ d[8] = 0

\* The message a receiver of the request should be handed.
MessageOf(self, req) ==
    IF req.time THEN Message(ObcId, BroadcastId, TimeWire(req.data), TRUE)
    ELSE Message(self, req.dest, req.data, FALSE)
=============================================================================
