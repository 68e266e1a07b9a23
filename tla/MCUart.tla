------------------------------- MODULE MCUart -------------------------------
(***************************************************************************)
(* Values of the constants of Uart for TLC.  Port 2 sends, to keep the     *)
(* instance small, and both read.  A frame that had a header put before it *)
(* has its offset at 14, a fresh one at 16.  The lengths are those at      *)
(* which something changes: no data, the longest frame that recv() can     *)
(* take in (ReadMax - 9 bytes), and one byte more; and there is a frame    *)
(* whose data begins like a frame.                                         *)
(***************************************************************************)
EXTENDS Uart, TLC

Fill(len, b) == [i \in 1..len |-> b]

Packet(off, data, id) ==
    [off |-> off, data |-> data, id |-> id, type |-> 53, cmd |-> 16]

\* With the check byte after it, this looks like a frame of no data.
Inner == <<235, 144, 1, 0, 3, 53, 16, 9>>

LineRequests ==
    (1 :> ("a" :> {} @@ "b" :> {})) @@
    (2 :> ("a" :> {Packet(16, <<>>, 3), Packet(14, Fill(ReadMax - 9, 7), 4)} @@
           "b" :> {Packet(16, Fill(ReadMax - 8, 8), 5), Packet(16, Inner, 6)}))

\* What looks like a frame, and announces two bytes.
LineNoise ==
    (1 :> {<<235, 144, 1, 0, 2, 53, 16, 9, 0>>}) @@ (2 :> {})
NoNoise == [p \in Ports |-> {}]

ShortRequests ==
    (1 :> ("a" :> {})) @@ (2 :> ("a" :> {Packet(16, <<32, 2>>, 1)}))
=============================================================================
