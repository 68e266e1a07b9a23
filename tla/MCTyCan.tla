------------------------------ MODULE MCTyCan ------------------------------
(***************************************************************************)
(* Values of the constants of TyCan for TLC.  Node 0 is the OBC, nodes 1   *)
(* and 2 are devices.  Payloads are chosen so that their lengths meet the  *)
(* boundaries of the framing (6 | 7 bytes: single or multi; 11 | 12 bytes: *)
(* two or three frames) and so that no two messages of a run agree in      *)
(* checksum when the frames of one are put into the slot of the other.     *)
(***************************************************************************)
EXTENDS TyCan, TLC

Fill(len, b) == [i \in 1..len |-> b]

Cmd(dest, data) == [dest |-> dest, data |-> data, time |-> FALSE, obc |-> TRUE]
Reply(data) == [dest |-> ObcId, data |-> data, time |-> FALSE, obc |-> FALSE]
Clock == [dest |-> BroadcastId, data |-> <<1, 2, 3, 4>>, time |-> TRUE, obc |-> TRUE]
BadClock == [Clock EXCEPT !.data = <<1, 2, 3, 4, 5>>]

\* Two tasks of the OBC, with a bad clock among the requests.
SendsRequests ==
    (0 :> ("a" :> {Cmd(1, Fill(7, 1)), Cmd(BroadcastId, Fill(12, 2))} @@
           "b" :> {Cmd(1, Fill(11, 3)), Clock, BadClock})) @@
    (1 :> ("a" :> {} @@ "b" :> {}))

\* Frames that no message of a run is made of.
NoiseFrame(type, data) == CanFrame(0, 1, type, 0, data)

LossyNoise ==
    {CanFrame(0, BroadcastId, Reset, 0, <<>>),                 \* restart
     NoiseFrame(MultiFirst, <<0, 1, 190, 3, 1, 1, 1, 1>>),     \* total < 8
     NoiseFrame(MultiFirst, <<0, 155, 190, 3, 1, 1, 1, 1>>),   \* 158 > 157
     NoiseFrame(MultiFirst, <<255, 253, 190, 3>>),             \* wraps to 0
     NoiseFrame(MultiFirst, <<255, 254, 190, 3>>),             \* wraps to 1
     NoiseFrame(MultiMiddle, <<>>)}                            \* no First

\* Its checksum is 0, so its last frame alone passes for a message of one byte.
ZeroSum == Append(Fill(11, 2), 27)

\* The OBC with its own firmware and two devices that run this code, one of
\* them with two tasks that a Reset frame may catch in the middle of a send.
LossyRequests ==
    (0 :> ("a" :> {Cmd(BroadcastId, ZeroSum), Cmd(1, <<9>>)} @@ "b" :> {})) @@
    (1 :> ("a" :> {[Reply(Fill(7, 4)) EXCEPT !.dest = 2]} @@ "b" :> {})) @@
    (2 :> ("a" :> {Cmd(1, Fill(7, 6))} @@
           "b" :> {Cmd(1, Fill(11, 8))}))

\* Two requests for the runs that show what a single task can meet.
ShortRequests == (0 :> ("a" :> {Cmd(1, <<9>>)})) @@ (1 :> ("a" :> {}))
LongRequests == (0 :> ("a" :> {Cmd(1, Fill(7, 1))})) @@ (1 :> ("a" :> {}))
=============================================================================
