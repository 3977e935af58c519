---------------------------- MODULE FrameChannel ----------------------------
(***************************************************************************)
(* What one direction of the LIN-to-CAN bridge promises: CAN frames arrive *)
(* in the order they were accepted, each at most once and with its id and  *)
(* its data; some may be lost.                                             *)
(***************************************************************************)
EXTENDS Integers, Sequences

CONSTANTS
  Frames,    \* the frames that may be sent, as they arrive
  Capacity   \* how many may be under way

VARIABLES
  chan,   \* frames under way
  heard   \* what the receiver is being given

InitChannel == chan = <<>> /\ heard = <<>>

Accept == \E f \in Frames :
  /\ Len(chan) < Capacity
  /\ chan' = Append(chan, f)
  /\ UNCHANGED heard

Deliver ==
  /\ chan # <<>> /\ heard = <<>>
  /\ chan' = Tail(chan)
  /\ heard' = <<Head(chan)>>

(* The receiver is done with the frame.                                    *)
Done == heard' = <<>> /\ UNCHANGED chan

Lose ==
  /\ \E i \in DOMAIN chan :
       chan' = [j \in 1 .. Len(chan) - 1 |-> IF j < i THEN chan[j] ELSE chan[j + 1]]
  /\ UNCHANGED heard

Channel == InitChannel /\ [][Accept \/ Deliver \/ Done \/ Lose]_<<chan, heard>>
=============================================================================
