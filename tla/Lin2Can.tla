------------------------------ MODULE Lin2Can -------------------------------
(***************************************************************************)
(* The LIN-to-CAN bridge of drivers/can/lin2can/lin2can.c on each node: a  *)
(* CAN controller for ISO-TP whose frames wait in a bounded queue until    *)
(* the LIN bus polls for them.  Up to four CAN ids share one LIN id; the   *)
(* index of the CAN id travels in the top two bits of the first byte.      *)
(*                                                                         *)
(* Callback and user_data of a filter are one value.  start, set_mode and  *)
(* get_state do nothing.                                                   *)
(***************************************************************************)
EXTENDS AbstractLin, Sequences

CONSTANTS
  Commander,   \* the node whose LIN mode is LIN_MODE_COMMANDER
  id_mapping,  \* CONFIG_LIN2CAN_CAN_ID0 .. ID3
  QueueSize,   \* CONFIG_LIN2CAN_OUTGOING_QUEUE_SIZE
  Nobody       \* no callback for a CAN id

ASSUME Lin2CanAssumption ==
  /\ Commander \in Nodes
  /\ QueueSize \in Nat \ {0}
  /\ DOMAIN id_mapping = 0 .. 3
  /\ \A i, j \in 0 .. 3 : id_mapping[i] = id_mapping[j] => i = j

VARIABLES
  queue,               \* encoded frames waiting on each node
  incoming_callbacks   \* who gets the frames of each CAN id, on each node

bridgeVars == <<queue, incoming_callbacks>>

Addresses == 0 .. 3   \* TRANSLATABLE_ADDRESSES_LEN

Unmapped == 255

Wildcard == 4

FrameLength == 8

map_from_can_id(id) ==
  LET found == {i \in Addresses : id_mapping[i] = id}
  IN  IF found = {} THEN Unmapped ELSE Min(found)

(* Padded with 0xFF to the length of a LIN frame.                          *)
Padded(data) ==
  [i \in 1 .. FrameLength |-> IF i <= Len(data) THEN data[i] ELSE 255]

(* Mutant: the id is added before the data is copied over it.              *)
EncodeOverwritten(frame) == Padded(frame.data)

(* Bitwise or of two numbers of two bits.                                  *)
Or(a, b) == IF b \in {0, a} THEN a ELSE IF a = 0 THEN b ELSE 3

(* The top two bits of the first byte are or-ed with the index.            *)
Encode(frame) ==
  [Padded(frame.data) EXCEPT ![1] =
     (@ % 64) + 64 * Or(@ \div 64, map_from_can_id(frame.id))]

(* What lin_incoming_cb makes of a frame.                                  *)
Decode(bytes) ==
  [id |-> id_mapping[bytes[1] \div 64],
   data |-> [bytes EXCEPT ![1] = @ % 64]]

MasterRequest == 60    \* CONFIG_LIN2CAN_MASTER_REQUEST_ID

SlaveResponse == 61    \* CONFIG_LIN2CAN_SLAVE_RESPONSE_ID

incoming_id(n) == IF n = Commander THEN SlaveResponse ELSE MasterRequest

outgoing_id(n) == IF n = Commander THEN MasterRequest ELSE SlaveResponse

(* lin2can_init registers these before any application runs.               *)
BridgeEntries(n) ==
  <<[frame_id |-> incoming_id(n), type |-> "incoming", cb |-> "bridge"],
    [frame_id |-> outgoing_id(n), type |-> "outgoing", cb |-> "bridge"]>>

InitBridge ==
  /\ queue = [n \in Nodes |-> <<>>]
  /\ incoming_callbacks = [n \in Nodes |-> [a \in Addresses |-> Nobody]]
-----------------------------------------------------------------------------
CanQueue(n, frame) ==
  /\ map_from_can_id(frame.id) # Unmapped
  /\ Len(queue[n]) < QueueSize

(* lin2can_send; an id that cannot be mapped, or a queue that stays full   *)
(* until the timeout, is an error.                                         *)
Send(n, frame) ==
  /\ CanQueue(n, frame)
  /\ queue' = [queue EXCEPT ![n] = Append(@, Encode(frame))]
  /\ UNCHANGED incoming_callbacks

(* lin_outgoing_cb: the frame leaves the queue, and its sender is told     *)
(* that it was sent, before it is on the bus.                              *)
Pop(n) ==
  /\ queue[n] # <<>>
  /\ queue' = [queue EXCEPT ![n] = Tail(@)]
  /\ UNCHANGED incoming_callbacks

(* Who is called for an incoming frame, perhaps nobody.                    *)
ReceiverOf(n, bytes) == incoming_callbacks[n][bytes[1] \div 64]

(* The addresses a filter stands for; none if it is not supported.         *)
FilterAddresses(filter) ==
  CASE filter.mask = "wildcard" -> Addresses
    [] filter.mask = "exact" -> Addresses \cap {map_from_can_id(filter.id)}
    [] OTHER -> {}

(* lin2can_add_rx_filter: the id of the filter, or an error if one of the  *)
(* addresses is taken or the filter is not supported.                      *)
FilterResult(n, filter) ==
  LET wanted == FilterAddresses(filter)
  IN  IF wanted = {} \/ \E a \in wanted : incoming_callbacks[n][a] # Nobody THEN -1
      ELSE IF filter.mask = "wildcard" THEN Wildcard
      ELSE map_from_can_id(filter.id)

(* Mutant: the loop over the addresses ends one too early.                 *)
AddFilterShort(n, filter, who) ==
  IF FilterResult(n, filter) = -1 THEN UNCHANGED bridgeVars
  ELSE /\ incoming_callbacks' =
            [incoming_callbacks EXCEPT ![n] =
               [a \in Addresses |-> IF a \in FilterAddresses(filter) \ {3}
                                    THEN who ELSE @[a]]]
       /\ UNCHANGED queue

AddFilter(n, filter, who) ==
  IF FilterResult(n, filter) = -1 THEN UNCHANGED bridgeVars
  ELSE /\ incoming_callbacks' =
            [incoming_callbacks EXCEPT ![n] =
               [a \in Addresses |-> IF a \in FilterAddresses(filter)
                                    THEN who ELSE @[a]]]
       /\ UNCHANGED queue

RemoveFilter(n, filter_id) ==
  /\ incoming_callbacks' =
       [incoming_callbacks EXCEPT ![n] =
          [a \in Addresses |-> IF filter_id \in {a, Wildcard} THEN Nobody ELSE @[a]]]
  /\ UNCHANGED queue
=============================================================================
