---------------------------- MODULE AbstractLin -----------------------------
(***************************************************************************)
(* The callback table of drivers/lin/abstract_lin/abstract_lin.c on each   *)
(* node of a LIN bus: the application registers and unregisters frame ids  *)
(* slot by slot and field by field, and the interrupt handlers search the  *)
(* table between any two of these steps.  A slot moved by unregister is    *)
(* copied in one step.                                                     *)
(*                                                                         *)
(* Abstracted: frame sizes, and user_data, which goes with the callback.   *)
(***************************************************************************)
EXTENDS Integers, FiniteSets, FiniteSetsExt

CONSTANTS
  Nodes,
  MaxFrames,  \* CONFIG_ABSTRACT_LIN_MAX_FRAME_COUNT
  NoCallback  \* a null pointer

ASSUME AbstractLinAssumption == MaxFrames \in Nat \ {0}

VARIABLES
  callbacks,       \* the slots of each node
  used_callbacks,  \* how many of them are in use
  call,            \* what the application of each node is in the middle of
  registered       \* history: the entries whose registration is complete

alVars == <<callbacks, used_callbacks, call, registered>>

Slots == 0 .. MaxFrames - 1

MaxId == 63   \* 0x3F

EmptySlot == [frame_id |-> 0, type |-> "incoming", cb |-> NoCallback]

NoCall == [step |-> "none", index |-> 0, entry |-> EmptySlot]

(* What was registered before the model starts, one slot each.             *)
TableOf(entries) ==
  [i \in Slots |-> IF i + 1 \in DOMAIN entries THEN entries[i + 1] ELSE EmptySlot]
-----------------------------------------------------------------------------
(* Mutant: the search ends one slot too early.                             *)
MatchingShort(n, id) ==
  {i \in Slots : i < used_callbacks[n] - 1 /\ callbacks[n][i].frame_id = id}

Matching(n, id) ==
  {i \in Slots : i < used_callbacks[n] /\ callbacks[n][i].frame_id = id}

(* lin_header_callback and al_schedule_now act on the first match.         *)
FirstMatch(n, id) ==
  LET found == Matching(n, id)
  IN  IF found = {} THEN EmptySlot ELSE callbacks[n][Min(found)]

HasMatch(n, id) == Matching(n, id) # {}

(* lin_rx_callback calls every incoming callback that matches.             *)
Receivers(n, id) == {i \in Matching(n, id) : callbacks[n][i].type = "incoming"}

FreeSlots(n) == MaxFrames - used_callbacks[n]

ValidArguments(e) == e.cb # NoCallback /\ e.frame_id \in 0 .. MaxId

(* Mutant: a frame id that is already in use gets a second slot.           *)
AllocateDuplicate(n, e) ==
  /\ FreeSlots(n) > 0
  /\ used_callbacks' = [used_callbacks EXCEPT ![n] = @ + 1]

(* allocate_callback: ENOSPC and EEXIST leave everything as it is.         *)
Allocate(n, e) ==
  /\ FreeSlots(n) > 0
  /\ ~HasMatch(n, e.frame_id)
  /\ used_callbacks' = [used_callbacks EXCEPT ![n] = @ + 1]

(* al_register_incoming_cb and al_register_outgoing_cb: the slot counts as *)
(* used before its first field is written.                                 *)
Register(n, e) ==
  /\ call[n] = NoCall
  /\ ValidArguments(e)
  /\ Allocate(n, e)
  /\ call' = [call EXCEPT ![n] =
                [step |-> "frame_id", index |-> used_callbacks[n], entry |-> e]]
  /\ UNCHANGED <<callbacks, registered>>

FieldAfter == [frame_id |-> "type", type |-> "cb", cb |-> "none"]

Fill(n) ==
  LET c == call[n]
  IN  /\ c.step \in DOMAIN FieldAfter
      /\ callbacks' = [callbacks EXCEPT ![n][c.index][c.step] = c.entry[c.step]]
      /\ IF FieldAfter[c.step] = "none"
         THEN /\ call' = [call EXCEPT ![n] = NoCall]
              /\ registered' = [registered EXCEPT ![n] = @ \cup {c.entry}]
         ELSE /\ call' = [call EXCEPT ![n].step = FieldAfter[c.step]]
              /\ UNCHANGED registered
      /\ UNCHANGED used_callbacks

(* Where the loop of al_unregister goes on with slot i.                    *)
ShiftFrom(i, used) ==
  IF i < used THEN [step |-> "shift", index |-> i, entry |-> EmptySlot] ELSE NoCall

(* al_unregister; an id that is not found is refused.                      *)
Unregister(n, id) ==
  /\ call[n] = NoCall
  /\ HasMatch(n, id)
  /\ LET i == Min(Matching(n, id))
     IN  /\ call' = [call EXCEPT ![n] = ShiftFrom(i, used_callbacks[n] - 1)]
         /\ registered' = [registered EXCEPT ![n] =
                             {e \in @ : e.frame_id # id}]
  /\ used_callbacks' = [used_callbacks EXCEPT ![n] = @ - 1]
  /\ UNCHANGED callbacks

Shift(n) ==
  LET i == call[n].index
  IN  /\ call[n].step = "shift"
      /\ callbacks' = [callbacks EXCEPT ![n][i] = callbacks[n][i + 1]]
      /\ call' = [call EXCEPT ![n] = ShiftFrom(i + 1, used_callbacks[n])]
      /\ UNCHANGED <<used_callbacks, registered>>
-----------------------------------------------------------------------------
(* Once a call is over the table says exactly what the application asked   *)
(* for: every registered id has one slot, no slot below used_callbacks is  *)
(* left over from a removed one, and get_free_callback_slots reports the   *)
(* rest.                                                                   *)
TableExact ==
  \A n \in Nodes : call[n] = NoCall =>
    /\ {callbacks[n][i] : i \in 0 .. used_callbacks[n] - 1} = registered[n]
    /\ Cardinality(registered[n]) = used_callbacks[n]
    /\ \A d, e \in registered[n] : d.frame_id = e.frame_id => d = e
=============================================================================
