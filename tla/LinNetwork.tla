----------------------------- MODULE LinNetwork -----------------------------
(***************************************************************************)
(* A LIN bus with a commander and a responder: the schedule of             *)
(* LinScheduler drives the callback tables of AbstractLin, through which   *)
(* the bridges of Lin2Can exchange CAN frames; the commander routes them   *)
(* from and to a CAN bus with CanRouter, the responder runs an ISO-TP      *)
(* application.  A second application of the responder registers and       *)
(* unregisters LIN frames meanwhile.                                       *)
(*                                                                         *)
(* External: the LIN driver.  A transfer is a header, which the responder  *)
(* answers from its header callback, and the data, which ends in the rx    *)
(* callback of the receiver; either may be disturbed.  lin_send and        *)
(* lin_receive wait for the transfer that is under way, and the outgoing   *)
(* callback of the commander runs when that wait is over.                  *)
(***************************************************************************)
EXTENDS LinScheduler, CanRouter

CONSTANTS
  Responder,
  FrameIdOf,    \* frame_id of each entry of each schedule table
  CanFrames,    \* CAN frames that are sent on either side
  StaticEntries,  \* what the commander's application registered at start
  AppEntries,   \* what the responder's application registers
  AppFrame      \* contents of an application's LIN frame

AppCallbacks ==
  {e.cb : e \in AppEntries} \cup {StaticEntries[i].cb : i \in DOMAIN StaticEntries}

(* What a slot that the bridge does not use may hold: the applications     *)
(* leave the two ids of the bridge alone.                                  *)
AppSlots ==
  [frame_id : Nat \ {MasterRequest, SlaveResponse}, type : {"incoming", "outgoing"},
   cb : AppCallbacks \cup {NoCallback}]

ASSUME LinNetworkAssumption ==
  /\ Nodes = {Commander, Responder}
  /\ Commander # Responder
  /\ "bridge" \notin AppCallbacks \cup {NoCallback}
  /\ AppEntries \subseteq AppSlots
  /\ StaticEntries \in Seq(AppSlots)
  /\ Len(StaticEntries) + 2 <= MaxFrames
  /\ \A i, j \in DOMAIN StaticEntries :
       StaticEntries[i].frame_id = StaticEntries[j].frame_id => i = j

(* ISO-TP keeps the top two bits of the first byte clear.                  *)
ASSUME IsoTpAssumption ==
  \A f \in CanFrames : /\ f.data \in Seq(0 .. 255)
                       /\ Len(f.data) \in 1 .. FrameLength
                       /\ f.data[1] < 64

VARIABLES
  bus   \* the transfer under way; delivered: what a CAN callback was given

netVars == <<alVars, bridgeVars, routerVars, bus>>

allVars == <<vars, netVars>>

Transfer(phase, id, to, frame) ==
  [phase |-> phase, id |-> id, to |-> to, frame |-> frame, delivered |-> <<>>]

Idle == Transfer("idle", 0, Responder, <<>>)

EntriesAtStart(n) ==
  BridgeEntries(n) \o (IF n = Commander THEN StaticEntries ELSE <<>>)

NetInit ==
  /\ Init
  /\ InitBridge
  /\ InitRouter
  /\ callbacks = [n \in Nodes |-> TableOf(EntriesAtStart(n))]
  /\ used_callbacks = [n \in Nodes |-> Len(EntriesAtStart(n))]
  /\ registered = [n \in Nodes |-> {EntriesAtStart(n)[i] : i \in DOMAIN EntriesAtStart(n)}]
  /\ call = [n \in Nodes |-> NoCall]
  /\ bus = Idle

(* The frame an outgoing callback supplies; none if it returns false.      *)
Supplied(n, e) ==
  CASE e.cb # "bridge" -> AppFrame
    [] e.cb = "bridge" /\ queue[n] # <<>> -> Head(queue[n])
    [] OTHER -> <<>>

(* What calling the outgoing callback changes.                             *)
CallOutgoing(n, e) ==
  IF e.cb = "bridge" /\ queue[n] # <<>> THEN Pop(n) ELSE UNCHANGED bridgeVars

NoOutgoing == UNCHANGED bridgeVars

(* al_schedule_now on the commander.                                       *)
ScheduleNow(id) ==
  LET e == FirstMatch(Commander, id)
  IN  /\ bus = Idle
      /\ \/ ~HasMatch(Commander, id) /\ NoOutgoing /\ UNCHANGED bus
         \/ /\ HasMatch(Commander, id)
            /\ e.type = "incoming"
            /\ bus' = Transfer("header", id, Commander, <<>>)
            /\ NoOutgoing
         \/ /\ HasMatch(Commander, id)
            /\ e.type = "outgoing"
            /\ bus' = IF Supplied(Commander, e) = <<>> THEN Idle
                      ELSE Transfer("header", id, Responder, Supplied(Commander, e))
            /\ CallOutgoing(Commander, e)
      /\ UNCHANGED <<alVars, routerVars>>

(* The scheduler thread; sending an entry is a call of schedule_now.       *)
SchedulerStep ==
  \/ Schedule /\ ScheduleNow(FrameIdOf[table][entry + 1])
  \/ ThreadStep /\ pc[Thread] # "schedule" /\ UNCHANGED netVars

(* lin_header_callback of the responder: it receives a frame that the      *)
(* commander sends and answers a request.  An outgoing callback for a      *)
(* frame of the commander disturbs it.                                     *)
BusHeader ==
  LET e == FirstMatch(Responder, bus.id)
      answers == HasMatch(Responder, bus.id) /\ e.type = "outgoing"
      receives == HasMatch(Responder, bus.id) /\ e.type = "incoming"
  IN  /\ bus.phase = "header"
      /\ \/ bus.to = Responder /\ receives /\ bus' = [bus EXCEPT !.phase = "data"]
         \/ /\ bus.to = Commander /\ answers /\ Supplied(Responder, e) # <<>>
            /\ bus' = [bus EXCEPT !.phase = "data", !.frame = Supplied(Responder, e)]
         \/ /\ IF bus.to = Responder THEN ~receives
               ELSE ~answers \/ Supplied(Responder, e) = <<>>
            /\ bus' = Idle
      /\ IF answers THEN CallOutgoing(Responder, e) ELSE NoOutgoing
      /\ UNCHANGED <<alVars, routerVars, vars>>

(* lin_rx_callback of the receiver; lin_incoming_cb if it is the bridge's. *)
BusData ==
  LET n == bus.to
      bridged == {i \in Receivers(n, bus.id) : callbacks[n][i].cb = "bridge"}
  IN  /\ bus.phase = "data"
      /\ bus' = [Transfer("end", bus.id, n, <<>>) EXCEPT !.delivered =
                   IF bridged # {} /\ ReceiverOf(n, bus.frame) # Nobody
                   THEN [i \in 1 .. Cardinality(bridged) |-> Decode(bus.frame)]
                   ELSE <<>>]
      /\ UNCHANGED <<alVars, bridgeVars, routerVars, vars>>

BusEnd ==
  /\ bus.phase = "end"
  /\ bus' = Idle
  /\ UNCHANGED <<alVars, bridgeVars, routerVars, vars>>

(* The transfer is disturbed: no callback, or one with an error.           *)
BusFault ==
  /\ bus.phase \in {"header", "data"}
  /\ bus' = Idle
  /\ UNCHANGED <<alVars, bridgeVars, routerVars, vars>>

BusStep == BusHeader \/ BusData \/ BusEnd \/ BusFault
-----------------------------------------------------------------------------
TableStep == Fill(Responder) \/ Shift(Responder)

ResponderApplication ==
  /\ \/ \E e \in AppEntries : Register(Responder, e)
     \/ \E e \in AppEntries : Unregister(Responder, e.frame_id)
     \/ TableStep
  /\ UNCHANGED <<vars, bridgeVars, routerVars, bus>>

IsoTpSends ==
  /\ \E f \in CanFrames : Send(Responder, f)
  /\ UNCHANGED <<vars, alVars, routerVars, bus>>

(* can_add_rx_filter and can_remove_rx_filter of the ISO-TP application.   *)
IsoTpFilters ==
  /\ \E filter \in CanFilters :
       \/ AddFilter(Responder, filter, "isotp")
       \/ /\ \A a \in FilterAddresses(filter) : incoming_callbacks[Responder][a] # Nobody
          /\ RemoveFilter(Responder, IF filter.mask = "wildcard" THEN Wildcard
                                     ELSE map_from_can_id(filter.id))
  /\ UNCHANGED <<vars, alVars, routerVars, bus>>

GatewayRoutes ==
  /\ \E f \in CanFrames : RouteToLin(f)
  /\ UNCHANGED <<vars, alVars, routerVars, bus>>

TableCall(c) ==
  /\ \/ \E index \in Indices : SetActiveTable(c, index)
     \/ Disable(c)
  /\ UNCHANGED netVars

CallerStep(c) == CallStep(c) /\ UNCHANGED netVars

(* can_router_sysinit is over before the first thread runs.                *)
Sysinit == (RouteEntry \/ NextTable) /\ UNCHANGED <<vars, alVars, bus>>

NetNext ==
  \/ Sysinit
  \/ /\ RouterDone
     /\ \/ SchedulerStep
        \/ \E c \in Callers : TableCall(c) \/ CallerStep(c)
        \/ BusStep
        \/ ResponderApplication
        \/ IsoTpSends
        \/ IsoTpFilters
        \/ GatewayRoutes

NetSafety == NetInit /\ [][NetNext]_allVars

(* The scheduler thread, a caller inside a call and the bus go on, and a   *)
(* header that is sent again and again is not disturbed every time; nobody *)
(* has to call, to send or to register.                                    *)
NetSpec ==
  /\ NetSafety
  /\ WF_allVars(Sysinit)
  /\ WF_allVars(RouterDone /\ SchedulerStep)
  /\ \A c \in Callers : WF_allVars(CallerStep(c))
  /\ WF_allVars(BusStep)
  /\ \A n \in Nodes : SF_allVars(BusHeader /\ bus.to = n)
-----------------------------------------------------------------------------
(* Frames under way to node n: the one on the bus, then the queue.         *)
UnderWay(n) ==
  LET from == CHOOSE m \in Nodes : m # n
      onBus == IF bus.id = incoming_id(n) /\ bus.frame # <<>> THEN <<bus.frame>> ELSE <<>>
      encoded == onBus \o queue[from]
  IN  [i \in DOMAIN encoded |-> Decode(encoded[i])]

ArrivingFrames == {[id |-> f.id, data |-> Padded(f.data)] : f \in CanFrames}

Delivered(n) == IF bus.to = n THEN bus.delivered ELSE <<>>

ToCommander == INSTANCE FrameChannel WITH
  Frames <- ArrivingFrames, Capacity <- QueueSize + 1,
  chan <- UnderWay(Commander), heard <- Delivered(Commander)

ToResponder == INSTANCE FrameChannel WITH
  Frames <- ArrivingFrames, Capacity <- QueueSize + 1,
  chan <- UnderWay(Responder), heard <- Delivered(Responder)

(* "this driver translates CAN frames from isotp to lin and vice versa":   *)
(* in both directions the bridge is a FIFO channel that may lose frames    *)
(* but never repeats, reorders or changes one, whatever is registered and  *)
(* unregistered beside it and whichever schedule table is active.          *)
BridgeIsChannel == ToCommander!Channel /\ ToResponder!Channel

(* A table with both ids of the bridge.                                    *)
Polls(t) == {incoming_id(Commander), outgoing_id(Commander)} \subseteq
              {FrameIdOf[t][i] : i \in DOMAIN FrameIdOf[t]}

(* Once a table that polls both ids stays active and is not set again, no  *)
(* queue stays full: the frame at its head goes, and a sender that waits   *)
(* for room gets it.                                                       *)
QueuesDrain ==
  <>[](/\ current_table # Off /\ Polls(current_table)
       /\ \A c \in Callers : pc[c] = "idle") =>
    \A n \in Nodes : []<>(Len(queue[n]) < QueueSize)

(* Not true of the code, see the README: a callback is called only while   *)
(* its registration is complete.                                           *)
CallsRegistered ==
  [][bus.phase = "data" /\ bus'.phase = "end" =>
       \A i \in Receivers(bus.to, bus.id) :
         callbacks[bus.to][i] \in registered[bus.to]]_allVars
=============================================================================
