---------------------------- MODULE MCLinNetwork ----------------------------
(* LinNetwork with the gateway sample's routing table and schedule, and a  *)
(* second schedule with one application frame.                             *)
EXTENDS LinNetwork, TLC

CONSTANTS t1, t2, t3

VARIABLE focus

MCTables == {t1, t2}

(* t3 is out of bounds.                                                    *)
MCIndices == {t1, t2, t3}

MCFrameIdOf == t1 :> <<1>> @@ t2 :> <<61, 60, 1>>

MCCount == [t \in MCTables |-> Len(MCFrameIdOf[t])]

(* The defaults of CONFIG_LIN2CAN_CAN_ID0 .. ID3.                          *)
MCIdMapping == 0 :> 128 @@ 1 :> 384 @@ 2 :> 1 @@ 3 :> 385

(* ISO-TP frames of one and of two bytes, and one whose id has no mapping. *)
MCCanFrames ==
  {[id |-> 128, data |-> <<2>>], [id |-> 385, data |-> <<48, 5>>],
   [id |-> 100, data |-> <<1>>]}

All == [mask |-> "wildcard", id |-> 0]

Only(id) == [mask |-> "exact", id |-> id]

Route(from, filter) == [from |-> from, filter |-> filter]

(* The table of the gateway sample; three tables, one of them empty, that  *)
(* may all be registered; and one whose third entry is refused.            *)
SampleTables == <<<<Route("can", All), Route("lin2can", All)>>>>

MCRouterTables ==
  {SampleTables,
   <<<<Route("can", Only(128))>>, <<>>, <<Route("lin2can", Only(128)), Route("can", All)>>>>,
   <<<<Route("lin2can", Only(128)), Route("can", All), Route("lin2can", Only(128)),
       Route("lin2can", Only(100))>>>>}

MCFilterIds == {0, 1}

MCCanFilters ==
  {All, Only(128), Only(100), [mask |-> "other", id |-> 0]}

MCStaticEntries == <<[frame_id |-> 1, type |-> "outgoing", cb |-> "app"]>>

(* Two ids, of which one cannot be valid, beside those of the bridge.      *)
MCAppEntries ==
  {[frame_id |-> 1, type |-> "incoming", cb |-> "app1"],
   [frame_id |-> 2, type |-> "outgoing", cb |-> "app2"],
   [frame_id |-> 64, type |-> "incoming", cb |-> "app3"]}

MCAppFrame == <<7>>

MCVars == <<allVars, focus>>

MCInit ==
  /\ NetInit
  /\ focus \in {"schedule", "registration", "filters", "routes"}
  /\ router_tables # SampleTables => focus = "routes"

Open == \A a \in Addresses : incoming_callbacks[Responder][a] = "isotp"

(* Bound: in one behaviour CAN filters are set and removed, or a wildcard  *)
(* filter is set for good and then either the schedule is changed or LIN   *)
(* frames are registered, or routes are refused and only the gateway's     *)
(* side sends.                                                             *)
MCNext ==
  /\ NetNext
  /\ (\E c \in Callers : pc'[c] # pc[c]) => focus = "schedule" /\ Open
  /\ alVars' # alVars => focus = "registration" /\ Open
  /\ incoming_callbacks'[Responder] # incoming_callbacks[Responder] =>
       focus = "filters" \/ (focus # "routes" /\ Open')
  /\ sysinit'.err \notin {0, Wildcard} => focus = "routes"
  /\ focus = "routes" => queue'[Responder] = queue[Responder]
  /\ UNCHANGED focus

(* The fairness of NetSpec; the bound stops none of these for good.        *)
MCSpec ==
  /\ MCInit /\ [][MCNext]_MCVars
  /\ WF_MCVars(Sysinit /\ UNCHANGED focus)
  /\ WF_MCVars(RouterDone /\ SchedulerStep /\ UNCHANGED focus)
  /\ \A c \in Callers : WF_MCVars(CallerStep(c) /\ UNCHANGED focus)
  /\ WF_MCVars(BusStep /\ UNCHANGED focus)
  /\ \A n \in Nodes : SF_MCVars(BusHeader /\ bus.to = n /\ UNCHANGED focus)
=============================================================================
