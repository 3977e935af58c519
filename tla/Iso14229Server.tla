--------------------------- MODULE Iso14229Server ---------------------------
(***************************************************************************)
(* The server thread of lib/iso14229/iso14229_common.c: thread_start and   *)
(* thread_stop called by application threads, the event loop, the event    *)
(* callback and the two receive queues filled by the CAN driver.           *)
(*                                                                         *)
(* The server thread is cooperative: from the unlock at its end to its     *)
(* termination nothing else runs, so both are one step here.               *)
(*                                                                         *)
(* External: k_mutex, k_msgq, k_thread (there is one thread object; a join *)
(* waits for whatever thread runs in it) and the iso14229 library.         *)
(***************************************************************************)
EXTENDS Naturals, Sequences

CONSTANTS
  Clients,    \* application threads
  Server,     \* the server thread
  Nobody,     \* no owner of a mutex
  Callbacks,  \* event callbacks
  NoCallback, \* event_callback == NULL
  Capacity,   \* frames a receive queue has room for
  MaxStarts,  \* bound on the threads created
  MaxFrames   \* bound on the frames received

ASSUME ServerAssumption ==
  /\ Server \notin Clients /\ Nobody \notin Clients \cup {Server}
  /\ NoCallback \notin Callbacks
  /\ Capacity \in Nat \ {0} /\ MaxStarts \in Nat /\ MaxFrames \in Nat

VARIABLES
  thread_running, thread_stop_requested, thread_mutex,
  created,         \* threads created; the last one has this number
  server,          \* where the server thread is; "none": there is none
  pc,              \* where each client is
  target,          \* history: the thread each stopping client asked to end
  callback_mutex, event_callback,
  executing,       \* the callback being called
  msgq,            \* can_phys_msgq and can_func_msgq
  frames,          \* frames received
  delivered        \* history: frames given to each ISO-TP link

lifecycle == <<thread_running, thread_stop_requested, thread_mutex, created,
               target>>

callback == <<callback_mutex, event_callback, executing>>

rx == <<msgq, frames, delivered>>

vars == <<lifecycle, server, pc, callback, rx>>

Links == {"phys", "func"}

Init ==
  /\ thread_running = FALSE /\ thread_stop_requested = FALSE
  /\ thread_mutex = Nobody
  /\ created = 0
  /\ server = "none"
  /\ pc = [c \in Clients |-> "idle"]
  /\ target = [c \in Clients |-> 0]
  /\ callback_mutex = Nobody /\ event_callback = NoCallback
  /\ executing = NoCallback
  /\ msgq = [l \in Links |-> <<>>]
  /\ frames = 0
  /\ delivered = [l \in Links |-> <<>>]

Goto(c, label) == pc' = [pc EXCEPT ![c] = label]
-----------------------------------------------------------------------------
(* A call of thread_start or thread_stop locks thread_mutex first.         *)
LockThread(c, op) ==
  /\ pc[c] = "idle"
  /\ thread_mutex = Nobody
  /\ thread_mutex' = c
  /\ Goto(c, op)
  /\ UNCHANGED <<thread_running, thread_stop_requested, created, target,
                 server, callback, rx>>

CreateThread ==
  /\ created < MaxStarts
  /\ created' = created + 1
  /\ server' = "loop"

(* Mutants: thread_running is not looked at; the stop request is cleared   *)
(* before it is.                                                           *)
StartUnchecked(c) ==
  /\ pc[c] = "start"
  /\ thread_stop_requested' = FALSE
  /\ CreateThread
  /\ Goto(c, "start_created")
  /\ UNCHANGED <<thread_running, thread_mutex, target, callback, rx>>

StartClearsFirst(c) ==
  /\ pc[c] = "start"
  /\ thread_stop_requested' = FALSE
  /\ IF thread_running
     THEN thread_mutex' = Nobody /\ Goto(c, "idle") /\ UNCHANGED <<created, server>>
     ELSE CreateThread /\ Goto(c, "start_created") /\ UNCHANGED thread_mutex
  /\ UNCHANGED <<thread_running, target, callback, rx>>

(* iso14229_zephyr_thread_start: already running, created, not created.    *)
Start(c) ==
  /\ pc[c] = "start"
  /\ \/ /\ thread_running
        /\ thread_mutex' = Nobody
        /\ Goto(c, "idle")
        /\ UNCHANGED <<thread_stop_requested, created, server>>
     \/ /\ ~thread_running
        /\ thread_stop_requested' = FALSE
        /\ CreateThread
        /\ Goto(c, "start_created")
        /\ UNCHANGED thread_mutex
     \/ /\ ~thread_running
        /\ thread_stop_requested' = FALSE
        /\ thread_mutex' = Nobody
        /\ Goto(c, "idle")
        /\ UNCHANGED <<created, server>>
  /\ UNCHANGED <<thread_running, target, callback, rx>>

Started(c) ==
  /\ pc[c] = "start_created"
  /\ thread_running' = TRUE
  /\ thread_mutex' = Nobody
  /\ Goto(c, "idle")
  /\ UNCHANGED <<thread_stop_requested, created, target, server, callback, rx>>

(* iso14229_zephyr_thread_stop; the join comes after the unlock.           *)
Stop(c) ==
  /\ pc[c] = "stop"
  /\ thread_mutex' = Nobody
  /\ \/ /\ ~thread_running
        /\ Goto(c, "idle")
        /\ UNCHANGED <<thread_stop_requested, target>>
     \/ /\ thread_running
        /\ thread_stop_requested' = TRUE
        /\ target' = [target EXCEPT ![c] = created]
        /\ Goto(c, "join")
  /\ UNCHANGED <<thread_running, created, server, callback, rx>>

Join(c) ==
  /\ pc[c] = "join"
  /\ Goto(c, IF server = "none" THEN "idle" ELSE "joining")
  /\ UNCHANGED <<lifecycle, server, callback, rx>>

(* Mutant: the callback is replaced without the mutex.                     *)
SetCallbackUnlocked(c) ==
  /\ pc[c] = "idle"
  /\ \E k \in Callbacks \cup {NoCallback} : event_callback' = k
  /\ UNCHANGED <<lifecycle, server, pc, callback_mutex, executing, rx>>

(* iso14229_zephyr_set_callback                                            *)
SetCallback(c) ==
  /\ pc[c] = "idle"
  /\ callback_mutex = Nobody
  /\ callback_mutex' = c
  /\ Goto(c, "set_callback")
  /\ UNCHANGED <<lifecycle, server, event_callback, executing, rx>>

StoreCallback(c) ==
  /\ pc[c] = "set_callback"
  /\ \E k \in Callbacks \cup {NoCallback} : event_callback' = k
  /\ callback_mutex' = Nobody
  /\ Goto(c, "idle")
  /\ UNCHANGED <<lifecycle, server, executing, rx>>
-----------------------------------------------------------------------------
(* can_rx_cb and iso14229_inject_can_frame_rx.  A frame that finds the     *)
(* queue full is dropped; injected frames go to the physical queue even    *)
(* with the functional address.                                            *)
Put(link) ==
  /\ frames < MaxFrames
  /\ frames' = frames + 1
  /\ msgq' = IF Len(msgq[link]) < Capacity
             THEN [msgq EXCEPT ![link] = Append(@, frames + 1)] ELSE msgq
  /\ UNCHANGED <<lifecycle, server, pc, callback, delivered>>

can_rx_cb(link) == Put(link)

InjectFrame == Put("phys")
-----------------------------------------------------------------------------
(* The loop of iso14229_thread_entry and iso14229_zephyr_event_loop_tick.  *)

CheckStop ==
  /\ server = "loop"
  /\ server' = IF thread_stop_requested THEN "exit" ELSE "phys"
  /\ UNCHANGED <<lifecycle, pc, callback, rx>>

(* Mutant: the functional queue is forgotten.                              *)
DrainPhysOnly(link) ==
  /\ server = link
  /\ \/ /\ link = "phys" /\ msgq[link] # <<>>
        /\ msgq' = [msgq EXCEPT ![link] = Tail(@)]
        /\ delivered' = [delivered EXCEPT ![link] = Append(@, Head(msgq[link]))]
        /\ UNCHANGED server
     \/ /\ link = "func" \/ msgq[link] = <<>>
        /\ server' = IF link = "phys" THEN "func" ELSE "poll"
        /\ UNCHANGED <<msgq, delivered>>
  /\ UNCHANGED <<lifecycle, pc, callback, frames>>

(* Both queues are emptied, the physical one first.                        *)
Drain(link) ==
  /\ server = link
  /\ \/ /\ msgq[link] # <<>>
        /\ msgq' = [msgq EXCEPT ![link] = Tail(@)]
        /\ delivered' = [delivered EXCEPT ![link] = Append(@, Head(msgq[link]))]
        /\ UNCHANGED server
     \/ /\ msgq[link] = <<>>
        /\ server' = IF link = "phys" THEN "func" ELSE "poll"
        /\ UNCHANGED <<msgq, delivered>>
  /\ UNCHANGED <<lifecycle, pc, callback, frames>>

(* UDSServerPoll may raise an event, which uds_cb passes on.               *)
Poll ==
  /\ server = "poll"
  /\ server' \in {"loop", "event"}
  /\ UNCHANGED <<lifecycle, pc, callback, rx>>

CallbackBegin ==
  /\ server = "event"
  /\ callback_mutex = Nobody
  /\ callback_mutex' = Server
  /\ executing' = event_callback
  /\ server' = "callback"
  /\ UNCHANGED <<lifecycle, pc, event_callback, rx>>

CallbackEnd ==
  /\ server = "callback"
  /\ callback_mutex' = Nobody
  /\ executing' = NoCallback
  /\ server' = "poll"
  /\ UNCHANGED <<lifecycle, pc, event_callback, rx>>

(* The thread unmarks itself and ends, and whoever joins it goes on.       *)
Exit ==
  /\ server = "exit"
  /\ thread_mutex = Nobody
  /\ thread_running' = FALSE
  /\ server' = "none"
  /\ pc' = [c \in Clients |-> IF pc[c] = "joining" THEN "idle" ELSE pc[c]]
  /\ UNCHANGED <<thread_stop_requested, thread_mutex, created, target,
                 callback, rx>>

ServerStep ==
  \/ CheckStop
  \/ \E link \in Links : Drain(link)
  \/ Poll
  \/ CallbackBegin
  \/ CallbackEnd
  \/ Exit

ClientStep(c) ==
  \/ Start(c)
  \/ Started(c)
  \/ Stop(c)
  \/ Join(c)
  \/ StoreCallback(c)

Next ==
  \/ ServerStep
  \/ \E link \in Links : can_rx_cb(link)
  \/ InjectFrame
  \/ \E c \in Clients :
       \/ \E op \in {"start", "stop"} : LockThread(c, op)
       \/ SetCallback(c)
       \/ ClientStep(c)

Spec == Init /\ [][Next]_vars

(* Threads that are ready run again and again.  The server has the highest *)
(* priority of those waiting for a mutex and Zephyr hands a mutex over, so *)
(* it gets one that is free again and again; Poll does not raise events    *)
(* for ever.  Nothing makes clients call or frames arrive.                 *)
FairSpec ==
  /\ Spec
  /\ WF_vars(ServerStep)
  /\ SF_vars(CallbackBegin) /\ SF_vars(Exit)
  /\ SF_vars(Poll /\ server' = "loop")
  /\ \A c \in Clients : WF_vars(ClientStep(c))
-----------------------------------------------------------------------------
ServerPlaces == {"none", "loop", "phys", "func", "poll", "event", "callback",
                 "exit"}

ClientPlaces == {"idle", "start", "start_created", "stop", "join", "joining",
                 "set_callback"}

(* Types; a queue never holds more than it has room for.                   *)
TypeOK ==
  /\ thread_running \in BOOLEAN /\ thread_stop_requested \in BOOLEAN
  /\ thread_mutex \in Clients \cup {Nobody}
  /\ created \in 0 .. MaxStarts
  /\ server \in ServerPlaces
  /\ pc \in [Clients -> ClientPlaces]
  /\ target \in [Clients -> 0 .. MaxStarts]
  /\ callback_mutex \in Clients \cup {Server, Nobody}
  /\ event_callback \in Callbacks \cup {NoCallback}
  /\ executing \in Callbacks \cup {NoCallback}
  /\ frames \in 0 .. MaxFrames
  /\ msgq \in [Links -> Seq(Nat)] /\ delivered \in [Links -> Seq(Nat)]
  /\ \A l \in Links : Len(msgq[l]) <= Capacity

(* The thread object and its stack are never given to a new thread while a *)
(* thread is still running in them, whoever starts and stops concurrently. *)
NoThreadReused == [][created' # created => server = "none"]_vars

(* Once set_callback has returned, the callback it replaced is not being   *)
(* executed any more.                                                      *)
NoStaleCallback ==
  server = "callback" => executing = event_callback

(* A stop request ends the thread, even if others try to start it while it *)
(* is ending.                                                              *)
StopEnds ==
  \A c \in Clients :
    pc[c] = "join" ~> (server = "none" \/ created # target[c])

(* Frames that were queued are given to the ISO-TP link unless the thread  *)
(* ends.                                                                   *)
FramesDelivered ==
  \A l \in Links :
    (msgq[l] # <<>> /\ server # "none") ~> (msgq[l] = <<>> \/ server = "none")

(* "Wait for thread to finish": thread_stop returns.                       *)
StopReturns == \A c \in Clients : pc[c] = "join" ~> pc[c] = "idle"

(* Who holds which mutex is where its critical sections are.               *)
MutexesHeld ==
  /\ \A c \in Clients :
       /\ (thread_mutex = c) <=> (pc[c] \in {"start", "start_created", "stop"})
       /\ (callback_mutex = c) <=> (pc[c] = "set_callback")
  /\ (callback_mutex = Server) <=> (server = "callback")

(* A thread that exists is marked as running, or its creator, which holds  *)
(* the mutex, is about to mark it.                                         *)
ThreadMarked ==
  server # "none" => thread_running \/ \E c \in Clients : pc[c] = "start_created"

(* Types, bounded queues, and no callback executed after it was replaced,  *)
(* with what makes this inductive: the mutexes, and the mark of the        *)
(* thread.                                                                 *)
CallbacksOK == TypeOK /\ MutexesHeld /\ ThreadMarked /\ NoStaleCallback
=============================================================================
