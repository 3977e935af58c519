------------------------ MODULE Iso14229ServerProofs ------------------------
(***************************************************************************)
(* Proofs about Iso14229Server for any number of application threads,      *)
(* callbacks, thread creations and frames, and queues of any capacity: a   *)
(* replaced callback is not executed, and the thread object is not reused  *)
(* while a thread runs in it.                                              *)
(***************************************************************************)
EXTENDS Iso14229Server, TLAPS

LEMMA InitInv == Init => CallbacksOK
<1> SUFFICES ASSUME Init PROVE CallbacksOK
  OBVIOUS
<1> USE ServerAssumption
<1>1. /\ msgq \in [Links -> Seq(Nat)] /\ delivered \in [Links -> Seq(Nat)]
      /\ \A l \in Links : Len(msgq[l]) <= Capacity
  <2>1. <<>> \in Seq(Nat) /\ Len(<<>>) = 0
    OBVIOUS
  <2>2. /\ msgq \in [Links -> Seq(Nat)] /\ delivered \in [Links -> Seq(Nat)]
        /\ \A l \in Links : msgq[l] = <<>>
    BY <2>1 DEF Init
  <2> QED BY <2>1, <2>2
<1>2. /\ pc \in [Clients -> ClientPlaces]
      /\ target \in [Clients -> 0 .. MaxStarts]
  BY DEF Init, ClientPlaces
<1>3. /\ thread_running \in BOOLEAN /\ thread_stop_requested \in BOOLEAN
      /\ created = 0 /\ frames = 0 /\ server = "none"
      /\ thread_mutex = Nobody /\ callback_mutex = Nobody
      /\ event_callback = NoCallback /\ executing = NoCallback
  BY DEF Init
<1>4. TypeOK
  BY <1>1, <1>2, <1>3 DEF TypeOK, ServerPlaces
<1>5. MutexesHeld
  BY <1>3 DEF Init, MutexesHeld
<1> QED BY <1>3, <1>4, <1>5 DEF CallbacksOK, ThreadMarked, NoStaleCallback

(* Who creates a thread holds thread_mutex, so nobody else is about to     *)
(* mark one, and has found none marked: there is none.                     *)
LEMMA CreatesIfNone ==
  ASSUME CallbacksOK, NEW c \in Clients, pc[c] = "start", ~thread_running
  PROVE  server = "none"
<1>1. thread_mutex = c
  BY DEF CallbacksOK, MutexesHeld
<1>2. \A d \in Clients : pc[d] # "start_created"
  BY <1>1 DEF CallbacksOK, MutexesHeld
<1> QED BY <1>2 DEF CallbacksOK, ThreadMarked

(* The steps of the clients that hold, take or give thread_mutex.          *)
LEMMA LifecycleStep ==
  ASSUME CallbacksOK, NEW c \in Clients,
         \/ \E op \in {"start", "stop"} : LockThread(c, op)
         \/ Start(c) \/ Started(c) \/ Stop(c) \/ Join(c)
  PROVE  CallbacksOK'
<1> USE ServerAssumption
    DEF CallbacksOK, TypeOK, Goto, callback, rx, lifecycle
<1>1. UNCHANGED <<callback, rx>>
  BY DEF LockThread, Start, Started, Stop, Join
<1>2. TypeOK'
  <2>1. \E label \in ClientPlaces : pc' = [pc EXCEPT ![c] = label]
    BY DEF LockThread, Start, Started, Stop, Join, ClientPlaces
  <2>2. pc' \in [Clients -> ClientPlaces]
    BY <2>1
  <2>3. target' \in [Clients -> 0 .. MaxStarts]
    BY DEF LockThread, Start, Started, Stop, Join
  <2>4. created' \in 0 .. MaxStarts /\ server' \in ServerPlaces
    BY DEF LockThread, Start, CreateThread, Started, Stop, Join, ServerPlaces
  <2>5. /\ thread_running' \in BOOLEAN /\ thread_stop_requested' \in BOOLEAN
        /\ thread_mutex' \in Clients \cup {Nobody}
    BY DEF LockThread, Start, Started, Stop, Join
  <2> QED BY <1>1, <2>2, <2>3, <2>4, <2>5
<1>3. MutexesHeld'
  <2>1. CASE \E op \in {"start", "stop"} : LockThread(c, op)
    BY <1>1, <2>1 DEF LockThread, MutexesHeld
  <2>2. CASE Start(c)
    <3>1. /\ pc[c] = "start" /\ thread_mutex = c
          /\ (server' = "callback") <=> (server = "callback")
      BY <2>2, CreatesIfNone DEF Start, CreateThread, MutexesHeld
    <3>2. \/ pc' = [pc EXCEPT ![c] = "idle"] /\ thread_mutex' = Nobody
          \/ pc' = [pc EXCEPT ![c] = "start_created"] /\ UNCHANGED thread_mutex
      BY <2>2 DEF Start
    <3> QED BY <1>1, <3>1, <3>2 DEF MutexesHeld
  <2>3. CASE Started(c) \/ Stop(c) \/ Join(c)
    BY <1>1, <2>3 DEF Started, Stop, Join, MutexesHeld
  <2> QED BY <2>1, <2>2, <2>3
<1>4. ThreadMarked'
  BY <1>1 DEF LockThread, Start, CreateThread, Started, Stop, Join, ThreadMarked
<1>5. NoStaleCallback'
  BY <1>1
  DEF LockThread, Start, CreateThread, Started, Stop, Join, NoStaleCallback
<1> QED BY <1>2, <1>3, <1>4, <1>5

(* set_callback holds callback_mutex while it stores the callback, so the  *)
(* server is not in it.                                                    *)
LEMMA SetCallbackStep ==
  ASSUME CallbacksOK, NEW c \in Clients, SetCallback(c) \/ StoreCallback(c)
  PROVE  CallbacksOK'
<1> USE ServerAssumption
    DEF CallbacksOK, TypeOK, Goto, rx, lifecycle, SetCallback, StoreCallback
<1>1. TypeOK'
  BY DEF ClientPlaces
<1>2. MutexesHeld'
  BY DEF MutexesHeld
<1>3. ThreadMarked'
  BY DEF ThreadMarked
<1>4. NoStaleCallback'
  BY DEF NoStaleCallback, MutexesHeld
<1> QED BY <1>1, <1>2, <1>3, <1>4

(* Frames are put into a queue that has room and taken from its head.      *)
LEMMA FrameStep ==
  ASSUME CallbacksOK, NEW link \in Links, Put(link) \/ Drain(link)
  PROVE  CallbacksOK'
<1> USE ServerAssumption DEF CallbacksOK, TypeOK, lifecycle, callback
<1>1. CASE Put(link)
  <2>1. /\ msgq' \in [Links -> Seq(Nat)]
        /\ \A l \in Links : Len(msgq'[l]) <= Capacity
    BY <1>1 DEF Put
  <2> QED BY <1>1, <2>1 DEF Put, MutexesHeld, ThreadMarked, NoStaleCallback
<1>2. CASE Drain(link)
  <2>1. /\ msgq' \in [Links -> Seq(Nat)] /\ delivered' \in [Links -> Seq(Nat)]
        /\ \A l \in Links : Len(msgq'[l]) <= Capacity
    <3>1. CASE msgq[link] # <<>>
      <4>1. /\ msgq' = [msgq EXCEPT ![link] = Tail(msgq[link])]
            /\ delivered' = [delivered EXCEPT
                                ![link] = Append(delivered[link], Head(msgq[link]))]
        BY <1>2, <3>1 DEF Drain
      <4>2. /\ Tail(msgq[link]) \in Seq(Nat) /\ Head(msgq[link]) \in Nat
            /\ Len(Tail(msgq[link])) <= Capacity
            /\ Append(delivered[link], Head(msgq[link])) \in Seq(Nat)
        BY <3>1
      <4> QED BY <4>1, <4>2
    <3>2. CASE msgq[link] = <<>>
      BY <1>2, <3>2 DEF Drain
    <3> QED BY <3>1, <3>2
  <2>2. server \in Links /\ server' \in {"phys", "func", "poll"}
    BY <1>2 DEF Drain, Links
  <2> QED
    BY <1>2, <2>1, <2>2
    DEF Drain, MutexesHeld, ThreadMarked, NoStaleCallback, Links, ServerPlaces
<1> QED BY <1>1, <1>2

LEMMA LoopStep ==
  ASSUME CallbacksOK, CheckStop \/ Poll \/ CallbackBegin \/ CallbackEnd \/ Exit
  PROVE  CallbacksOK'
<1> USE ServerAssumption DEF CallbacksOK, TypeOK, lifecycle, callback, rx
<1>1. CASE CheckStop \/ Poll
  BY <1>1
  DEF CheckStop, Poll, MutexesHeld, ThreadMarked, NoStaleCallback, ServerPlaces
<1>2. CASE CallbackBegin
  BY <1>2
  DEF CallbackBegin, MutexesHeld, ThreadMarked, NoStaleCallback, ServerPlaces
<1>3. CASE CallbackEnd
  BY <1>3
  DEF CallbackEnd, MutexesHeld, ThreadMarked, NoStaleCallback, ServerPlaces
<1>4. CASE Exit
  BY <1>4
  DEF Exit, MutexesHeld, ThreadMarked, NoStaleCallback, ServerPlaces,
      ClientPlaces
<1> QED BY <1>1, <1>2, <1>3, <1>4

LEMMA NextInv == CallbacksOK /\ [Next]_vars => CallbacksOK'
<1> SUFFICES ASSUME CallbacksOK, [Next]_vars PROVE CallbacksOK'
  OBVIOUS
<1>1. CASE ServerStep
  BY <1>1, FrameStep, LoopStep DEF ServerStep
<1>2. CASE (\E link \in Links : can_rx_cb(link)) \/ InjectFrame
  BY <1>2, FrameStep DEF can_rx_cb, InjectFrame, Links
<1>3. ASSUME NEW c \in Clients,
             \/ \E op \in {"start", "stop"} : LockThread(c, op)
             \/ SetCallback(c) \/ ClientStep(c)
      PROVE  CallbacksOK'
  BY <1>3, LifecycleStep, SetCallbackStep DEF ClientStep
<1>4. CASE UNCHANGED vars
  BY <1>4
  DEF vars, lifecycle, callback, rx, CallbacksOK, TypeOK, MutexesHeld,
      ThreadMarked, NoStaleCallback
<1> QED BY <1>1, <1>2, <1>3, <1>4 DEF Next

(* Whatever application threads start, stop and replace concurrently, the  *)
(* queues keep their bounds, each mutex is held where its critical         *)
(* sections are, and a callback that set_callback has replaced is not      *)
(* being executed.                                                         *)
THEOREM CallbacksAreSafe == Spec => []CallbacksOK
<1> QED BY InitInv, NextInv, PTL DEF Spec

(* k_thread_create is called only when no thread runs in the thread        *)
(* object: its creator holds thread_mutex and has found thread_running     *)
(* unset, and the thread unsets it as the last thing it does.              *)
THEOREM ThreadObjectNotReused == Spec => NoThreadReused
<1>1. ASSUME CallbacksOK, [Next]_vars
      PROVE  [created' # created => server = "none"]_vars
  <2>1. ASSUME NEW c \in Clients, Start(c), created' # created
        PROVE  server = "none"
    BY <1>1, <2>1, CreatesIfNone DEF Start
  <2> QED
    BY <1>1, <2>1
    DEF Next, ServerStep, ClientStep, LockThread, Started, Stop, Join,
        SetCallback, StoreCallback, Put, can_rx_cb, InjectFrame, CheckStop,
        Drain, Poll, CallbackBegin, CallbackEnd, Exit, lifecycle, vars
<1> QED BY <1>1, CallbacksAreSafe, PTL DEF Spec, NoThreadReused
=============================================================================
