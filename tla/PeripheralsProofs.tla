-------------------------- MODULE PeripheralsProofs --------------------------
(***************************************************************************)
(* Proofs about the drivers of MCPeripherals, each on its own: for every   *)
(* number of threads, pins, calls and faults, and without the bounds that  *)
(* keep a behaviour of the model checker to one driver.                    *)
(***************************************************************************)
EXTENDS PowerIoShield, HvShield, CanLog, SequenceTheorems, TLAPS

-----------------------------------------------------------------------------
(* The CAN log backend.                                                    *)

LogSpec == LogInit /\ [][LogNext]_logVars

LogCallbacks == {"give", "no wait"}

LogTypeOK ==
  /\ can_tx_sem \in 0 .. 1
  /\ logThread \in [at : {"idle", "line out", "send", "wait"}, left : Nat]
  /\ inFlight \in Seq(LogCallbacks)
  /\ debt \in Nat

(* The semaphore counts as a frame: a callback that comes while the thread *)
(* is between the reset and the end of its wait has given it for a frame   *)
(* that is no longer in flight.  The frame that was just sent is the one   *)
(* more that a waiting thread may have.                                    *)
LogBalance ==
  ~panic_mode =>
    /\ logThread.at \in {"idle", "line out"} => Len(inFlight) <= debt
    /\ logThread.at = "send" => Len(inFlight) + can_tx_sem <= debt
    /\ logThread.at = "wait" => Len(inFlight) + can_tx_sem <= debt + 1

LogInv == LogTypeOK /\ LogBalance

LEMMA LogInitInv == LogInit => LogInv
<1> SUFFICES ASSUME LogInit PROVE LogInv
  OBVIOUS
<1>1. inFlight = <<>> /\ inFlight \in Seq(LogCallbacks) /\ Len(inFlight) = 0
  BY DEF LogInit
<1>2. can_tx_sem = 0 /\ debt = 0 /\ logThread = [at |-> "idle", left |-> 0]
  BY DEF LogInit
<1> QED BY <1>1, <1>2 DEF LogInv, LogTypeOK, LogBalance

LEMMA LogSentNat ==
  ASSUME NEW left \in Nat
  PROVE  /\ Sent(left) \in Nat
         /\ Continue(Sent(left)) \in [at : {"idle", "line out"}, left : Nat]
         /\ Continue(0) \in [at : {"idle", "line out"}, left : Nat]
BY CanLogAssumption DEF Sent, Continue

(* can_send adds at most one frame.                                        *)
LEMMA CanSendGrows ==
  ASSUME inFlight \in Seq(LogCallbacks), NEW cb \in LogCallbacks, CanSend(cb)
  PROVE  /\ inFlight' \in Seq(LogCallbacks)
         /\ Len(inFlight') <= Len(inFlight) + 1
<1>1. CASE inFlight' = Append(inFlight, cb)
  BY <1>1
<1>2. CASE UNCHANGED inFlight
  BY <1>2
<1> QED BY <1>1, <1>2 DEF CanSend

LEMMA LogNextInv == LogInv /\ [LogNext]_logVars => LogInv'
<1> SUFFICES ASSUME LogTypeOK, LogBalance, [LogNext]_logVars PROVE LogTypeOK' /\ LogBalance'
  BY DEF LogInv
<1>a. can_tx_sem \in 0 .. 1 /\ inFlight \in Seq(LogCallbacks) /\ debt \in Nat
  BY DEF LogTypeOK
<1>b. Len(inFlight) \in Nat
  BY <1>a
<1>c. logThread.left \in Nat
  BY DEF LogTypeOK
<1>0. /\ can_tx_sem \in 0 .. 1 /\ inFlight \in Seq(LogCallbacks) /\ Len(inFlight) \in Nat
      /\ debt \in Nat /\ logThread.left \in Nat
  BY <1>a, <1>b, <1>c
<1>1. CASE can_log_process
  <2>1. PICK n \in LogLengths : logThread' = [at |-> "line out", left |-> n]
    BY <1>1 DEF can_log_process
  <2>2. n \in Nat
    BY CanLogAssumption
  <2>3. LogTypeOK'
    BY <1>0, <1>1, <2>1, <2>2 DEF can_log_process, LogTypeOK
  <2>4. logThread.at = "idle" /\ UNCHANGED <<panic_mode, inFlight, debt>>
    BY <1>1 DEF can_log_process
  <2> QED BY <2>1, <2>3, <2>4 DEF LogBalance
<1>2. CASE can_log_line_out
  <2>1. logThread.at = "line out" /\ UNCHANGED panic_mode
    BY <1>2 DEF can_log_line_out
  <2>2. debt' \in Nat /\ debt' = (IF inFlight = <<>> THEN 0 ELSE debt)
    BY <1>0, <1>2 DEF can_log_line_out
  <2>3. ~panic_mode => Len(inFlight) <= debt'
    <3>1. CASE inFlight = <<>>
      BY <2>2, <3>1
    <3>2. CASE inFlight # <<>>
      BY <2>1, <2>2, <3>2 DEF LogBalance
    <3> QED BY <3>1, <3>2
  <2>4. CASE ~can_log_is_ready
    <3>1. logThread' = Continue(0) /\ UNCHANGED <<can_tx_sem, inFlight>>
      BY <1>2, <2>4 DEF can_log_line_out
    <3>2. logThread' \in [at : {"idle", "line out"}, left : Nat]
      BY <3>1, LogSentNat
    <3> QED BY <1>0, <2>1, <2>2, <2>3, <3>1, <3>2 DEF LogTypeOK, LogBalance
  <2>5. CASE can_log_is_ready /\ panic_mode
    <3>1. CanSend("no wait") /\ logThread' = Continue(Sent(logThread.left))
            /\ UNCHANGED can_tx_sem
      BY <1>2, <2>5 DEF can_log_line_out
    <3>2. logThread' \in [at : {"idle", "line out"}, left : Nat]
      BY <1>0, <3>1, LogSentNat
    <3>3. inFlight' \in Seq(LogCallbacks)
      BY <1>0, <3>1, CanSendGrows DEF LogCallbacks
    <3>4. panic_mode'
      BY <2>1, <2>5
    <3> QED BY <1>0, <2>2, <3>1, <3>2, <3>3, <3>4 DEF LogTypeOK, LogBalance
  <2>6. CASE can_log_is_ready /\ ~panic_mode
    <3>1. can_tx_sem' = 0 /\ UNCHANGED inFlight
      BY <1>2, <2>6 DEF can_log_line_out
    <3>2. logThread' = [at |-> "send", left |-> logThread.left]
      BY <1>2, <2>6 DEF can_log_line_out, LogTypeOK
    <3>3. LogTypeOK'
      <4>1. can_tx_sem' \in 0 .. 1 /\ debt' \in Nat
        BY <2>2, <3>1
      <4>2. logThread' \in [at : {"idle", "line out", "send", "wait"}, left : Nat]
        BY <1>c, <3>2
      <4> QED BY <1>a, <3>1, <4>1, <4>2 DEF LogTypeOK
    <3>4. Len(inFlight) <= debt'
      BY <2>3, <2>6
    <3>5. Len(inFlight') + can_tx_sem' <= debt'
      <4>1. can_tx_sem' = 0
        BY <3>1
      <4>2. Len(inFlight') = Len(inFlight)
        BY <3>1
      <4>3. debt' \in Nat
        BY <2>2
      <4> QED BY <1>b, <3>4, <4>1, <4>2, <4>3
    <3>6. logThread'.at = "send"
      BY <3>2
    <3> QED BY <3>3, <3>5, <3>6 DEF LogBalance
  <2> QED BY <2>4, <2>5, <2>6
<1>3. CASE LogSend
  <2>1. logThread.at = "send" /\ CanSend("give") /\ UNCHANGED <<can_tx_sem, panic_mode, debt>>
    BY <1>3 DEF LogSend
  <2>2. inFlight' \in Seq(LogCallbacks) /\ Len(inFlight') <= Len(inFlight) + 1
    BY <1>0, <2>1, CanSendGrows DEF LogCallbacks
  <2>3. logThread' = [at |-> "wait", left |-> logThread.left]
    BY <1>3 DEF LogSend, LogTypeOK
  <2>4. Len(inFlight') \in Nat
    BY <2>2
  <2>5. ~panic_mode => Len(inFlight) + can_tx_sem <= debt
    BY <2>1 DEF LogBalance
  <2>6. LogTypeOK'
    BY <1>0, <2>1, <2>2, <2>3 DEF LogTypeOK
  <2>7. ~panic_mode => Len(inFlight') + can_tx_sem' <= debt' + 1
    BY <1>0, <2>1, <2>2, <2>4, <2>5
  <2> QED BY <2>1, <2>3, <2>6, <2>7 DEF LogBalance
<1>4. CASE LogWait
  <2>1. logThread.at = "wait" /\ UNCHANGED <<panic_mode, inFlight>>
    BY <1>4 DEF LogWait
  <2>2. logThread' \in [at : {"idle", "line out"}, left : Nat]
    BY <1>0, <1>4, LogSentNat DEF LogWait
  <2>3. ~panic_mode => Len(inFlight) + can_tx_sem <= debt + 1
    BY <2>1 DEF LogBalance
  <2>4. \/ can_tx_sem = 1 /\ can_tx_sem' = 0 /\ debt' = debt
        \/ can_tx_sem = 0 /\ can_tx_sem' = 0 /\ debt' = debt + 1
    BY <1>4 DEF LogWait
  <2>a. can_tx_sem' \in 0 .. 1 /\ debt' \in Nat
    BY <1>0, <2>4
  <2>5. LogTypeOK'
    BY <1>a, <2>1, <2>2, <2>a DEF LogTypeOK
  <2>6. ~panic_mode => Len(inFlight') <= debt'
    <3> SUFFICES ASSUME ~panic_mode PROVE Len(inFlight') <= debt'
      OBVIOUS
    <3>1. Len(inFlight) + can_tx_sem <= debt + 1
      BY <2>3
    <3> QED BY <1>0, <2>1, <2>4, <3>1
  <2>7. logThread'.at \in {"idle", "line out"}
    BY <2>2
  <2> QED BY <2>1, <2>5, <2>6, <2>7 DEF LogBalance
<1>5. CASE can_log_tx_cb
  <2>1. /\ inFlight' \in Seq(LogCallbacks)
        /\ Len(inFlight') = Len(inFlight) - 1
    BY <1>a, <1>5 DEF can_log_tx_cb
  <2>2. can_tx_sem' \in 0 .. 1 /\ can_tx_sem' <= can_tx_sem + 1
    BY <1>0, <1>5 DEF can_log_tx_cb
  <2>3. UNCHANGED <<panic_mode, logThread, debt>>
    BY <1>5 DEF can_log_tx_cb
  <2>4. LogTypeOK'
    BY <1>0, <2>1, <2>2, <2>3 DEF LogTypeOK
  <2>5. /\ Len(inFlight') <= Len(inFlight)
        /\ Len(inFlight') + can_tx_sem' <= Len(inFlight) + can_tx_sem
        /\ Len(inFlight') \in Int
    BY <1>0, <2>1, <2>2
  <2>6. ASSUME NEW b \in Int, Len(inFlight) <= b PROVE Len(inFlight') <= b
    BY <1>0, <2>5, <2>6
  <2>7. ASSUME NEW b \in Int, Len(inFlight) + can_tx_sem <= b
        PROVE  Len(inFlight') + can_tx_sem' <= b
    BY <1>0, <2>2, <2>5, <2>7
  <2>8. debt \in Int /\ debt + 1 \in Int
    BY <1>0
  <2>9. LogBalance'
    BY <2>3, <2>6, <2>7, <2>8 DEF LogBalance
  <2> QED BY <2>4, <2>9
<1>6. CASE can_log_panic
  BY <1>6 DEF can_log_panic, LogTypeOK, LogBalance
<1>7. CASE CanStateChanges
  BY <1>7 DEF CanStateChanges, LogTypeOK, LogBalance
<1>8. CASE UNCHANGED logVars
  BY <1>8 DEF logVars, LogTypeOK, LogBalance
<1> QED BY <1>1, <1>2, <1>3, <1>4, <1>5, <1>6, <1>7, <1>8 DEF LogNext

(* The log backend does not run ahead of the bus (can_log_line_out): with  *)
(* any number of mailboxes and messages, and however late the transmit     *)
(* callbacks come, the controller holds between two frames at most as many *)
(* log frames as waits have timed out.                                     *)
THEOREM LogIsPaced == LogSpec => []LogPaced
<1>1. LogInv => LogPaced
  BY DEF LogInv, LogBalance, LogPaced
<1> QED BY <1>1, LogInitInv, LogNextInv, PTL DEF LogSpec
-----------------------------------------------------------------------------
(* The high-voltage shield.                                                *)

HvSpec == HvInit /\ [][HvNext]_hvVars

(* The two reversals of _hv_shield_update and of the bits on the wire      *)
(* cancel out: every bit ends in the stage of its number.                  *)
LEMMA ShiftedIsCopy ==
  ASSUME NEW raw, raw \subseteq 0 .. 39
  PROVE  Shifted(raw) = raw
<1>1. \A k \in 0 .. 39 : SpiBit(k) = 39 - k
  BY DEF SpiBit
<1>2. Shifted(raw) = {39 - k : k \in {j \in 0 .. 39 : (39 - j) \in raw}}
  BY <1>1 DEF Shifted
<1>3. ASSUME NEW b \in raw PROVE b \in Shifted(raw)
  <2>1. b \in 0 .. 39 /\ (39 - b) \in 0 .. 39 /\ 39 - (39 - b) = b
    OBVIOUS
  <2> QED BY <1>2, <2>1
<1>4. ASSUME NEW b \in Shifted(raw) PROVE b \in raw
  BY <1>2
<1> QED BY <1>3, <1>4

HvBits == 0 .. 39

HvDirectionBits == 0 .. 31

(* Targets have bits of their own, inside one member of the struct, and    *)
(* they are the stages that show them.                                     *)
LEMMA HvFields ==
  /\ \A k \in HvTargets : /\ Stages(k) = Field(k) /\ Field(k) \subseteq Word(k)
                          /\ Word(k) \subseteq HvBits /\ (k < 32 <=> k \in HvPins)
                          /\ k \in HvPins => Field(k) \subseteq HvDirectionBits /\ Field(k) # {}
                          /\ k \notin HvPins => Field(k) \intersect HvDirectionBits = {}
  /\ \A j, k \in HvTargets : j # k => Field(j) \intersect Field(k) = {}
<1>1. \A p \in 0 .. 31 : /\ Field(p) = {DirectionBit(p)} /\ Word(p) = 0 .. 31
                         /\ DirectionBit(p) \in 0 .. 31
                         /\ Stages(p) = {DirectionBit(p)}
  BY DEF Stages, Field, Word, DirectionBit
<1>2. \A p, q \in 0 .. 31 : DirectionBit(p) = DirectionBit(q) => p = q
  BY DEF DirectionBit
<1>3. /\ Field(32) = 32 .. 35 /\ Field(33) = 36 .. 39 /\ Stages(32) = 32 .. 35
      /\ Stages(33) = 36 .. 39 /\ Word(32) = 32 .. 39 /\ Word(33) = 32 .. 39
  BY DEF Field, Stages, Word
<1>4. \A k \in HvTargets : (k \in HvPins /\ k \in 0 .. 31) \/ (k \notin HvPins /\ k \in {32, 33})
  BY HvAssumption DEF HvTargets
<1>5. ASSUME NEW k \in HvTargets
      PROVE  /\ Stages(k) = Field(k) /\ Field(k) \subseteq Word(k)
             /\ Word(k) \subseteq HvBits /\ (k < 32 <=> k \in HvPins)
             /\ k \in HvPins => Field(k) \subseteq HvDirectionBits /\ Field(k) # {}
             /\ k \notin HvPins => Field(k) \intersect HvDirectionBits = {}
  <2>1. CASE k \in HvPins /\ k \in 0 .. 31
    <3>1. PICK b \in 0 .. 31 : Field(k) = {b} /\ Stages(k) = {b} /\ Word(k) = 0 .. 31
      BY <1>1, <2>1
    <3>2. k < 32 /\ 0 .. 31 \subseteq 0 .. 39
      BY <2>1
    <3> QED BY <2>1, <3>1, <3>2 DEF HvBits, HvDirectionBits
  <2>2. CASE k \notin HvPins /\ k \in {32, 33}
    BY <1>3, <2>2 DEF HvBits, HvDirectionBits
  <2> QED BY <1>4, <2>1, <2>2
<1>6. ASSUME NEW j \in HvTargets, NEW k \in HvTargets, j # k
      PROVE  Field(j) \intersect Field(k) = {}
  <2>1. CASE j \in 0 .. 31 /\ k \in 0 .. 31
    BY <1>1, <1>2, <1>6, <2>1
  <2>a. \A i \in {32, 33} : Field(i) \subseteq 32 .. 39
    BY <1>3
  <2>b. \A i \in 0 .. 31 : Field(i) \subseteq 0 .. 31
    BY <1>1
  <2>2. CASE j \in 0 .. 31 /\ k \in {32, 33}
    BY <2>a, <2>b, <2>2
  <2>3. CASE j \in {32, 33} /\ k \in 0 .. 31
    BY <2>a, <2>b, <2>3
  <2>4. CASE j \in {32, 33} /\ k \in {32, 33}
    BY <1>3, <1>6, <2>4
  <2> QED BY <1>4, <2>1, <2>2, <2>3, <2>4
<1> QED BY <1>5, <1>6

LEMMA HvGainBits ==
  ASSUME NEW dac \in 0 .. 1, NEW raw \in SupportedGains
  PROVE  /\ GainBits(dac, raw) \subseteq Field(Dac(dac))
         /\ Dac(dac) \in HvTargets /\ Dac(dac) \notin HvPins
<1>1. hvs_dac_convert_gain(raw) \subseteq 0 .. 3
  BY DEF SupportedGains, hvs_dac_convert_gain
<1>2. Dac(dac) \in {32, 33} /\ Field(Dac(dac)) = 32 + 4 * dac .. 35 + 4 * dac
  BY DEF Dac, Field
<1>3. GainBits(dac, raw) \subseteq Field(Dac(dac))
  BY <1>1, <1>2 DEF GainBits
<1> QED BY <1>2, <1>3, HvAssumption DEF HvTargets

HvCalling == [at : {"load", "store", "copy", "spi", "maps"}, target : HvTargets,
              value : SUBSET HvBits, new : SUBSET HvBits, left : 0 .. 5]

(* A call sets bits of its target; bytes are left while it copies, and     *)
(* only calls for IOs come to the maps.                                    *)
HvCallOK(r) ==
  /\ r \in HvCalling
  /\ r.value \subseteq Field(r.target)
  /\ r.target \in HvPins => r.value \in {{}, Field(r.target)}
  /\ r.at \in {"load", "store"} => r.left = 5
  /\ r.at = "copy" => r.left \in 1 .. 5
  /\ r.at = "maps" => r.target \in HvPins

HvTypeOK ==
  /\ registers \in SUBSET HvBits
  /\ hvCall \in [HvThreads -> {hvIdle} \union HvCalling]
  /\ \A t \in HvThreads : hvCall[t] # hvIdle => HvCallOK(hvCall[t])
  /\ hvBounds \in [calls : Nat, faults : Nat]
  /\ settings \in [HvTargets -> SUBSET (SUBSET HvBits)]
  /\ outputs \in SUBSET HvPins

(* The label tells a call in progress.                                     *)
LEMMA HvLabels ==
  ASSUME HvTypeOK, NEW t \in HvThreads
  PROVE  /\ hvCall[t] = hvIdle <=> hvCall[t].at = "idle"
         /\ hvCall[t].at # "idle" => HvCallOK(hvCall[t])
<1>1. hvIdle.at = "idle"
  BY DEF hvIdle
<1>2. CASE hvCall[t] = hvIdle
  BY <1>1, <1>2
<1>3. CASE hvCall[t] # hvIdle
  <2>1. HvCallOK(hvCall[t])
    BY <1>3 DEF HvTypeOK
  <2>2. hvCall[t].at # "idle"
    BY <2>1 DEF HvCallOK, HvCalling
  <2> QED BY <1>3, <2>1, <2>2
<1> QED BY <1>2, <1>3

LEMMA HvGoto ==
  ASSUME HvTypeOK, NEW t \in HvThreads, NEW rec, hvGoto(t, rec), rec = hvIdle \/ HvCallOK(rec)
  PROVE  /\ hvCall'[t] = rec
         /\ \A u \in HvThreads : u # t => hvCall'[u] = hvCall[u]
         /\ hvCall' \in [HvThreads -> {hvIdle} \union HvCalling]
         /\ \A u \in HvThreads : hvCall'[u] # hvIdle => HvCallOK(hvCall'[u])
<1> DEFINE R == {hvIdle} \union HvCalling
<1>1. hvCall \in [HvThreads -> R] /\ rec \in R
  BY DEF HvTypeOK, HvCallOK
<1>2. \A u \in HvThreads : hvCall[u] # hvIdle => HvCallOK(hvCall[u])
  BY DEF HvTypeOK
<1> HIDE DEF R
<1>3. hvCall' = [hvCall EXCEPT ![t] = rec]
  BY DEF hvGoto
<1>4. /\ hvCall' \in [HvThreads -> R] /\ hvCall'[t] = rec
      /\ \A u \in HvThreads : u # t => hvCall'[u] = hvCall[u]
  BY <1>1, <1>3
<1>5. ASSUME NEW u \in HvThreads, hvCall'[u] # hvIdle PROVE HvCallOK(hvCall'[u])
  <2>1. CASE u = t
    BY <1>4, <1>5, <2>1
  <2>2. CASE u # t
    BY <1>2, <1>4, <1>5, <2>2
  <2> QED BY <2>1, <2>2
<1> QED BY <1>4, <1>5 DEF R

LEMMA HvResults ==
  ASSUME NEW o \in Results
  PROVE  o.ok \in BOOLEAN /\ o.effect \in BOOLEAN /\ (o.ok => o.effect)
BY DEF Results

LEMMA HvCount ==
  ASSUME HvTypeOK, NEW o \in Results, CountFault(o)
  PROVE  hvBounds' \in [calls : Nat, faults : Nat]
<1>1. CASE o.ok
  BY <1>1 DEF CountFault, HvTypeOK
<1>2. CASE ~o.ok
  <2>1. hvBounds' = [hvBounds EXCEPT !.faults = @ + 1]
    BY <1>2 DEF CountFault
  <2> QED BY <2>1 DEF HvTypeOK
<1> QED BY <1>1, <1>2

(* The value is in the settings of its target afterwards, an old one too   *)
(* if the call failed, and those of the other targets stay.                *)
LEMMA HvSetting ==
  ASSUME HvTypeOK, NEW k \in HvTargets, NEW value \in SUBSET HvBits, NEW ok \in BOOLEAN,
         Setting(k, value, ok)
  PROVE  /\ settings' \in [HvTargets -> SUBSET (SUBSET HvBits)]
         /\ value \in settings'[k]
         /\ ~ok => settings[k] \subseteq settings'[k]
         /\ \A j \in HvTargets : j # k => settings'[j] = settings[j]
<1> DEFINE new == {value} \union (IF ok THEN {} ELSE settings[k])
<1>1. settings \in [HvTargets -> SUBSET (SUBSET HvBits)]
  BY DEF HvTypeOK
<1>2. settings' = [settings EXCEPT ![k] = new]
  BY DEF Setting
<1>3. settings[k] \in SUBSET (SUBSET HvBits)
  BY <1>1
<1>4. new \in SUBSET (SUBSET HvBits) /\ value \in new /\ (~ok => settings[k] \subseteq new)
  BY <1>3
<1> HIDE DEF new
<1>5. /\ settings' \in [HvTargets -> SUBSET (SUBSET HvBits)] /\ settings'[k] = new
      /\ \A j \in HvTargets : j # k => settings'[j] = settings[j]
  BY <1>1, <1>2, <1>4
<1> QED BY <1>4, <1>5

(* The thread steps, field by field.                                       *)
HvOthers(t) == \A u \in HvThreads : u # t => hvCall'[u] = hvCall[u]

HvSame(t) ==
  hvCall'[t].target = hvCall[t].target /\ hvCall'[t].value = hvCall[t].value

HvCallsOK ==
  /\ hvCall \in [HvThreads -> {hvIdle} \union HvCalling]
  /\ \A t \in HvThreads : hvCall[t] # hvIdle => HvCallOK(hvCall[t])

LEMMA HvLoadStep ==
  ASSUME HvTypeOK, NEW t \in HvThreads, LoadRegisters(t)
  PROVE  /\ hvCall[t].at = "load" /\ HvCallOK(hvCall[t])
         /\ hvCall'[t].at = "store" /\ HvSame(t)
         /\ hvCall'[t].new = ((registers \intersect Word(hvCall[t].target))
                                \ Field(hvCall[t].target)) \union hvCall[t].value
         /\ HvOthers(t) /\ HvCallsOK'
         /\ UNCHANGED <<registers, stages, oe, boot, output_map, lv, hvBounds, settings,
                        overlapped, outputs>>
<1> DEFINE r == hvCall[t]
           new == ((registers \intersect Word(r.target)) \ Field(r.target)) \union r.value
           rec == [r EXCEPT !.at = "store", !.new = new]
<1>1. r.at = "load" /\ HvCallOK(r)
  BY HvLabels DEF LoadRegisters, hvAt
<1>2. new \in SUBSET HvBits
  BY <1>1 DEF HvTypeOK, HvCallOK, HvCalling
<1>3. hvGoto(t, rec)
  BY DEF LoadRegisters
<1> HIDE DEF new
<1>4. HvCallOK(rec)
  BY <1>1, <1>2 DEF HvCallOK, HvCalling
<1>7. rec.at = "store" /\ rec.target = r.target /\ rec.value = r.value /\ rec.new = new
  BY <1>1, <1>2 DEF HvCallOK, HvCalling
<1> HIDE DEF rec
<1>5. hvCall'[t] = rec /\ HvOthers(t) /\ HvCallsOK'
  BY <1>3, <1>4, HvGoto DEF HvOthers, HvCallsOK
<1>6. UNCHANGED <<registers, stages, oe, boot, output_map, lv, hvBounds, settings,
                  overlapped, outputs>>
  BY DEF LoadRegisters
<1> QED BY <1>1, <1>5, <1>6, <1>7 DEF new, HvSame

LEMMA HvStoreStep ==
  ASSUME HvTypeOK, NEW t \in HvThreads, StoreRegisters(t)
  PROVE  /\ hvCall[t].at = "store" /\ HvCallOK(hvCall[t])
         /\ registers' = (registers \ Word(hvCall[t].target)) \union hvCall[t].new
         /\ registers' \in SUBSET HvBits
         /\ hvCall'[t].at = "copy" /\ HvSame(t) /\ hvCall'[t].new = {} /\ hvCall'[t].left = 5
         /\ HvOthers(t) /\ HvCallsOK'
         /\ UNCHANGED <<stages, oe, boot, output_map, lv, hvBounds, settings, overlapped,
                        outputs>>
<1> DEFINE rec == [hvCall[t] EXCEPT !.at = "copy", !.new = {}]
<1>1. hvCall[t].at = "store" /\ HvCallOK(hvCall[t])
  BY HvLabels DEF StoreRegisters, hvAt
<1>a. hvGoto(t, rec)
  BY DEF StoreRegisters
<1>b. HvCallOK(rec)
  <2>1. /\ hvCall[t] \in HvCalling /\ hvCall[t].left = 5
        /\ hvCall[t].value \subseteq Field(hvCall[t].target)
        /\ hvCall[t].target \in HvPins => hvCall[t].value \in {{}, Field(hvCall[t].target)}
    BY <1>1 DEF HvCallOK
  <2>2. /\ rec \in HvCalling /\ rec.at = "copy" /\ rec.target = hvCall[t].target
        /\ rec.value = hvCall[t].value /\ rec.left = hvCall[t].left
    BY <2>1 DEF HvCalling
  <2> HIDE DEF rec
  <2> QED BY <2>1, <2>2 DEF HvCallOK
<1>2. hvGoto(t, rec) /\ HvCallOK(rec)
  BY <1>a, <1>b
<1>c. /\ rec.at = "copy" /\ rec.target = hvCall[t].target /\ rec.value = hvCall[t].value
      /\ rec.new = {} /\ rec.left = 5
  BY <1>1 DEF HvCallOK, HvCalling
<1> HIDE DEF rec
<1>3. hvCall'[t] = rec /\ HvOthers(t) /\ HvCallsOK'
  BY <1>2, HvGoto DEF HvOthers, HvCallsOK
<1>4. /\ registers' = (registers \ Word(hvCall[t].target)) \union hvCall[t].new
      /\ UNCHANGED <<stages, oe, boot, output_map, lv, hvBounds, settings, overlapped,
                     outputs>>
  BY DEF StoreRegisters
<1>5. registers' \in SUBSET HvBits
  BY <1>1, <1>4 DEF HvTypeOK, HvCallOK, HvCalling
<1> QED BY <1>1, <1>3, <1>4, <1>5, <1>c DEF HvSame

HvByte(left) == 8 * (left - 1) .. 8 * left - 1

LEMMA HvCopyStep ==
  ASSUME HvTypeOK, NEW t \in HvThreads, CopyByte(t)
  PROVE  /\ hvCall[t].at = "copy" /\ HvCallOK(hvCall[t])
         /\ HvSame(t) /\ hvCall'[t].left = hvCall[t].left - 1
         /\ hvCall'[t].at = (IF hvCall[t].left = 1 THEN "spi" ELSE "copy")
         /\ hvCall'[t].new = hvCall[t].new \union (registers \intersect HvByte(hvCall[t].left))
         /\ HvOthers(t) /\ HvCallsOK'
         /\ UNCHANGED <<registers, stages, oe, boot, output_map, lv, hvBounds, settings,
                        overlapped, outputs>>
<1> DEFINE r == hvCall[t]
           new == r.new \union (registers \intersect HvByte(r.left))
           rec == [r EXCEPT !.new = new, !.left = r.left - 1,
                            !.at = IF r.left = 1 THEN "spi" ELSE "copy"]
<1>1. r.at = "copy" /\ HvCallOK(r)
  BY HvLabels DEF CopyByte, hvAt
<1>2. new \in SUBSET HvBits
  BY <1>1 DEF HvTypeOK, HvCallOK, HvCalling
<1>3. hvGoto(t, rec)
  BY DEF CopyByte, HvByte
<1> HIDE DEF new
<1>4. HvCallOK(rec)
  <2>1. /\ r \in HvCalling /\ r.value \subseteq Field(r.target) /\ r.left \in 1 .. 5
        /\ r.target \in HvPins => r.value \in {{}, Field(r.target)}
    BY <1>1 DEF HvCallOK
  <2> DEFINE at == IF r.left = 1 THEN "spi" ELSE "copy"
             left == r.left - 1
  <2>2. at \in {"spi", "copy"} /\ left \in 0 .. 5 /\ (at = "copy" => left \in 1 .. 5)
    BY <2>1
  <2>3. rec = [r EXCEPT !.new = new, !.left = left, !.at = at]
    OBVIOUS
  <2> HIDE DEF at, left, rec
  <2>4. /\ rec \in HvCalling /\ rec.at = at /\ rec.target = r.target
        /\ rec.value = r.value /\ rec.left = left
    BY <1>2, <2>1, <2>2, <2>3 DEF HvCalling
  <2> QED BY <2>1, <2>2, <2>4 DEF HvCallOK
<1>7. /\ rec.at = (IF r.left = 1 THEN "spi" ELSE "copy") /\ rec.target = r.target
      /\ rec.value = r.value /\ rec.new = new /\ rec.left = r.left - 1
  BY <1>1 DEF HvCallOK, HvCalling
<1> HIDE DEF rec
<1>5. hvCall'[t] = rec /\ HvOthers(t) /\ HvCallsOK'
  BY <1>3, <1>4, HvGoto DEF HvOthers, HvCallsOK
<1>6. UNCHANGED <<registers, stages, oe, boot, output_map, lv, hvBounds, settings,
                  overlapped, outputs>>
  BY DEF CopyByte
<1> QED BY <1>1, <1>5, <1>6, <1>7 DEF new, HvSame

LEMMA HvSpiStep ==
  ASSUME HvTypeOK, NEW t \in HvThreads, SpiWrite(t)
  PROVE  /\ hvCall[t].at = "spi" /\ HvCallOK(hvCall[t])
         /\ hvBounds' \in [calls : Nat, faults : Nat]
         /\ settings' \in [HvTargets -> SUBSET (SUBSET HvBits)]
         /\ hvCall[t].value \in settings'[hvCall[t].target]
         /\ \A j \in HvTargets : j # hvCall[t].target => settings'[j] = settings[j]
         /\ \/ /\ stages' = hvCall[t].new
               /\ IF hvCall[t].target \in HvPins
                  THEN hvCall'[t] = [hvCall[t] EXCEPT !.at = "maps"] ELSE hvCall'[t] = hvIdle
            \/ /\ stages' \in {hvCall[t].new, stages}
               /\ hvCall'[t] = hvIdle
               /\ settings[hvCall[t].target] \subseteq settings'[hvCall[t].target]
         /\ HvOthers(t) /\ HvCallsOK'
         /\ UNCHANGED <<registers, oe, boot, output_map, lv, overlapped, outputs>>
<1> DEFINE r == hvCall[t]
<1>1. /\ r.at = "spi" /\ HvCallOK(r)
      /\ UNCHANGED <<registers, oe, boot, output_map, lv, overlapped, outputs>>
  BY HvLabels DEF SpiWrite, hvAt
<1>2. r.target \in HvTargets /\ r.value \in SUBSET HvBits /\ r.new \subseteq 0 .. 39
  BY <1>1 DEF HvCallOK, HvCalling, HvBits
<1>3. PICK o \in Results :
          /\ CountFault(o)
          /\ stages' = IF o.effect THEN Shifted(r.new) ELSE stages
          /\ Setting(r.target, r.value, o.ok)
          /\ hvGoto(t, IF o.ok /\ r.target < 32 THEN [r EXCEPT !.at = "maps"] ELSE hvIdle)
  BY DEF SpiWrite
<1>4. stages' = IF o.effect THEN r.new ELSE stages
  BY <1>2, <1>3, ShiftedIsCopy
<1>5. /\ settings' \in [HvTargets -> SUBSET (SUBSET HvBits)]
      /\ r.value \in settings'[r.target]
      /\ ~o.ok => settings[r.target] \subseteq settings'[r.target]
      /\ \A j \in HvTargets : j # r.target => settings'[j] = settings[j]
  BY <1>2, <1>3, HvSetting, HvResults
<1>6. hvBounds' \in [calls : Nat, faults : Nat]
  BY <1>3, HvCount
<1>7. r.target < 32 <=> r.target \in HvPins
  BY <1>2, HvFields
<1> DEFINE rec == IF o.ok /\ r.target < 32 THEN [r EXCEPT !.at = "maps"] ELSE hvIdle
<1>8. rec = hvIdle \/ HvCallOK(rec)
  BY <1>1, <1>7 DEF HvCallOK, HvCalling
<1>9. hvGoto(t, rec)
  BY <1>3
<1> HIDE DEF rec
<1>10. hvCall'[t] = rec /\ HvOthers(t) /\ HvCallsOK'
  BY <1>8, <1>9, HvGoto DEF HvOthers, HvCallsOK
<1>11. CASE o.ok
  <2>1. stages' = r.new
    BY <1>4, <1>11, HvResults
  <2>2. IF r.target \in HvPins THEN hvCall'[t] = [r EXCEPT !.at = "maps"] ELSE hvCall'[t] = hvIdle
    BY <1>7, <1>10, <1>11 DEF rec
  <2> QED BY <1>1, <1>5, <1>6, <1>10, <2>1, <2>2
<1>12. CASE ~o.ok
  <2>1. stages' \in {r.new, stages} /\ hvCall'[t] = hvIdle
    BY <1>4, <1>10, <1>12 DEF rec
  <2> QED BY <1>1, <1>5, <1>6, <1>10, <1>12, <2>1
<1> QED BY <1>11, <1>12, HvResults

LEMMA HvMapsStep ==
  ASSUME HvTypeOK, NEW t \in HvThreads, UpdateMaps(t)
  PROVE  /\ hvCall[t].at = "maps" /\ HvCallOK(hvCall[t])
         /\ output_map' = Put(output_map, hvCall[t].target, hvCall[t].value # {})
         /\ hvCall'[t] = hvIdle /\ HvOthers(t) /\ HvCallsOK'
         /\ UNCHANGED <<registers, stages, oe, boot, lv, hvBounds, settings, overlapped,
                        outputs>>
<1>1. hvCall[t].at = "maps" /\ HvCallOK(hvCall[t])
  BY HvLabels DEF UpdateMaps, hvAt
<1>2. hvCall'[t] = hvIdle /\ HvOthers(t) /\ HvCallsOK'
  BY HvGoto DEF UpdateMaps, HvOthers, HvCallsOK
<1>3. /\ output_map' = Put(output_map, hvCall[t].target, hvCall[t].value # {})
      /\ UNCHANGED <<registers, stages, oe, boot, lv, hvBounds, settings, overlapped, outputs>>
  BY DEF UpdateMaps
<1> QED BY <1>1, <1>2, <1>3

HvAskedBits == UNION {Field(p) : p \in outputs}

(* A call begins, or fails at the processor's pin.                         *)
HvStarted(t) ==
  /\ hvCall'[t].at = "load" /\ HvCallOK(hvCall'[t]) /\ hvCall'[t].new = {}
  /\ hvCall'[t].value \intersect HvDirectionBits \subseteq HvAskedBits'
  /\ UNCHANGED settings
  /\ IF hvCall'[t].target \in HvPins
     THEN lv' = Put(lv, hvCall'[t].target, hvCall'[t].value # {}) ELSE UNCHANGED lv

HvRefused(t) ==
  /\ hvCall'[t] = hvIdle
  /\ \E p \in HvPins, out \in BOOLEAN :
       /\ lv' \in {lv, Put(lv, p, out)}
       /\ (IF out THEN Field(p) ELSE {}) \in settings'[p]
       /\ settings[p] \subseteq settings'[p]
       /\ \A j \in HvTargets : j # p => settings'[j] = settings[j]

LEMMA HvUpdateOK ==
  ASSUME NEW k \in HvTargets, NEW value \in SUBSET HvBits, value \subseteq Field(k),
         k \in HvPins => value \in {{}, Field(k)}
  PROVE  /\ HvCallOK(hvUpdate(k, value)) /\ hvUpdate(k, value).at = "load"
         /\ hvUpdate(k, value).new = {} /\ hvUpdate(k, value).value = value
         /\ hvUpdate(k, value).target = k
BY DEF hvUpdate, HvCallOK, HvCalling

LEMMA HvCallStep ==
  ASSUME HvTypeOK, NEW t \in HvThreads, hvs_gpio_pin_configure(t) \/ hv_shield_set_dac_gain(t)
  PROVE  /\ boot = "done" /\ hvCall[t].at = "idle"
         /\ overlapped' = (overlapped \/ Busy)
         /\ HvStarted(t) \/ HvRefused(t)
         /\ outputs \subseteq outputs' /\ outputs' \in SUBSET HvPins
         /\ hvBounds' \in [calls : Nat, faults : Nat]
         /\ settings' \in [HvTargets -> SUBSET (SUBSET HvBits)]
         /\ HvOthers(t) /\ HvCallsOK'
         /\ UNCHANGED <<registers, stages, oe, boot, output_map>>
<1>0. /\ outputs \in SUBSET HvPins /\ hvBounds \in [calls : Nat, faults : Nat]
      /\ settings \in [HvTargets -> SUBSET (SUBSET HvBits)]
  BY DEF HvTypeOK
<1>1. CASE hvs_gpio_pin_configure(t)
  <2>1. PICK p \in HvPins, out \in BOOLEAN, o \in Results :
          LET value == IF out THEN Field(p) ELSE {} IN
          /\ lv' = IF o.effect THEN Put(lv, p, out) ELSE lv
          /\ hvBounds' = [calls |-> hvBounds.calls + 1,
                          faults |-> IF o.ok THEN hvBounds.faults ELSE hvBounds.faults + 1]
          /\ outputs' = IF out THEN outputs \union {p} ELSE outputs
          /\ hvStart(t, IF o.ok THEN hvUpdate(p, value) ELSE hvIdle)
          /\ IF o.ok THEN UNCHANGED settings ELSE Setting(p, value, FALSE)
    BY <1>1, Zenon DEF hvs_gpio_pin_configure
  <2> DEFINE value == IF out THEN Field(p) ELSE {}
             rec == IF o.ok THEN hvUpdate(p, value) ELSE hvIdle
  <2>2. p \in HvTargets /\ Field(p) \subseteq HvBits /\ Field(p) # {}
    BY HvFields DEF HvTargets
  <2>3. value \in SUBSET HvBits /\ value \in {{}, Field(p)} /\ value \subseteq Field(p)
          /\ (out <=> value # {})
    BY <2>2
  <2>4. hvStart(t, rec)
    BY <2>1
  <2>5. IF o.ok THEN UNCHANGED settings ELSE Setting(p, value, FALSE)
    BY <2>1
  <2>6. o.ok \in BOOLEAN /\ o.effect \in BOOLEAN /\ (o.ok => o.effect)
    BY HvResults
  <2>7. outputs \subseteq outputs' /\ outputs' \in SUBSET HvPins /\ (out => p \in outputs')
    BY <1>0, <2>1
  <2>8. hvBounds' \in [calls : Nat, faults : Nat]
    <3>1. CASE o.ok
      BY <1>0, <2>1, <3>1
    <3>2. CASE ~o.ok
      BY <1>0, <2>1, <3>2
    <3> QED BY <3>1, <3>2
  <2>9. UNCHANGED <<registers, stages, oe, boot, output_map>>
    BY <1>1 DEF hvs_gpio_pin_configure
  <2>10. value \subseteq HvAskedBits'
    BY <2>7 DEF HvAskedBits
  <2> HIDE DEF value
  <2>11. rec = hvIdle \/ HvCallOK(rec)
    BY <2>2, <2>3, HvUpdateOK
  <2> HIDE DEF rec
  <2>12. /\ boot = "done" /\ hvCall[t].at = "idle" /\ overlapped' = (overlapped \/ Busy)
         /\ hvGoto(t, rec)
    BY <2>4 DEF hvStart, hvAt
  <2>13. hvCall'[t] = rec /\ HvOthers(t) /\ HvCallsOK'
    BY <2>11, <2>12, HvGoto DEF HvOthers, HvCallsOK
  <2>14. CASE o.ok
    <3>1. rec = hvUpdate(p, value)
      BY <2>14 DEF rec
    <3>2. /\ HvCallOK(hvCall'[t]) /\ hvCall'[t].at = "load" /\ hvCall'[t].new = {}
          /\ hvCall'[t].value = value /\ hvCall'[t].target = p
      BY <2>2, <2>3, <2>13, <3>1, HvUpdateOK
    <3>3. UNCHANGED settings
      BY <2>5, <2>14
    <3>4. lv' = Put(lv, p, value # {})
      BY <2>1, <2>3, <2>6, <2>14 DEF Put
    <3>5. HvStarted(t)
      BY <2>10, <3>2, <3>3, <3>4 DEF HvStarted
    <3> QED BY <1>0, <2>7, <2>8, <2>9, <2>12, <2>13, <3>3, <3>5
  <2>15. CASE ~o.ok
    <3>1. hvCall'[t] = hvIdle
      BY <2>13, <2>15 DEF rec
    <3>2. Setting(p, value, FALSE)
      BY <2>5, <2>15
    <3>3. /\ settings' \in [HvTargets -> SUBSET (SUBSET HvBits)]
          /\ value \in settings'[p] /\ settings[p] \subseteq settings'[p]
          /\ \A j \in HvTargets : j # p => settings'[j] = settings[j]
      BY <2>2, <2>3, <3>2, HvSetting
    <3>4. lv' \in {lv, Put(lv, p, out)}
      BY <2>1
    <3>5. HvRefused(t)
      BY <3>1, <3>3, <3>4 DEF HvRefused, value
    <3> QED BY <2>7, <2>8, <2>9, <2>12, <2>13, <3>3, <3>5
  <2> QED BY <2>14, <2>15
<1>2. CASE hv_shield_set_dac_gain(t)
  <2>1. PICK dac \in 0 .. 1, raw \in HvCallGains :
          hvStart(t, hvUpdate(Dac(dac), GainBits(dac, raw)))
    BY <1>2 DEF hv_shield_set_dac_gain
  <2> DEFINE k == Dac(dac)
             value == GainBits(dac, raw)
             rec == hvUpdate(k, value)
  <2>2. raw \in SupportedGains
    BY HvAssumption DEF SupportedGains
  <2>3. value \subseteq Field(k) /\ k \in HvTargets /\ k \notin HvPins
    BY <2>2, HvGainBits
  <2>4. value \in SUBSET HvBits /\ value \intersect HvDirectionBits = {}
    BY <2>3, HvFields
  <2>5. hvStart(t, rec)
    BY <2>1
  <2>6. hvBounds' \in [calls : Nat, faults : Nat]
    BY <1>0, <1>2 DEF hv_shield_set_dac_gain
  <2>7. UNCHANGED <<registers, stages, oe, boot, output_map, lv, settings, outputs>>
    BY <1>2 DEF hv_shield_set_dac_gain
  <2> HIDE DEF k, value
  <2>8. /\ HvCallOK(rec) /\ rec.at = "load" /\ rec.new = {} /\ rec.value = value
        /\ rec.target = k
    BY <2>3, <2>4, HvUpdateOK
  <2> HIDE DEF rec
  <2>9. /\ boot = "done" /\ hvCall[t].at = "idle" /\ overlapped' = (overlapped \/ Busy)
        /\ hvGoto(t, rec)
    BY <2>5 DEF hvStart, hvAt
  <2>10. hvCall'[t] = rec /\ HvOthers(t) /\ HvCallsOK'
    BY <2>8, <2>9, HvGoto DEF HvOthers, HvCallsOK
  <2>11. HvStarted(t)
    BY <2>3, <2>4, <2>7, <2>8, <2>10 DEF HvStarted
  <2> QED BY <1>0, <2>6, <2>7, <2>9, <2>10, <2>11
<1> QED BY <1>1, <1>2

(* The start, which is over before the first call: the three steps of      *)
(* hv_shield_init, or a gain.                                              *)
HvGainStep(k) ==
  /\ boot \in {"dac 0", "dac 1"} /\ boot' \in {"dac 1", "done"} /\ UNCHANGED oe
  /\ \E value \in SUBSET Field(k) :
       /\ registers' = (registers \ Field(k)) \union value
       /\ value \in settings'[k]
       /\ \A j \in HvTargets : j # k => settings'[j] = settings[j]
       /\ \/ stages' = registers'
          \/ stages' \in {stages, registers'} /\ settings[k] \subseteq settings'[k]

HvInitStep ==
  /\ UNCHANGED settings
  /\ \/ /\ boot = "enable pin" /\ boot' \in {"registers", "dac 0"}
        /\ UNCHANGED <<registers, stages, oe>>
     \/ /\ boot = "registers" /\ boot' \in {"outputs", "dac 0"}
        /\ registers' = {} /\ UNCHANGED oe
        /\ stages' \in {{}, stages} /\ (boot' = "outputs" => stages' = {})
     \/ /\ boot = "outputs" /\ boot' = "dac 0"
        /\ UNCHANGED <<registers, stages>>
     \/ /\ boot \in {"dac 0", "dac 1"} /\ boot' = "done"
        /\ UNCHANGED <<registers, stages, oe>>

LEMMA HvBootStep ==
  ASSUME HvTypeOK, hv_shield_init \/ \E dac \in 0 .. 1 : hv_shield_dac_init(dac)
  PROVE  /\ boot # "done"
         /\ HvInitStep \/ \E k \in HvTargets \ HvPins : HvGainStep(k)
         /\ registers' \in SUBSET HvBits
         /\ hvBounds' \in [calls : Nat, faults : Nat]
         /\ settings' \in [HvTargets -> SUBSET (SUBSET HvBits)]
         /\ UNCHANGED <<output_map, lv, hvCall, overlapped, outputs>>
<1>0. /\ registers \in SUBSET HvBits /\ hvBounds \in [calls : Nat, faults : Nat]
      /\ settings \in [HvTargets -> SUBSET (SUBSET HvBits)]
  BY DEF HvTypeOK
<1>1. CASE hv_shield_init
  <2>1. Shifted({}) = {}
    BY ShiftedIsCopy
  <2>2. PICK o \in Results :
          /\ CountFault(o)
          /\ \/ /\ boot = "enable pin"
                /\ boot' = IF o.ok THEN "registers" ELSE "dac 0"
                /\ UNCHANGED <<registers, stages, oe>>
             \/ /\ boot = "registers"
                /\ registers' = {}
                /\ stages' = IF o.effect THEN Shifted({}) ELSE stages
                /\ boot' = IF o.ok THEN "outputs" ELSE "dac 0"
                /\ UNCHANGED oe
             \/ /\ boot = "outputs"
                /\ oe' = o.effect
                /\ boot' = "dac 0"
                /\ UNCHANGED <<registers, stages>>
    BY <1>1 DEF hv_shield_init
  <2>3. UNCHANGED <<output_map, lv, hvCall, settings, overlapped, outputs>>
    BY <1>1 DEF hv_shield_init
  <2>4. o.ok => o.effect
    BY HvResults
  <2>5. HvInitStep
    BY <2>1, <2>2, <2>3, <2>4 DEF HvInitStep
  <2>6. registers' \in SUBSET HvBits /\ boot # "done"
    BY <1>0, <2>2
  <2> QED BY <1>0, <2>2, <2>3, <2>5, <2>6, HvCount
<1>2. ASSUME NEW dac \in 0 .. 1, hv_shield_dac_init(dac)
      PROVE  /\ boot # "done"
             /\ HvInitStep \/ \E k \in HvTargets \ HvPins : HvGainStep(k)
             /\ registers' \in SUBSET HvBits
             /\ hvBounds' \in [calls : Nat, faults : Nat]
             /\ settings' \in [HvTargets -> SUBSET (SUBSET HvBits)]
             /\ UNCHANGED <<output_map, lv, hvCall, overlapped, outputs>>
  <2>1. /\ boot \in {"dac 0", "dac 1"}
        /\ UNCHANGED <<oe, output_map, lv, hvCall, overlapped, outputs>>
    BY <1>2 DEF hv_shield_dac_init
  <2>2. CASE HvGains[dac] \notin SupportedGains
    <3>1. boot' = "done" /\ UNCHANGED <<registers, stages, hvBounds, settings>>
      BY <1>2, <2>2 DEF hv_shield_dac_init
    <3>2. HvInitStep
      BY <2>1, <3>1 DEF HvInitStep
    <3> QED BY <1>0, <2>1, <3>1, <3>2
  <2>3. CASE HvGains[dac] \in SupportedGains
    <3> DEFINE k == Dac(dac)
               value == GainBits(dac, HvGains[dac])
    <3>1. value \subseteq Field(k) /\ k \in HvTargets /\ k \notin HvPins
      BY <2>3, HvGainBits
    <3>2. Field(k) \subseteq HvBits
      BY <3>1, HvFields
    <3>3. PICK o \in Results :
            /\ CountFault(o)
            /\ stages' = IF o.effect THEN Shifted(registers') ELSE stages
            /\ Setting(k, value, o.ok)
            /\ boot' = IF o.ok /\ dac = 0 THEN "dac 1" ELSE "done"
      BY <1>2, <2>3 DEF hv_shield_dac_init
    <3>4. registers' = (registers \ Field(k)) \union value
      BY <1>2, <2>3 DEF hv_shield_dac_init
    <3> HIDE DEF k, value
    <3>5. registers' \in SUBSET HvBits
      BY <1>0, <3>1, <3>2, <3>4
    <3>6. Shifted(registers') = registers'
      BY <3>5, ShiftedIsCopy DEF HvBits
    <3>7. /\ settings' \in [HvTargets -> SUBSET (SUBSET HvBits)]
          /\ value \in settings'[k]
          /\ ~o.ok => settings[k] \subseteq settings'[k]
          /\ \A j \in HvTargets : j # k => settings'[j] = settings[j]
      BY <3>1, <3>2, <3>3, HvSetting, HvResults
    <3>8. \/ stages' = registers'
          \/ stages' \in {stages, registers'} /\ settings[k] \subseteq settings'[k]
      BY <3>3, <3>6, <3>7, HvResults
    <3>9. boot' \in {"dac 1", "done"}
      BY <3>3
    <3>10. HvGainStep(k)
      BY <2>1, <3>1, <3>4, <3>7, <3>8, <3>9 DEF HvGainStep
    <3> QED BY <2>1, <3>1, <3>3, <3>5, <3>7, <3>10, HvCount
  <2> QED BY <2>2, <2>3
<1> QED BY <1>1, <1>2

LEMMA HvNextType == HvTypeOK /\ [HvNext]_hvVars => HvTypeOK'
<1> SUFFICES ASSUME HvTypeOK, [HvNext]_hvVars PROVE HvTypeOK'
  OBVIOUS
<1>0. HvCallsOK
  BY DEF HvTypeOK, HvCallsOK
<1>1. CASE hv_shield_init \/ \E dac \in 0 .. 1 : hv_shield_dac_init(dac)
  <2>1. UNCHANGED <<hvCall, outputs>>
    BY <1>1, HvBootStep
  <2>2. HvCallsOK'
    BY <1>0, <2>1 DEF HvCallsOK
  <2> QED BY <1>1, <2>1, <2>2, HvBootStep DEF HvTypeOK, HvCallsOK
<1>2. ASSUME NEW t \in HvThreads, hvs_gpio_pin_configure(t) \/ hv_shield_set_dac_gain(t)
      PROVE  HvTypeOK'
  BY <1>2, HvCallStep DEF HvTypeOK, HvCallsOK
<1>3. ASSUME NEW t \in HvThreads, LoadRegisters(t) PROVE HvTypeOK'
  BY <1>3, HvLoadStep DEF HvTypeOK, HvCallsOK
<1>4. ASSUME NEW t \in HvThreads, StoreRegisters(t) PROVE HvTypeOK'
  BY <1>4, HvStoreStep DEF HvTypeOK, HvCallsOK
<1>5. ASSUME NEW t \in HvThreads, CopyByte(t) PROVE HvTypeOK'
  BY <1>5, HvCopyStep DEF HvTypeOK, HvCallsOK
<1>6. ASSUME NEW t \in HvThreads, SpiWrite(t) PROVE HvTypeOK'
  BY <1>6, HvSpiStep DEF HvTypeOK, HvCallsOK
<1>7. ASSUME NEW t \in HvThreads, UpdateMaps(t) PROVE HvTypeOK'
  BY <1>7, HvMapsStep DEF HvTypeOK, HvCallsOK
<1>8. CASE UNCHANGED hvVars
  BY <1>8 DEF hvVars, HvTypeOK
<1> QED BY <1>1, <1>2, <1>3, <1>4, <1>5, <1>6, <1>7, <1>8 DEF HvNext

(* Only IOs that some call wanted to be outputs are ever driven: the copy, *)
(* what every call in progress wants or took from it, and the shift        *)
(* registers from the moment their outputs may be enabled.                 *)
HvWants(t) == hvCall[t].value \union hvCall[t].new

HvOnlyAsked ==
  /\ registers \intersect HvDirectionBits \subseteq HvAskedBits
  /\ oe \/ boot = "outputs" => stages \intersect HvDirectionBits \subseteq HvAskedBits
  /\ \A t \in HvThreads : hvCall[t].at # "idle" =>
       HvWants(t) \intersect HvDirectionBits \subseteq HvAskedBits

(* A step of a thread that drives no IO nobody asked for.                  *)
LEMMA HvOnlyAskedStep ==
  ASSUME HvTypeOK, HvOnlyAsked, NEW t \in HvThreads, HvOthers(t),
         outputs \subseteq outputs', UNCHANGED <<oe, boot>>,
         registers' \subseteq registers \union HvWants(t) \/ registers' = registers,
         hvCall[t].at # "idle" \/ (registers' = registers /\ stages' = stages),
         stages' \subseteq stages \/ stages' \subseteq HvWants(t),
         hvCall'[t].at # "idle" =>
           HvWants(t)' \intersect HvDirectionBits \subseteq HvAskedBits'
  PROVE  HvOnlyAsked'
<1>1. HvAskedBits \subseteq HvAskedBits'
  BY DEF HvAskedBits
<1>2. hvCall[t].at # "idle" => HvWants(t) \intersect HvDirectionBits \subseteq HvAskedBits
  BY DEF HvOnlyAsked
<1>3. registers' \intersect HvDirectionBits \subseteq HvAskedBits'
  BY <1>1, <1>2 DEF HvOnlyAsked
<1>4. oe' \/ boot' = "outputs" => stages' \intersect HvDirectionBits \subseteq HvAskedBits'
  BY <1>1, <1>2 DEF HvOnlyAsked
<1>5. ASSUME NEW u \in HvThreads, hvCall'[u].at # "idle"
      PROVE  HvWants(u)' \intersect HvDirectionBits \subseteq HvAskedBits'
  <2>1. CASE u = t
    BY <1>5, <2>1
  <2>2. CASE u # t
    <3>1. hvCall'[u] = hvCall[u]
      BY <2>2 DEF HvOthers
    <3>2. HvWants(u)' = HvWants(u)
      BY <3>1 DEF HvWants
    <3> QED BY <1>1, <1>5, <3>1, <3>2 DEF HvOnlyAsked
  <2> QED BY <2>1, <2>2
<1> QED BY <1>3, <1>4, <1>5 DEF HvOnlyAsked

LEMMA HvOnlyAskedNext == HvTypeOK /\ HvOnlyAsked /\ [HvNext]_hvVars => HvOnlyAsked'
<1> SUFFICES ASSUME HvTypeOK, HvOnlyAsked, [HvNext]_hvVars PROVE HvOnlyAsked'
  OBVIOUS
<1>0. hvIdle.at = "idle"
  BY DEF hvIdle
<1>1. CASE hv_shield_init \/ \E dac \in 0 .. 1 : hv_shield_dac_init(dac)
  <2>1. UNCHANGED <<hvCall, outputs>> /\ HvAskedBits' = HvAskedBits
    BY <1>1, HvBootStep DEF HvAskedBits
  <2>2. /\ registers' \intersect HvDirectionBits \subseteq HvAskedBits
        /\ oe' \/ boot' = "outputs" => stages' \intersect HvDirectionBits \subseteq HvAskedBits
    <3>1. CASE HvInitStep
      <4>1. registers' \subseteq registers
        BY <3>1 DEF HvInitStep
      <4>2. CASE boot = "outputs"
        BY <3>1, <4>1, <4>2 DEF HvInitStep, HvOnlyAsked
      <4>3. CASE boot # "outputs"
        <5>1. UNCHANGED oe /\ stages' \in {{}, stages} /\ (boot' = "outputs" => stages' = {})
          BY <3>1, <4>3 DEF HvInitStep
        <5> QED BY <4>1, <5>1 DEF HvOnlyAsked
      <4> QED BY <4>2, <4>3
    <3>2. ASSUME NEW k \in HvTargets \ HvPins, HvGainStep(k)
          PROVE  /\ registers' \intersect HvDirectionBits \subseteq HvAskedBits
                 /\ oe' \/ boot' = "outputs" =>
                      stages' \intersect HvDirectionBits \subseteq HvAskedBits
      <4>1. Field(k) \intersect HvDirectionBits = {}
        BY HvFields
      <4>2. PICK value \in SUBSET Field(k) :
              /\ registers' = (registers \ Field(k)) \union value
              /\ stages' \in {stages, registers'}
        BY <3>2 DEF HvGainStep
      <4>3. UNCHANGED oe /\ boot' # "outputs"
        BY <3>2 DEF HvGainStep
      <4>4. registers' \intersect HvDirectionBits \subseteq registers \intersect HvDirectionBits
        BY <4>1, <4>2
      <4>5. registers' \intersect HvDirectionBits \subseteq HvAskedBits
        BY <4>4 DEF HvOnlyAsked
      <4> QED BY <4>2, <4>3, <4>5 DEF HvOnlyAsked
    <3> QED BY <1>1, <3>1, <3>2, HvBootStep
  <2>3. \A t \in HvThreads : HvWants(t)' = HvWants(t)
    BY <2>1 DEF HvWants
  <2> QED BY <2>1, <2>2, <2>3 DEF HvOnlyAsked
<1>2. ASSUME NEW t \in HvThreads, hvs_gpio_pin_configure(t) \/ hv_shield_set_dac_gain(t)
      PROVE  HvOnlyAsked'
  <2>1. hvCall'[t].at # "idle" => HvWants(t)' \intersect HvDirectionBits \subseteq HvAskedBits'
    BY <1>0, <1>2, HvCallStep DEF HvStarted, HvRefused, HvWants
  <2> QED BY <1>2, <2>1, HvCallStep, HvOnlyAskedStep
<1>3. ASSUME NEW t \in HvThreads, LoadRegisters(t) PROVE HvOnlyAsked'
  <2>1. hvCall[t].at = "load" /\ hvCall[t] \in HvCalling
    BY <1>3, HvLoadStep DEF HvCallOK
  <2>2. HvWants(t)' \subseteq HvWants(t) \union registers
    <3>1. hvCall'[t].value = hvCall[t].value
            /\ hvCall'[t].new \subseteq registers \union hvCall[t].value
      BY <1>3, HvLoadStep DEF HvSame
    <3> QED BY <3>1 DEF HvWants
  <2>3. HvAskedBits' = HvAskedBits
    BY <1>3, HvLoadStep DEF HvAskedBits
  <2>4. HvWants(t)' \intersect HvDirectionBits \subseteq HvAskedBits'
    BY <2>1, <2>2, <2>3 DEF HvOnlyAsked
  <2> QED BY <1>3, <2>4, HvLoadStep, HvOnlyAskedStep
<1>4. ASSUME NEW t \in HvThreads, StoreRegisters(t) PROVE HvOnlyAsked'
  <2>1. hvCall[t].at = "store" /\ hvCall[t] \in HvCalling
    BY <1>4, HvStoreStep DEF HvCallOK
  <2>2. HvWants(t)' \subseteq HvWants(t)
    BY <1>4, HvStoreStep DEF HvWants, HvSame
  <2>3. HvAskedBits' = HvAskedBits
    BY <1>4, HvStoreStep DEF HvAskedBits
  <2>4. HvWants(t)' \intersect HvDirectionBits \subseteq HvAskedBits'
    BY <2>1, <2>2, <2>3 DEF HvOnlyAsked
  <2>5. registers' \subseteq registers \union HvWants(t)
    BY <1>4, HvStoreStep DEF HvWants
  <2> QED BY <1>4, <2>1, <2>4, <2>5, HvStoreStep, HvOnlyAskedStep
<1>5. ASSUME NEW t \in HvThreads, CopyByte(t) PROVE HvOnlyAsked'
  <2>1. hvCall[t].at = "copy" /\ hvCall[t] \in HvCalling
    BY <1>5, HvCopyStep DEF HvCallOK
  <2>2. HvWants(t)' \subseteq HvWants(t) \union registers
    <3>1. hvCall'[t].value = hvCall[t].value
            /\ hvCall'[t].new \subseteq registers \union hvCall[t].new
      BY <1>5, HvCopyStep DEF HvSame
    <3> QED BY <3>1 DEF HvWants
  <2>3. HvAskedBits' = HvAskedBits
    BY <1>5, HvCopyStep DEF HvAskedBits
  <2>4. HvWants(t)' \intersect HvDirectionBits \subseteq HvAskedBits'
    BY <2>1, <2>2, <2>3 DEF HvOnlyAsked
  <2> QED BY <1>5, <2>1, <2>4, HvCopyStep, HvOnlyAskedStep
<1>6. ASSUME NEW t \in HvThreads, SpiWrite(t) PROVE HvOnlyAsked'
  <2>1. hvCall[t].at = "spi" /\ hvCall[t] \in HvCalling
    BY <1>6, HvSpiStep DEF HvCallOK
  <2>2. hvCall'[t].at # "idle" => HvWants(t)' \subseteq HvWants(t)
    <3>1. hvCall'[t] = hvIdle \/ hvCall'[t] = [hvCall[t] EXCEPT !.at = "maps"]
      BY <1>6, HvSpiStep
    <3>2. hvIdle.at = "idle"
      BY DEF hvIdle
    <3>3. CASE hvCall'[t] = [hvCall[t] EXCEPT !.at = "maps"]
      BY <2>1, <3>3 DEF HvWants, HvCalling
    <3> QED BY <3>1, <3>2, <3>3
  <2>3. HvAskedBits' = HvAskedBits
    BY <1>6, HvSpiStep DEF HvAskedBits
  <2>4. hvCall'[t].at # "idle" =>
          HvWants(t)' \intersect HvDirectionBits \subseteq HvAskedBits'
    BY <2>1, <2>2, <2>3 DEF HvOnlyAsked
  <2>5. stages' \subseteq stages \/ stages' \subseteq HvWants(t)
    BY <1>6, HvSpiStep DEF HvWants
  <2> QED BY <1>6, <2>1, <2>4, <2>5, HvSpiStep, HvOnlyAskedStep
<1>7. ASSUME NEW t \in HvThreads, UpdateMaps(t) PROVE HvOnlyAsked'
  <2>1. hvCall'[t].at = "idle" /\ hvCall[t].at # "idle"
    BY <1>0, <1>7, HvMapsStep
  <2> QED BY <1>7, <2>1, HvMapsStep, HvOnlyAskedStep
<1>8. CASE UNCHANGED hvVars
  <2>1. UNCHANGED <<registers, stages, oe, boot, hvCall, outputs>>
    BY <1>8 DEF hvVars
  <2> QED BY <2>1 DEF HvOnlyAsked, HvAskedBits, HvWants
<1> QED BY <1>1, <1>2, <1>3, <1>4, <1>5, <1>6, <1>7, <1>8 DEF HvNext

(* The value of the target's bits, or of the direction, is a setting.      *)
HvHas(bits, k) == (bits \intersect Field(k)) \in settings[k]

HvShown(ios, p) == (IF p \in ios THEN Field(p) ELSE {}) \in settings[p]

(* How far a call has come: what it computes from the copy is stored, then *)
(* copied from the last byte on, then sent.                                *)
HvProgress(r) ==
  /\ r.at = "store" =>
       r.new = ((registers \intersect Word(r.target)) \ Field(r.target)) \union r.value
  /\ r.at = "copy" => /\ registers \intersect Field(r.target) = r.value
                      /\ r.new = registers \intersect 8 * r.left .. 39
  /\ r.at = "spi" => registers \intersect Field(r.target) = r.value /\ r.new = registers
  /\ r.at = "maps" => r.value \in settings[r.target]
  /\ r.at # "idle" /\ r.target \in HvPins =>
       r.value = IF r.target \in lv THEN Field(r.target) ELSE {}

(* The copy is ahead of the calls that are over until the transfer, the    *)
(* processor's pin until the end, and output_map is behind until then.     *)
HvSettled(k) ==
  /\ boot \in {"enable pin", "registers", "outputs"} => {} \in settings[k]
  /\ \/ HvHas(registers, k)
     \/ \E t \in HvThreads : hvCall[t].at \in {"copy", "spi"} /\ hvCall[t].target = k
  /\ oe \/ boot = "outputs" => HvHas(stages, k)
  /\ k \in HvPins =>
       /\ HvShown(output_map, k)
            \/ \E t \in HvThreads : hvCall[t].at = "maps" /\ hvCall[t].target = k
       /\ HvShown(lv, k)
            \/ \E t \in HvThreads : hvCall[t].at # "idle" /\ hvCall[t].target = k

HvAgree ==
  ~overlapped =>
    /\ boot # "done" => \A t \in HvThreads : hvCall[t].at = "idle"
    /\ \A t, u \in HvThreads : hvCall[t].at # "idle" /\ hvCall[u].at # "idle" => t = u
    /\ \A t \in HvThreads : HvProgress(hvCall[t])
    /\ \A k \in HvTargets : HvSettled(k)

(* The state of the only call in progress.                                 *)
HvAlone(t) == \A u \in HvThreads : u # t => hvCall[u].at = "idle"

LEMMA HvAgreeAlone ==
  ASSUME HvAgree, ~overlapped, NEW t \in HvThreads, hvCall[t].at # "idle"
  PROVE  /\ boot = "done" /\ HvAlone(t) /\ HvProgress(hvCall[t])
         /\ \A k \in HvTargets :
              /\ HvHas(registers, k) \/ (hvCall[t].at \in {"copy", "spi"} /\ hvCall[t].target = k)
              /\ oe => HvHas(stages, k)
              /\ k \in HvPins =>
                   /\ HvShown(output_map, k) \/ (hvCall[t].at = "maps" /\ hvCall[t].target = k)
                   /\ HvShown(lv, k) \/ hvCall[t].target = k
<1>1. boot = "done" /\ HvAlone(t) /\ HvProgress(hvCall[t])
  BY DEF HvAgree, HvAlone
<1>2. ASSUME NEW k \in HvTargets
      PROVE  /\ HvHas(registers, k) \/ (hvCall[t].at \in {"copy", "spi"} /\ hvCall[t].target = k)
             /\ oe => HvHas(stages, k)
             /\ k \in HvPins =>
                  /\ HvShown(output_map, k) \/ (hvCall[t].at = "maps" /\ hvCall[t].target = k)
                  /\ HvShown(lv, k) \/ hvCall[t].target = k
  <2>1. HvSettled(k)
    BY DEF HvAgree
  <2> QED BY <1>1, <2>1 DEF HvSettled, HvAlone
<1> QED BY <1>1, <1>2

(* What is to be shown of a step of the only call.                         *)
LEMMA HvAgreeStep ==
  ASSUME NEW t \in HvThreads, boot' = "done", HvAlone(t), HvOthers(t), HvProgress(hvCall[t])',
         \A k \in HvTargets :
           /\ \/ HvHas(registers, k)'
              \/ hvCall'[t].at \in {"copy", "spi"} /\ hvCall'[t].target = k
           /\ oe' => HvHas(stages, k)'
           /\ k \in HvPins =>
                /\ HvShown(output_map, k)' \/ (hvCall'[t].at = "maps" /\ hvCall'[t].target = k)
                /\ HvShown(lv, k)' \/ (hvCall'[t].at # "idle" /\ hvCall'[t].target = k)
  PROVE  HvAgree'
<1>1. \A u \in HvThreads : u # t => hvCall'[u].at = "idle"
  BY DEF HvAlone, HvOthers
<1>2. \A u, w \in HvThreads : hvCall'[u].at # "idle" /\ hvCall'[w].at # "idle" => u = w
  BY <1>1
<1>3. ASSUME NEW u \in HvThreads PROVE HvProgress(hvCall[u])'
  <2>1. CASE u = t
    BY <2>1
  <2>2. CASE u # t
    BY <1>1, <2>2 DEF HvProgress
  <2> QED BY <2>1, <2>2
<1>4. ASSUME NEW k \in HvTargets PROVE HvSettled(k)'
  BY DEF HvSettled
<1> QED BY <1>2, <1>3, <1>4 DEF HvAgree

(* A value put in the place of a target's bits leaves the other targets.   *)
LEMMA HvReplaced ==
  ASSUME NEW k \in HvTargets, NEW value \in SUBSET Field(k), NEW bits
  PROVE  /\ ((bits \ Field(k)) \union value) \intersect Field(k) = value
         /\ \A j \in HvTargets : j # k =>
              ((bits \ Field(k)) \union value) \intersect Field(j) = bits \intersect Field(j)
<1>1. \A j \in HvTargets : j # k => Field(j) \intersect Field(k) = {}
  BY HvFields
<1> QED BY <1>1

LEMMA HvAgreeBoot ==
  ASSUME HvTypeOK, HvAgree, ~overlapped,
         hv_shield_init \/ \E dac \in 0 .. 1 : hv_shield_dac_init(dac)
  PROVE  HvAgree'
<1>1. boot # "done" /\ UNCHANGED <<output_map, lv, hvCall>>
  BY HvBootStep
<1>2. \A t \in HvThreads : hvCall[t].at = "idle"
  BY <1>1 DEF HvAgree
<1>3. \A t \in HvThreads : HvProgress(hvCall[t])'
  BY <1>1, <1>2 DEF HvProgress
<1>4. ASSUME NEW k \in HvTargets
      PROVE  /\ boot \in {"enable pin", "registers", "outputs"} => {} \in settings[k]
             /\ HvHas(registers, k)
             /\ oe \/ boot = "outputs" => HvHas(stages, k)
             /\ k \in HvPins => HvShown(output_map, k) /\ HvShown(lv, k)
  <2>1. HvSettled(k)
    BY DEF HvAgree
  <2> QED BY <1>2, <2>1 DEF HvSettled
<1>5. ASSUME NEW k \in HvTargets PROVE HvSettled(k)'
  <2>1. CASE HvInitStep
    <3>1. UNCHANGED settings
      BY <2>1 DEF HvInitStep
    <3>2. {} \intersect Field(k) = {}
      OBVIOUS
    <3>3. HvHas(registers, k)'
      BY <1>4, <2>1, <3>1, <3>2 DEF HvInitStep, HvHas
    <3>4. oe' \/ boot' = "outputs" => HvHas(stages, k)'
      BY <1>4, <2>1, <3>1, <3>2 DEF HvInitStep, HvHas
    <3>5. k \in HvPins => HvShown(output_map, k)' /\ HvShown(lv, k)'
      BY <1>1, <1>4, <3>1 DEF HvShown
    <3>6. boot' \in {"enable pin", "registers", "outputs"} => {} \in settings'[k]
      BY <1>4, <2>1, <3>1 DEF HvInitStep
    <3> QED BY <3>3, <3>4, <3>5, <3>6 DEF HvSettled
  <2>2. ASSUME NEW d \in HvTargets \ HvPins, HvGainStep(d) PROVE HvSettled(k)'
    <3>1. PICK value \in SUBSET Field(d) :
            /\ registers' = (registers \ Field(d)) \union value
            /\ value \in settings'[d]
            /\ \A j \in HvTargets : j # d => settings'[j] = settings[j]
            /\ \/ stages' = registers'
               \/ stages' \in {stages, registers'} /\ settings[d] \subseteq settings'[d]
      BY <2>2 DEF HvGainStep
    <3>2. UNCHANGED oe /\ boot \in {"dac 0", "dac 1"} /\ boot' \in {"dac 1", "done"}
      BY <2>2 DEF HvGainStep
    <3>3. HvHas(registers, k)'
      <4>a. /\ registers' \intersect Field(d) = value
            /\ k # d => registers' \intersect Field(k) = registers \intersect Field(k)
        BY <3>1, HvReplaced
      <4>1. CASE k = d
        BY <3>1, <4>a, <4>1 DEF HvHas
      <4>2. CASE k # d
        BY <1>4, <3>1, <4>a, <4>2 DEF HvHas
      <4> QED BY <4>1, <4>2
    <3>4. oe' => HvHas(stages, k)'
      <4>1. CASE stages' = registers'
        BY <3>3, <4>1 DEF HvHas
      <4>2. CASE stages' = stages /\ settings[d] \subseteq settings'[d]
        BY <1>4, <3>1, <3>2, <4>2 DEF HvHas
      <4> QED BY <3>1, <4>1, <4>2
    <3>5. k \in HvPins => HvShown(output_map, k)' /\ HvShown(lv, k)'
      BY <1>1, <1>4, <3>1 DEF HvShown
    <3> QED BY <3>2, <3>3, <3>4, <3>5 DEF HvSettled
  <2> QED BY <2>1, <2>2, HvBootStep
<1> QED BY <1>1, <1>2, <1>3, <1>5 DEF HvAgree

LEMMA HvAgreeCall ==
  ASSUME HvTypeOK, HvAgree, ~overlapped', NEW t \in HvThreads,
         hvs_gpio_pin_configure(t) \/ hv_shield_set_dac_gain(t)
  PROVE  HvAgree'
<1>0. hvIdle.at = "idle"
  BY DEF hvIdle
<1>1. ~overlapped /\ ~Busy /\ boot = "done" /\ boot' = "done" /\ HvOthers(t)
  BY HvCallStep
<1>2. \A u \in HvThreads : hvCall[u].at = "idle"
  BY <1>0, <1>1 DEF Busy
<1>3. UNCHANGED <<registers, stages, oe, output_map>>
  BY HvCallStep
<1>4. ASSUME NEW k \in HvTargets
      PROVE  /\ HvHas(registers, k) /\ (oe => HvHas(stages, k))
             /\ k \in HvPins => HvShown(output_map, k) /\ HvShown(lv, k)
  <2>1. HvSettled(k)
    BY <1>1 DEF HvAgree
  <2> QED BY <1>2, <2>1 DEF HvSettled
<1>5. CASE HvStarted(t)
  <2>1. UNCHANGED settings /\ hvCall'[t].at = "load" /\ HvCallOK(hvCall'[t])
    BY <1>5 DEF HvStarted
  <2>2. hvCall'[t].target \in HvPins =>
          hvCall'[t].value = IF hvCall'[t].target \in lv' THEN Field(hvCall'[t].target) ELSE {}
    <3> SUFFICES ASSUME hvCall'[t].target \in HvPins
                 PROVE  hvCall'[t].value = IF hvCall'[t].target \in lv'
                                           THEN Field(hvCall'[t].target) ELSE {}
      OBVIOUS
    <3>1. hvCall'[t].value \in {{}, Field(hvCall'[t].target)} /\ hvCall'[t].target \in HvTargets
      BY <2>1 DEF HvCallOK, HvCalling
    <3>2. lv' = Put(lv, hvCall'[t].target, hvCall'[t].value # {})
      BY <1>5 DEF HvStarted
    <3>3. Field(hvCall'[t].target) # {}
      BY <3>1, HvFields
    <3> QED BY <3>1, <3>2, <3>3 DEF Put
  <2>3. HvProgress(hvCall[t])'
    BY <2>1, <2>2 DEF HvProgress
  <2>4. \A k \in HvTargets : /\ HvHas(registers, k)' /\ (oe' => HvHas(stages, k)')
                             /\ k \in HvPins => HvShown(output_map, k)'
    BY <1>3, <1>4, <2>1 DEF HvHas, HvShown
  <2>5. \A k \in HvPins : HvShown(lv, k)' \/ hvCall'[t].target = k
    <3> SUFFICES ASSUME NEW k \in HvPins, hvCall'[t].target # k PROVE HvShown(lv, k)'
      OBVIOUS
    <3>1. k \in lv' <=> k \in lv
      BY <1>5 DEF HvStarted, Put
    <3> QED BY <1>4, <2>1, <3>1 DEF HvShown, HvTargets
  <2> QED BY <1>1, <1>2, <2>1, <2>3, <2>4, <2>5, HvAgreeStep DEF HvAlone
<1>6. CASE HvRefused(t)
  <2>1. hvCall'[t].at = "idle"
    BY <1>0, <1>6 DEF HvRefused
  <2>2. PICK p \in HvPins, out \in BOOLEAN :
          /\ lv' \in {lv, Put(lv, p, out)}
          /\ (IF out THEN Field(p) ELSE {}) \in settings'[p]
          /\ settings[p] \subseteq settings'[p]
          /\ \A j \in HvTargets : j # p => settings'[j] = settings[j]
    BY <1>6 DEF HvRefused
  <2>3. \A k \in HvTargets : settings[k] \subseteq settings'[k]
    BY <2>2
  <2>4. HvProgress(hvCall[t])'
    BY <2>1 DEF HvProgress
  <2>5. \A k \in HvTargets : /\ HvHas(registers, k)' /\ (oe' => HvHas(stages, k)')
                             /\ k \in HvPins => HvShown(output_map, k)'
    BY <1>3, <1>4, <2>3 DEF HvHas, HvShown
  <2>6. \A k \in HvPins : HvShown(lv, k)'
    <3> SUFFICES ASSUME NEW k \in HvPins PROVE HvShown(lv, k)'
      OBVIOUS
    <3>0. k \in HvTargets
      BY DEF HvTargets
    <3>1. CASE lv' = lv \/ k # p
      <4>1. k \in lv' <=> k \in lv
        BY <2>2, <3>1 DEF Put
      <4> QED BY <1>4, <2>3, <3>0, <4>1 DEF HvShown
    <3>2. CASE lv' = Put(lv, p, out) /\ k = p
      BY <2>2, <3>2 DEF HvShown, Put
    <3> QED BY <2>2, <3>1, <3>2
  <2> QED BY <1>1, <1>2, <2>4, <2>5, <2>6, HvAgreeStep DEF HvAlone
<1> QED BY <1>5, <1>6, HvCallStep

LEMMA HvAgreeChange ==
  ASSUME HvTypeOK, HvAgree, ~overlapped', NEW t \in HvThreads,
         LoadRegisters(t) \/ StoreRegisters(t) \/ CopyByte(t)
  PROVE  HvAgree'
<1> DEFINE r == hvCall[t]
           k == r.target
<1>1. /\ ~overlapped /\ r.at # "idle" /\ HvCallOK(r) /\ HvOthers(t) /\ HvSame(t)
      /\ UNCHANGED <<stages, oe, boot, output_map, lv, settings>>
  BY HvLoadStep, HvStoreStep, HvCopyStep
<1>2. boot = "done" /\ HvAlone(t) /\ HvProgress(r)
  BY <1>1, HvAgreeAlone
<1>3. /\ k \in HvTargets /\ r.value \in SUBSET Field(k) /\ hvCall'[t].target = k
      /\ hvCall'[t].value = r.value /\ Field(k) \subseteq Word(k) /\ Word(k) \subseteq HvBits
  BY <1>1, HvFields DEF HvCallOK, HvCalling, HvSame
<1>4. k \in HvPins => r.value = IF k \in lv THEN Field(k) ELSE {}
  BY <1>1, <1>2 DEF HvProgress
<1>5. \A j \in HvTargets :
        /\ oe' => HvHas(stages, j)'
        /\ j \in HvPins => HvShown(lv, j)' \/ k = j
  BY <1>1, HvAgreeAlone DEF HvHas, HvShown
<1>6. r.at # "maps" => \A j \in HvPins : HvShown(output_map, j)'
  BY <1>1, HvAgreeAlone DEF HvShown, HvTargets
<1> HIDE DEF k
<1>7. CASE LoadRegisters(t)
  <2>1. /\ r.at = "load" /\ hvCall'[t].at = "store" /\ UNCHANGED registers
        /\ hvCall'[t].new = ((registers \intersect Word(k)) \ Field(k)) \union r.value
    BY <1>7, HvLoadStep DEF k
  <2>2. HvProgress(hvCall[t])'
    BY <1>1, <1>3, <1>4, <2>1 DEF HvProgress
  <2>3. \A j \in HvTargets : HvHas(registers, j)'
    BY <1>1, <2>1, HvAgreeAlone DEF HvHas
  <2> QED BY <1>1, <1>2, <1>3, <1>5, <1>6, <2>1, <2>2, <2>3, HvAgreeStep
<1>8. CASE StoreRegisters(t)
  <2>1. /\ r.at = "store" /\ hvCall'[t].at = "copy"
        /\ hvCall'[t].new = {} /\ hvCall'[t].left = 5
        /\ registers' = (registers \ Word(k)) \union r.new
    BY <1>8, HvStoreStep DEF k
  <2>2. r.new = ((registers \intersect Word(k)) \ Field(k)) \union r.value
    BY <1>2, <2>1 DEF HvProgress, k
  <2>3. registers' = (registers \ Field(k)) \union r.value
    BY <1>3, <2>1, <2>2
  <2>4. /\ registers' \intersect Field(k) = r.value
        /\ \A j \in HvTargets : j # k => registers' \intersect Field(j) = registers \intersect Field(j)
    BY <1>3, <2>3, HvReplaced
  <2>5. 8 * 5 .. 39 = {}
    OBVIOUS
  <2>6. HvProgress(hvCall[t])'
    BY <1>1, <1>3, <1>4, <2>1, <2>4, <2>5 DEF HvProgress
  <2>7. \A j \in HvTargets : HvHas(registers, j)' \/ j = k
    BY <1>1, <2>1, <2>4, HvAgreeAlone DEF HvHas
  <2> QED BY <1>1, <1>2, <1>3, <1>5, <1>6, <2>1, <2>6, <2>7, HvAgreeStep
<1>9. CASE CopyByte(t)
  <2>1. /\ r.at = "copy" /\ UNCHANGED registers
        /\ hvCall'[t].at = (IF r.left = 1 THEN "spi" ELSE "copy")
        /\ hvCall'[t].left = r.left - 1
        /\ hvCall'[t].new = r.new \union (registers \intersect HvByte(r.left))
    BY <1>9, HvCopyStep
  <2>2. registers \intersect Field(k) = r.value /\ r.new = registers \intersect 8 * r.left .. 39
    BY <1>2, <2>1 DEF HvProgress, k
  <2>3. r.left \in 1 .. 5
    BY <1>1, <2>1 DEF HvCallOK
  <2>4. (8 * r.left .. 39) \union HvByte(r.left) = 8 * (r.left - 1) .. 39
    BY <2>3 DEF HvByte
  <2>5. hvCall'[t].new = registers \intersect 8 * hvCall'[t].left .. 39
    BY <2>1, <2>2, <2>4
  <2>6. r.left = 1 => hvCall'[t].new = registers
    <3>1. registers \subseteq 0 .. 39
      BY DEF HvTypeOK, HvBits
    <3>2. r.left = 1 => 8 * hvCall'[t].left .. 39 = 0 .. 39
      BY <2>1
    <3> QED BY <2>5, <3>1, <3>2
  <2>7. HvProgress(hvCall[t])'
    <3>1. CASE r.left = 1
      BY <1>1, <1>3, <1>4, <2>1, <2>2, <2>6, <3>1 DEF HvProgress
    <3>2. CASE r.left # 1
      BY <1>1, <1>3, <1>4, <2>1, <2>2, <2>5, <3>2 DEF HvProgress
    <3> QED BY <3>1, <3>2
  <2>8. \A j \in HvTargets : HvHas(registers, j)' \/ j = k
    BY <1>1, <2>1, HvAgreeAlone DEF HvHas, k
  <2>9. hvCall'[t].at \in {"copy", "spi"}
    BY <2>1
  <2> QED BY <1>1, <1>2, <1>3, <1>5, <1>6, <2>1, <2>7, <2>8, <2>9, HvAgreeStep
<1> QED BY <1>7, <1>8, <1>9

LEMMA HvAgreeSpi ==
  ASSUME HvTypeOK, HvAgree, ~overlapped', NEW t \in HvThreads, SpiWrite(t)
  PROVE  HvAgree'
<1> DEFINE r == hvCall[t]
           k == r.target
<1>0. hvIdle.at = "idle"
  BY DEF hvIdle
<1>1. /\ ~overlapped /\ r.at = "spi" /\ HvCallOK(r) /\ HvOthers(t)
      /\ UNCHANGED <<registers, oe, boot, output_map, lv>>
  BY HvSpiStep
<1>2. boot = "done" /\ HvAlone(t) /\ HvProgress(r)
  BY <1>1, HvAgreeAlone
<1>3. /\ k \in HvTargets /\ registers \intersect Field(k) = r.value /\ r.new = registers
      /\ k \in HvPins => r.value = IF k \in lv THEN Field(k) ELSE {}
  BY <1>1, <1>2 DEF HvCallOK, HvCalling, HvProgress
<1>4. /\ r.value \in settings'[k]
      /\ \A j \in HvTargets : j # k => settings'[j] = settings[j]
  BY HvSpiStep
<1>5. ASSUME NEW j \in HvTargets
      PROVE  /\ HvHas(registers, j) \/ k = j
             /\ oe => HvHas(stages, j)
             /\ j \in HvPins => HvShown(output_map, j) /\ (HvShown(lv, j) \/ k = j)
  BY <1>1, HvAgreeAlone
<1>6. \A j \in HvTargets : HvHas(registers, j)'
  <2> SUFFICES ASSUME NEW j \in HvTargets PROVE HvHas(registers, j)'
    OBVIOUS
  <2>1. CASE j = k
    BY <1>1, <1>3, <1>4, <2>1 DEF HvHas
  <2>2. CASE j # k
    BY <1>1, <1>4, <1>5, <2>2 DEF HvHas
  <2> QED BY <2>1, <2>2
<1>7. \A j \in HvPins : HvShown(lv, j)' /\ (j # k => HvShown(output_map, j)')
  <2> SUFFICES ASSUME NEW j \in HvPins
               PROVE  HvShown(lv, j)' /\ (j # k => HvShown(output_map, j)')
    OBVIOUS
  <2>0. j \in HvTargets
    BY DEF HvTargets
  <2>1. CASE j = k
    BY <1>1, <1>3, <1>4, <2>1 DEF HvShown
  <2>2. CASE j # k
    BY <1>1, <1>4, <1>5, <2>0, <2>2 DEF HvShown
  <2> QED BY <2>1, <2>2
<1> HIDE DEF k
<1>8. CASE stages' = r.new /\ k \in HvPins /\ hvCall'[t] = [r EXCEPT !.at = "maps"]
  <2>1. hvCall'[t].at = "maps" /\ hvCall'[t].target = k /\ hvCall'[t].value = r.value
    BY <1>1, <1>8 DEF HvCallOK, HvCalling, k
  <2>2. HvProgress(hvCall[t])'
    BY <1>1, <1>3, <1>4, <2>1 DEF HvProgress
  <2>3. \A j \in HvTargets : HvHas(stages, j)'
    BY <1>1, <1>3, <1>6, <1>8 DEF HvHas
  <2> QED BY <1>1, <1>2, <1>6, <1>7, <2>1, <2>2, <2>3, HvAgreeStep
<1>9. CASE stages' = r.new /\ k \notin HvPins /\ hvCall'[t] = hvIdle
  <2>1. hvCall'[t].at = "idle"
    BY <1>0, <1>9
  <2>2. HvProgress(hvCall[t])'
    BY <2>1 DEF HvProgress
  <2>3. \A j \in HvTargets : HvHas(stages, j)'
    BY <1>1, <1>3, <1>6, <1>9 DEF HvHas
  <2>4. \A j \in HvPins : HvShown(output_map, j)'
    BY <1>7, <1>9
  <2> QED BY <1>1, <1>2, <1>6, <1>7, <2>2, <2>3, <2>4, HvAgreeStep
<1>10. CASE stages' \in {r.new, stages} /\ hvCall'[t] = hvIdle /\ settings[k] \subseteq settings'[k]
  <2>1. hvCall'[t].at = "idle"
    BY <1>0, <1>10
  <2>2. HvProgress(hvCall[t])'
    BY <2>1 DEF HvProgress
  <2>3. \A j \in HvTargets : settings[j] \subseteq settings'[j]
    BY <1>4, <1>10
  <2>4. \A j \in HvTargets : oe' => HvHas(stages, j)'
    <3>1. CASE stages' = r.new
      BY <1>1, <1>3, <1>6, <3>1 DEF HvHas
    <3>2. CASE stages' = stages
      BY <1>1, <1>5, <2>3, <3>2 DEF HvHas
    <3> QED BY <1>10, <3>1, <3>2
  <2>5. \A j \in HvPins : HvShown(output_map, j)'
    BY <1>1, <1>5, <2>3 DEF HvShown, HvTargets
  <2> QED BY <1>1, <1>2, <1>6, <1>7, <2>2, <2>4, <2>5, HvAgreeStep
<1> QED BY <1>8, <1>9, <1>10, HvSpiStep DEF k

LEMMA HvAgreeMaps ==
  ASSUME HvTypeOK, HvAgree, ~overlapped', NEW t \in HvThreads, UpdateMaps(t)
  PROVE  HvAgree'
<1> DEFINE r == hvCall[t]
           k == r.target
<1>0. hvIdle.at = "idle"
  BY DEF hvIdle
<1>1. /\ ~overlapped /\ r.at = "maps" /\ HvCallOK(r) /\ HvOthers(t) /\ hvCall'[t] = hvIdle
      /\ output_map' = Put(output_map, k, r.value # {})
      /\ UNCHANGED <<registers, stages, oe, boot, lv, settings>>
  BY HvMapsStep
<1>2. boot = "done" /\ HvAlone(t) /\ HvProgress(r) /\ hvCall'[t].at = "idle"
  BY <1>0, <1>1, HvAgreeAlone
<1>3. /\ k \in HvPins /\ r.value \in settings[k] /\ r.value \in {{}, Field(k)}
      /\ r.value = IF k \in lv THEN Field(k) ELSE {}
  BY <1>1, <1>2 DEF HvCallOK, HvProgress
<1>4. ASSUME NEW j \in HvTargets
      PROVE  /\ HvHas(registers, j) /\ (oe => HvHas(stages, j))
             /\ j \in HvPins /\ j # k => HvShown(output_map, j) /\ HvShown(lv, j)
  BY <1>1, HvAgreeAlone
<1>5. \A j \in HvTargets : HvHas(registers, j)' /\ (oe' => HvHas(stages, j)')
  BY <1>1, <1>4 DEF HvHas
<1>6. HvProgress(hvCall[t])'
  BY <1>2 DEF HvProgress
<1>7. \A j \in HvPins : HvShown(output_map, j)' /\ HvShown(lv, j)'
  <2> SUFFICES ASSUME NEW j \in HvPins PROVE HvShown(output_map, j)' /\ HvShown(lv, j)'
    OBVIOUS
  <2>0. j \in HvTargets
    BY DEF HvTargets
  <2>1. CASE j = k
    <3>1. r.value = IF j \in output_map' THEN Field(j) ELSE {}
      BY <1>1, <1>3, <2>1 DEF Put
    <3> QED BY <1>1, <1>3, <2>1, <3>1 DEF HvShown
  <2>2. CASE j # k
    <3>1. j \in output_map' <=> j \in output_map
      BY <1>1, <2>2 DEF Put
    <3> QED BY <1>1, <1>4, <2>0, <2>2, <3>1 DEF HvShown
  <2> QED BY <2>1, <2>2
<1> QED BY <1>1, <1>2, <1>5, <1>6, <1>7, HvAgreeStep

LEMMA HvAgreeNext == HvTypeOK /\ HvAgree /\ [HvNext]_hvVars => HvAgree'
<1> SUFFICES ASSUME HvTypeOK, HvAgree, [HvNext]_hvVars, ~overlapped' PROVE HvAgree'
  BY DEF HvAgree
<1>1. CASE hv_shield_init \/ \E dac \in 0 .. 1 : hv_shield_dac_init(dac)
  BY <1>1, HvBootStep, HvAgreeBoot
<1>2. CASE UNCHANGED hvVars
  <2>1. UNCHANGED <<registers, stages, oe, boot, output_map, lv, hvCall, settings, overlapped>>
    BY <1>2 DEF hvVars
  <2>2. \A t \in HvThreads : HvProgress(hvCall[t])' <=> HvProgress(hvCall[t])
    BY <2>1 DEF HvProgress
  <2>3. \A k \in HvTargets : HvSettled(k)' <=> HvSettled(k)
    BY <2>1 DEF HvSettled, HvHas, HvShown
  <2> QED BY <2>1, <2>2, <2>3 DEF HvAgree
<1> QED BY <1>1, <1>2, HvAgreeCall, HvAgreeChange, HvAgreeSpi, HvAgreeMaps DEF HvNext

HvInv == HvTypeOK /\ HvOnlyAsked /\ HvAgree

LEMMA HvInitInv == HvInit => HvInv
<1> SUFFICES ASSUME HvInit PROVE HvInv
  OBVIOUS
<1>1. /\ registers = {} /\ outputs = {} /\ output_map = {} /\ lv = {} /\ boot = "enable pin"
      /\ ~oe /\ hvBounds \in [calls : Nat, faults : Nat]
  BY DEF HvInit
<1>2. \A t \in HvThreads : hvCall[t] = hvIdle /\ hvCall[t].at = "idle"
  BY DEF HvInit, hvIdle
<1>3. \A k \in HvTargets : {} \in settings[k]
  BY DEF HvInit
<1>4. settings \in [HvTargets -> SUBSET (SUBSET HvBits)]
  BY DEF HvInit
<1>5. hvCall \in [HvThreads -> {hvIdle} \union HvCalling]
  BY DEF HvInit
<1>6. HvTypeOK
  BY <1>1, <1>2, <1>4, <1>5 DEF HvTypeOK
<1>7. HvOnlyAsked
  BY <1>1, <1>2 DEF HvOnlyAsked
<1>8. ASSUME NEW k \in HvTargets PROVE HvSettled(k)
  <2>1. {} \intersect Field(k) = {}
    OBVIOUS
  <2> QED BY <1>1, <1>3, <2>1 DEF HvSettled, HvHas, HvShown
<1>9. HvAgree
  BY <1>2, <1>8 DEF HvAgree, HvProgress
<1> QED BY <1>6, <1>7, <1>9 DEF HvInv

LEMMA HvInvAgrees == HvInv => DirectionsAgree
<1> SUFFICES ASSUME HvInv, oe
             PROVE  /\ stages \intersect 0 .. 31 \subseteq UNION {Stages(p) : p \in outputs}
                    /\ (boot = "done" /\ ~overlapped /\ ~Busy) =>
                         /\ \A k \in HvTargets : stages \intersect Stages(k) \in settings[k]
                         /\ \A p \in HvPins :
                              {Shown(p, output_map), Shown(p, lv)} \subseteq settings[p]
  BY DEF DirectionsAgree
<1>0. (\A k \in HvTargets : Stages(k) = Field(k)) /\ HvPins \subseteq HvTargets
  BY HvFields DEF HvTargets
<1>1. HvAskedBits \subseteq UNION {Stages(p) : p \in outputs}
  BY <1>0 DEF HvAskedBits, HvInv, HvTypeOK
<1>2. stages \intersect 0 .. 31 \subseteq UNION {Stages(p) : p \in outputs}
  BY <1>1 DEF HvInv, HvOnlyAsked, HvDirectionBits
<1>3. ASSUME boot = "done", ~overlapped, ~Busy
      PROVE  /\ \A k \in HvTargets : stages \intersect Stages(k) \in settings[k]
             /\ \A p \in HvPins : {Shown(p, output_map), Shown(p, lv)} \subseteq settings[p]
  <2>1. \A t \in HvThreads : hvCall[t].at = "idle"
    BY <1>3 DEF Busy, hvIdle
  <2>2. \A k \in HvTargets :
          /\ HvHas(stages, k)
          /\ k \in HvPins => HvShown(output_map, k) /\ HvShown(lv, k)
    BY <1>3, <2>1 DEF HvInv, HvAgree, HvSettled
  <2> QED BY <1>0, <2>2 DEF HvHas, HvShown, Shown
<1> QED BY <1>2, <1>3

(* The high-voltage shield (_hv_shield_update, hvs_set_gpio_output_enable, *)
(* hvs_set_dac_gain, hvs_gpio_pin_configure): for any pins, gains, threads *)
(* and faults, and wherever calls interrupt each other, an enabled IO is   *)
(* driven only if a call asked for it, and as long as calls do not overlap *)
(* the shield, the processor's pins, the reported direction and the gains  *)
(* are those that the calls and the device tree asked for.                 *)
THEOREM ShieldDirectionsAgree == HvSpec => []DirectionsAgree
<1>1. HvInv /\ [HvNext]_hvVars => HvInv'
  BY HvNextType, HvOnlyAskedNext, HvAgreeNext DEF HvInv
<1> QED BY <1>1, HvInitInv, HvInvAgrees, PTL DEF HvSpec
-----------------------------------------------------------------------------
(* The power IO shield.                                                    *)

PioSpec == PioInit /\ [][PioNext]_pioVars

PioBits == 0 .. 15

PioChip == [iodir : SUBSET PioBits, olat : SUBSET PioBits, gpinten : SUBSET PioBits,
            intcon : SUBSET PioBits, defval : SUBSET PioBits, intf : SUBSET PioBits,
            intcap : SUBSET PioBits]

PioCache == [gpinten : SUBSET PioBits, intcon : SUBSET PioBits, defval : SUBSET PioBits,
             gpio : SUBSET PioBits]

PioPlain == [at : {"idle", "get", "reading", "write", "DEFVAL", "INTCON", "GPINTEN",
                   "handler", "INTF"}]

PioSetting == [at : {"set", "setting"}, mask : SUBSET PioOutputs,
               value : SUBSET PioOutputs, new : SUBSET PioBits]

PioConfiguring == [at : {"configure", "configuring"}, pin : PioOutputs, high : BOOLEAN]

PioInterrupting == [at : {"interrupt", "updating"}, pin : PioInputs, mode : Modes,
                    trig : Triggers]

PioHandling == [at : {"INTCAP"}, intf : SUBSET PioBits]

PioRecords == PioPlain \union PioSetting \union PioConfiguring \union PioInterrupting
                \union PioHandling

PioItems == {"write", "handler"}

PioTypeOK ==
  /\ chip \in PioChip
  /\ levels \in SUBSET PioBits
  /\ cache \in PioCache
  /\ works \in Seq(PioItems)
  /\ caller \in [PioThreads \union {WorkQueue} -> PioRecords]
  /\ bounds \in [calls : Nat, faults : Nat, edges : Nat]
  /\ asked \in [PioOutputs -> SUBSET BOOLEAN]

(* Outputs and inputs are different bits of the expander, and different    *)
(* outputs are different bits.                                             *)
LEMMA PioPins ==
  /\ \A p \in PioOutputs : Bit(p) \in PioBits /\ Bit(p) \notin InputBits
  /\ \A p \in PioInputs : Bit(p) \in PioBits
  /\ \A p, q \in PioOutputs : Bit(p) = Bit(q) => p = q
<1>1. \A p \in 8 .. 13 : Bit(p) = (p - 8) + 2
  BY DEF Bit, power_io_shield_zephyr_pin_to_gpio_bit
<1>2. \A p \in 0 .. 5 : Bit(p) = p + 8
  BY DEF Bit, power_io_shield_zephyr_pin_to_gpio_bit
<1>3. Bit(16) = 14 /\ Bit(17) = 0 /\ Bit(18) = 1
  BY DEF Bit, power_io_shield_zephyr_pin_to_gpio_bit
<1>4. \A p \in PioOutputs : p \in 8 .. 13
  BY PioAssumption
<1>5. \A p \in PioInputs : p \in 0 .. 5 \/ p \in {16, 17, 18}
  BY PioAssumption
<1>6. \A p \in PioOutputs : Bit(p) \in PioBits /\ Bit(p) \notin InputBits
  BY <1>1, <1>4 DEF PioBits, InputBits
<1>7. \A p \in PioInputs : Bit(p) \in PioBits
  BY <1>2, <1>3, <1>5 DEF PioBits
<1>8. \A p, q \in PioOutputs : Bit(p) = Bit(q) => p = q
  BY <1>1, <1>4
<1> QED BY <1>6, <1>7, <1>8

LEMMA PioInputBits == InputBits \in SUBSET PioBits
BY DEF InputBits, PioBits

(* Interrupts of the expander leave its other registers alone.             *)
LEMMA PioRaise ==
  ASSUME NEW c \in PioChip, NEW pinLevels \in SUBSET PioBits, NEW causes \in SUBSET PioBits
  PROVE  /\ Raise(c, pinLevels, causes) \in PioChip
         /\ Raise(c, pinLevels, causes).olat = c.olat
         /\ Raise(c, pinLevels, causes).gpinten = c.gpinten
         /\ Raise(c, pinLevels, causes).intcon = c.intcon
         /\ Raise(c, pinLevels, causes).defval = c.defval
<1> DEFINE new == {b \in causes : c.intf \intersect Port(b) = {}}
           ports == UNION {Port(b) : b \in new}
           intf == c.intf \union new
           intcap == (c.intcap \ ports) \union (PinValues(c, pinLevels) \intersect ports)
<1>1. new \in SUBSET PioBits /\ ports \in SUBSET PioBits
  BY DEF Port, PioBits
<1>2. Raise(c, pinLevels, causes) = [c EXCEPT !.intf = intf, !.intcap = intcap]
  BY DEF Raise
<1> HIDE DEF new, ports
<1>3. intf \in SUBSET PioBits /\ intcap \in SUBSET PioBits
  BY <1>1 DEF PioChip
<1> HIDE DEF intf, intcap
<1> QED BY <1>2, <1>3 DEF PioChip

LEMMA PioSettle ==
  ASSUME NEW c \in PioChip, NEW pinLevels \in SUBSET PioBits
  PROVE  LET s == Settle(c, pinLevels) IN
         /\ s \in PioChip /\ s.olat = c.olat /\ s.gpinten = c.gpinten
         /\ s.intcon = c.intcon /\ s.defval = c.defval
<1>1. LevelBits(c, pinLevels) \in SUBSET PioBits
  BY DEF LevelBits, PioChip
<1> QED BY <1>1, PioRaise DEF Settle

LEMMA PioCleared ==
  ASSUME NEW c \in PioChip, NEW pinLevels \in SUBSET PioBits
  PROVE  LET s == Cleared(c, pinLevels) IN
         /\ s \in PioChip /\ s.olat = c.olat /\ s.gpinten = c.gpinten
         /\ s.intcon = c.intcon /\ s.defval = c.defval
<1> DEFINE d == [c EXCEPT !.intf = {}]
<1>1. /\ d \in PioChip /\ d.olat = c.olat /\ d.gpinten = c.gpinten
      /\ d.intcon = c.intcon /\ d.defval = c.defval
  BY DEF PioChip
<1>2. Cleared(c, pinLevels) = Settle(d, pinLevels)
  BY DEF Cleared
<1> HIDE DEF d
<1> QED BY <1>1, <1>2, PioSettle

LEMMA PioReconfigured ==
  ASSUME NEW c \in PioChip, NEW pinLevels \in SUBSET PioBits
  PROVE  LET s == Reconfigured(c, pinLevels) IN
         /\ s \in PioChip /\ s.olat = c.olat /\ s.gpinten = c.gpinten
         /\ s.intcon = c.intcon /\ s.defval = c.defval
<1> DEFINE d == [c EXCEPT !.intf = @ \intersect c.gpinten]
<1>1. /\ d \in PioChip /\ d.olat = c.olat /\ d.gpinten = c.gpinten
      /\ d.intcon = c.intcon /\ d.defval = c.defval
  BY DEF PioChip
<1>2. Reconfigured(c, pinLevels) = Settle(d, pinLevels)
  BY DEF Reconfigured
<1> HIDE DEF d
<1> QED BY <1>1, <1>2, PioSettle

(* Work queue items are only added at the end, once.                       *)
LEMMA PioSubmit ==
  ASSUME works \in Seq(PioItems), NEW item \in PioItems, Submit(item)
  PROVE  /\ works' \in Seq(PioItems)
         /\ Range(works') = Range(works) \union {item}
<1>1. CASE item \in Range(works)
  BY <1>1 DEF Submit
<1>2. CASE item \notin Range(works)
  <2>1. works' = Append(works, item)
    BY <1>2 DEF Submit
  <2>2. works' \in Seq(PioItems)
    BY <2>1
  <2>3. Range(works') = Range(works) \union {item}
    BY <2>1 DEF Range
  <2> QED BY <2>2, <2>3
<1> QED BY <1>1, <1>2

LEMMA PioGoto ==
  ASSUME PioTypeOK, NEW t \in PioThreads \union {WorkQueue}, NEW rec, Goto(t, rec)
  PROVE  /\ caller'[t] = rec
         /\ \A u \in PioThreads \union {WorkQueue} : u # t => caller'[u] = caller[u]
         /\ rec \in PioRecords =>
              caller' \in [PioThreads \union {WorkQueue} -> PioRecords]
<1>1. caller \in [PioThreads \union {WorkQueue} -> PioRecords]
  BY DEF PioTypeOK
<1> QED BY <1>1 DEF Goto

LEMMA PioCount ==
  ASSUME PioTypeOK, NEW o \in Outcomes, Count(o)
  PROVE  /\ bounds' \in [calls : Nat, faults : Nat, edges : Nat]
         /\ bounds'.faults = 0 => o.ok /\ o.effect /\ bounds.faults = 0
<1>1. o \in [ok : BOOLEAN, effect : BOOLEAN] /\ (o.ok => o.effect)
  BY DEF Outcomes
<1>2. CASE o.ok
  BY <1>1, <1>2 DEF Count, PioTypeOK
<1>3. CASE ~o.ok
  <2>1. bounds' = [bounds EXCEPT !.faults = @ + 1]
    BY <1>3 DEF Count
  <2>2. bounds' \in [calls : Nat, faults : Nat, edges : Nat] /\ bounds'.faults # 0
    BY <2>1 DEF PioTypeOK
  <2> QED BY <2>2
<1> QED BY <1>2, <1>3

PioCallers == PioThreads \union {WorkQueue}

(* What the label of a call says of its record.                            *)
LEMMA PioLabels ==
  ASSUME PioTypeOK, NEW t \in PioCallers
  PROVE  /\ caller[t] \in PioRecords
         /\ caller[t].at \in {"set", "setting"} => caller[t] \in PioSetting
         /\ caller[t].at \in {"configure", "configuring"} => caller[t] \in PioConfiguring
         /\ caller[t].at \in {"interrupt", "updating"} => caller[t] \in PioInterrupting
         /\ caller[t].at \in {"idle", "get", "reading", "write", "DEFVAL", "INTCON",
                              "GPINTEN", "handler", "INTF"} => caller[t] \in PioPlain
         /\ caller[t].at = "INTCAP" => caller[t] \in PioHandling
<1>1. caller[t] \in PioRecords
  BY DEF PioTypeOK, PioCallers
<1>2. CASE caller[t] \in PioPlain
  BY <1>1, <1>2 DEF PioPlain
<1>3. CASE caller[t] \in PioSetting
  BY <1>1, <1>3 DEF PioSetting
<1>4. CASE caller[t] \in PioConfiguring
  BY <1>1, <1>4 DEF PioConfiguring
<1>5. CASE caller[t] \in PioInterrupting
  BY <1>1, <1>5 DEF PioInterrupting
<1>6. CASE caller[t] \in PioHandling
  BY <1>1, <1>6 DEF PioHandling
<1> QED BY <1>1, <1>2, <1>3, <1>4, <1>5, <1>6 DEF PioRecords

LEMMA PioCallStep ==
  ASSUME PioTypeOK, NEW t \in PioThreads, Call(t)
  PROVE  /\ caller[t].at = "idle" /\ caller'[t] \in PioRecords
         /\ caller'[t].at \in {"get", "set", "configure", "interrupt"}
         /\ caller'[t].at = "set" => caller'[t].value \subseteq caller'[t].mask
         /\ \A u \in PioCallers : u # t => caller'[u] = caller[u]
         /\ bounds'.faults = bounds.faults
         /\ UNCHANGED <<chip, levels, cache, lock, works, asked, retained>>
         /\ PioTypeOK'
<1>1. /\ caller[t].at = "idle"
      /\ UNCHANGED <<chip, levels, cache, lock, works, asked, retained>>
  BY DEF Call, At
<1>2. /\ bounds'.faults = bounds.faults
      /\ bounds' \in [calls : Nat, faults : Nat, edges : Nat]
  BY DEF Call, PioTypeOK
<1>3. PICK rec \in PioRecords :
        /\ Goto(t, rec)
        /\ rec.at \in {"get", "set", "configure", "interrupt"}
        /\ rec.at = "set" => rec.value \subseteq rec.mask
  <2>1. CASE Goto(t, [at |-> "get"])
    BY <2>1 DEF PioRecords, PioPlain
  <2>2. ASSUME NEW mask \in SUBSET PioOutputs, NEW value \in SUBSET mask,
               Goto(t, [at |-> "set", mask |-> mask, value |-> value, new |-> {}])
        PROVE  \E rec \in PioRecords :
                 /\ Goto(t, rec)
                 /\ rec.at \in {"get", "set", "configure", "interrupt"}
                 /\ rec.at = "set" => rec.value \subseteq rec.mask
    <3> DEFINE r == [at |-> "set", mask |-> mask, value |-> value, new |-> {}]
    <3>1. r \in PioSetting
      BY DEF PioSetting
    <3>2. r.at = "set" /\ r.value \subseteq r.mask /\ Goto(t, r)
      BY <2>2
    <3> HIDE DEF r
    <3> QED BY <3>1, <3>2 DEF PioRecords
  <2>3. ASSUME NEW pin \in PioOutputs, NEW flags,
               Goto(t, [at |-> "configure", pin |-> pin, high |-> "high" \in flags])
        PROVE  \E rec \in PioRecords :
                 /\ Goto(t, rec)
                 /\ rec.at \in {"get", "set", "configure", "interrupt"}
                 /\ rec.at = "set" => rec.value \subseteq rec.mask
    <3> DEFINE h == "high" \in flags
               r == [at |-> "configure", pin |-> pin, high |-> h]
    <3>1. h \in BOOLEAN
      OBVIOUS
    <3>2. Goto(t, r)
      BY <2>3
    <3> HIDE DEF h
    <3>3. r \in PioConfiguring /\ r.at = "configure"
      BY <3>1 DEF PioConfiguring
    <3> HIDE DEF r
    <3> QED BY <3>2, <3>3 DEF PioRecords
  <2>4. ASSUME NEW pin \in PioInputs, NEW mode \in Modes, NEW trig \in Triggers,
               Goto(t, [at |-> "interrupt", pin |-> pin, mode |-> mode, trig |-> trig])
        PROVE  \E rec \in PioRecords :
                 /\ Goto(t, rec)
                 /\ rec.at \in {"get", "set", "configure", "interrupt"}
                 /\ rec.at = "set" => rec.value \subseteq rec.mask
    <3> DEFINE r == [at |-> "interrupt", pin |-> pin, mode |-> mode, trig |-> trig]
    <3>1. r \in PioInterrupting /\ r.at = "interrupt" /\ Goto(t, r)
      BY <2>4 DEF PioInterrupting
    <3> HIDE DEF r
    <3> QED BY <3>1 DEF PioRecords
  <2> QED BY <2>1, <2>2, <2>3, <2>4 DEF Call
<1>4. /\ caller'[t] = rec /\ \A u \in PioCallers : u # t => caller'[u] = caller[u]
      /\ caller' \in [PioCallers -> PioRecords]
  BY <1>3, PioGoto DEF PioCallers
<1>5. PioTypeOK'
  BY <1>1, <1>2, <1>4 DEF PioTypeOK, PioCallers
<1> QED BY <1>1, <1>2, <1>3, <1>4, <1>5

LEMMA PioTakeStep ==
  ASSUME PioTypeOK, NEW t \in PioCallers, Take(t)
  PROVE  /\ caller[t].at \in DOMAIN Entered /\ lock = Unlocked /\ lock' = t
         /\ caller'[t].at = Entered[caller[t].at]
         /\ caller[t].at = "set" => /\ caller'[t].mask = caller[t].mask
                                    /\ caller'[t].value = caller[t].value
                                    /\ caller'[t].new = NewGpio(caller[t])
         /\ \A u \in PioCallers : u # t => caller'[u] = caller[u]
         /\ UNCHANGED <<chip, levels, cache, works, bounds, asked, retained>>
         /\ PioTypeOK'
<1>1. /\ caller[t].at \in DOMAIN Entered /\ lock = Unlocked /\ lock' = t /\ Enter(t)
      /\ UNCHANGED <<chip, levels, cache, works, bounds, asked, retained>>
  BY DEF Take
<1>2. caller[t].at \in {"get", "set", "configure", "interrupt", "write", "handler"}
  BY <1>1 DEF Entered
<1>3. CASE caller[t].at = "set"
  <2> DEFINE rec == [caller[t] EXCEPT !.at = "setting", !.new = NewGpio(caller[t])]
  <2>1. caller[t] \in PioSetting
    BY <1>3, PioLabels
  <2>2. NewGpio(caller[t]) \in SUBSET PioBits
    <3>1. \A p \in caller[t].value : p \in PioOutputs
      BY <2>1 DEF PioSetting
    <3>2. {Bit(p) : p \in caller[t].value} \subseteq PioBits
      BY <3>1, PioPins
    <3>3. cache.gpio \in SUBSET PioBits
      BY DEF PioTypeOK, PioCache
    <3> QED BY <3>2, <3>3 DEF NewGpio
  <2>3. /\ rec \in PioSetting /\ rec.at = "setting" /\ rec.mask = caller[t].mask
        /\ rec.value = caller[t].value /\ rec.new = NewGpio(caller[t])
    BY <2>1, <2>2 DEF PioSetting
  <2>4. Goto(t, rec)
    BY <1>1, <1>3 DEF Enter, At
  <2> HIDE DEF rec
  <2>5. /\ caller'[t] = rec /\ \A u \in PioCallers : u # t => caller'[u] = caller[u]
        /\ caller' \in [PioCallers -> PioRecords]
    BY <2>3, <2>4, PioGoto DEF PioCallers, PioRecords
  <2>6. PioTypeOK'
    BY <1>1, <2>5 DEF PioTypeOK, PioCallers
  <2>7. Entered[caller[t].at] = "setting"
    BY <1>3 DEF Entered
  <2> QED BY <1>1, <2>3, <2>5, <2>6, <2>7
<1>4. CASE caller[t].at # "set"
  <2> DEFINE rec == [caller[t] EXCEPT !.at = Entered[caller[t].at]]
  <2>1. Goto(t, rec)
    BY <1>1, <1>4 DEF Enter, At
  <2>2. rec \in PioRecords /\ rec.at = Entered[caller[t].at]
    <3>1. CASE caller[t].at = "configure"
      <4>1. caller[t] \in PioConfiguring /\ Entered[caller[t].at] = "configuring"
        BY <3>1, PioLabels DEF Entered
      <4>2. rec \in PioConfiguring /\ rec.at = Entered[caller[t].at]
        BY <4>1 DEF PioConfiguring
      <4> QED BY <4>2 DEF PioRecords
    <3>2. CASE caller[t].at = "interrupt"
      <4>1. caller[t] \in PioInterrupting /\ Entered[caller[t].at] = "updating"
        BY <3>2, PioLabels DEF Entered
      <4>2. rec \in PioInterrupting /\ rec.at = Entered[caller[t].at]
        BY <4>1 DEF PioInterrupting
      <4> QED BY <4>2 DEF PioRecords
    <3>3. CASE caller[t].at \in {"get", "write", "handler"}
      <4>1. caller[t] \in PioPlain /\ Entered[caller[t].at] \in {"reading", "DEFVAL", "INTF"}
        BY <3>3, PioLabels DEF Entered
      <4>2. rec \in PioPlain /\ rec.at = Entered[caller[t].at]
        BY <4>1 DEF PioPlain
      <4> QED BY <4>2 DEF PioRecords
    <3> QED BY <1>2, <1>4, <3>1, <3>2, <3>3
  <2> HIDE DEF rec
  <2>3. /\ caller'[t] = rec /\ \A u \in PioCallers : u # t => caller'[u] = caller[u]
        /\ caller' \in [PioCallers -> PioRecords]
    BY <2>1, <2>2, PioGoto DEF PioCallers
  <2>4. PioTypeOK'
    BY <1>1, <2>3 DEF PioTypeOK, PioCallers
  <2> QED BY <1>1, <1>4, <2>2, <2>3, <2>4
<1> QED BY <1>3, <1>4

LEMMA PioAsk ==
  ASSUME asked \in [PioOutputs -> SUBSET BOOLEAN], NEW pins, NEW values, NEW ok \in BOOLEAN,
         Ask(pins, values, ok)
  PROVE  /\ asked' \in [PioOutputs -> SUBSET BOOLEAN]
         /\ \A p \in PioOutputs :
              /\ p \notin pins => asked'[p] = asked[p]
              /\ p \in pins => /\ p \in values => TRUE \in asked'[p]
                               /\ p \notin values => FALSE \in asked'[p]
              /\ ~ok => asked[p] \subseteq asked'[p]
<1> DEFINE B(p) == {(p \in values)} \union (IF ok THEN {} ELSE asked[p])
           A(p) == IF p \notin pins THEN asked[p] ELSE B(p)
<1>1. asked' = [p \in PioOutputs |-> A(p)]
  BY DEF Ask
<1>2. ASSUME NEW p \in PioOutputs
      PROVE  /\ A(p) \in SUBSET BOOLEAN
             /\ p \notin pins => A(p) = asked[p]
             /\ p \in pins => /\ p \in values => TRUE \in A(p)
                              /\ p \notin values => FALSE \in A(p)
             /\ ~ok => asked[p] \subseteq A(p)
  <2> DEFINE b == p \in values
  <2>1. asked[p] \in SUBSET BOOLEAN
    OBVIOUS
  <2>2. b \in BOOLEAN
    OBVIOUS
  <2>3. CASE p \notin pins
    BY <2>1, <2>3
  <2>4. CASE p \in pins
    <3>0. B(p) = {b} \union (IF ok THEN {} ELSE asked[p])
      OBVIOUS
    <3> HIDE DEF B
    <3>1. A(p) = {b} \union (IF ok THEN {} ELSE asked[p])
      <4>1. A(p) = B(p)
        BY <2>4
      <4> QED BY <3>0, <4>1
    <3>2. b <=> p \in values
      OBVIOUS
    <3> HIDE DEF b, A
    <3>3. CASE b = TRUE
      <4>1. TRUE \in A(p) /\ p \in values /\ (~ok => asked[p] \subseteq A(p))
        BY <3>1, <3>2, <3>3
      <4>2. A(p) \in SUBSET BOOLEAN
        BY <2>1, <2>2, <3>1
      <4> QED BY <2>4, <4>1, <4>2
    <3>4. CASE b = FALSE
      <4>1. FALSE \in A(p) /\ p \notin values /\ (~ok => asked[p] \subseteq A(p))
        BY <3>1, <3>2, <3>4
      <4>2. A(p) \in SUBSET BOOLEAN
        BY <2>1, <2>2, <3>1
      <4> QED BY <2>4, <4>1, <4>2
    <3> QED BY <2>2, <3>3, <3>4
  <2> QED BY <2>3, <2>4
<1> HIDE DEF A, B
<1> QED BY <1>1, <1>2

LEMMA PioGetStep ==
  ASSUME PioTypeOK, NEW t \in PioCallers, port_get_raw(t)
  PROVE  /\ caller[t].at = "reading" /\ caller'[t] = Idle /\ lock' = Unlocked
         /\ \A u \in PioCallers : u # t => caller'[u] = caller[u]
         /\ chip'.olat = chip.olat /\ chip'.gpinten = chip.gpinten
         /\ chip'.intcon = chip.intcon /\ chip'.defval = chip.defval
         /\ cache'.gpinten = cache.gpinten /\ cache'.intcon = cache.intcon
         /\ cache'.defval = cache.defval
         /\ \/ cache'.gpio = cache.gpio /\ asked' = asked
            \/ /\ cache'.gpio = PinValues(chip, levels)
               /\ asked' = Misread(PinValues(chip, levels))
         /\ bounds'.faults = 0 => bounds.faults = 0
         /\ UNCHANGED <<works, retained>>
         /\ PioTypeOK'
<1>1. caller[t].at = "reading" /\ lock' = Unlocked /\ UNCHANGED <<levels, works, retained>>
  BY DEF port_get_raw, At
<1>2. PICK o \in Outcomes :
        /\ Count(o)
        /\ chip' = (IF o.effect THEN Cleared(chip, levels) ELSE chip)
        /\ cache' = IF o.ok THEN [cache EXCEPT !.gpio = PinValues(chip, levels)] ELSE cache
        /\ asked' = IF o.ok THEN Misread(PinValues(chip, levels)) ELSE asked
  BY DEF port_get_raw, SetChip
<1>3. /\ bounds' \in [calls : Nat, faults : Nat, edges : Nat]
      /\ bounds'.faults = 0 => bounds.faults = 0
  BY <1>2, PioCount
<1>4. /\ chip' \in PioChip /\ chip'.olat = chip.olat /\ chip'.gpinten = chip.gpinten
      /\ chip'.intcon = chip.intcon /\ chip'.defval = chip.defval
  BY <1>2, PioCleared DEF PioTypeOK
<1>5. PinValues(chip, levels) \in SUBSET PioBits
  BY DEF PinValues, PioTypeOK, PioChip, PioBits
<1>a. asked' \in [PioOutputs -> SUBSET BOOLEAN]
  BY <1>2 DEF PioTypeOK, Misread
<1>6. /\ cache' \in PioCache
      /\ cache'.gpinten = cache.gpinten /\ cache'.intcon = cache.intcon
      /\ cache'.defval = cache.defval
      /\ \/ cache'.gpio = cache.gpio /\ asked' = asked
         \/ /\ cache'.gpio = PinValues(chip, levels)
            /\ asked' = Misread(PinValues(chip, levels))
  BY <1>2, <1>5 DEF PioTypeOK, PioCache
<1>7. Idle \in PioRecords
  BY DEF Idle, PioRecords, PioPlain
<1>8. /\ caller'[t] = Idle /\ \A u \in PioCallers : u # t => caller'[u] = caller[u]
      /\ caller' \in [PioCallers -> PioRecords]
  BY <1>7, PioGoto DEF PioCallers, port_get_raw
<1>9. PioTypeOK'
  BY <1>1, <1>3, <1>4, <1>a, <1>6, <1>8 DEF PioTypeOK, PioCallers
<1> QED BY <1>1, <1>3, <1>4, <1>6, <1>8, <1>9

(* set_masked_raw and pin_configure: the outputs of a set of pins change,  *)
(* the cache with them or not; the new value and what is asked agree.      *)
PioOutputStep(t, pins, values, new) ==
  /\ caller'[t] = Idle /\ lock' = Unlocked
  /\ \A u \in PioCallers : u # t => caller'[u] = caller[u]
  /\ \E ok \in BOOLEAN :
       /\ Ask(pins, values, ok)
       /\ chip'.olat = new \/ (~ok /\ chip'.olat = chip.olat)
       /\ cache'.gpio = new \/ (~ok /\ cache'.gpio = cache.gpio)
  /\ chip'.gpinten = chip.gpinten
  /\ chip'.intcon = chip.intcon /\ chip'.defval = chip.defval
  /\ cache'.gpinten = cache.gpinten /\ cache'.intcon = cache.intcon
  /\ cache'.defval = cache.defval
  /\ bounds'.faults = 0 => bounds.faults = 0
  /\ UNCHANGED <<works, retained>>
  /\ PioTypeOK'

LEMMA PioWriteOutputs ==
  ASSUME PioTypeOK, NEW t \in PioCallers, NEW pins, NEW values, NEW new \in SUBSET PioBits,
         NEW o \in Outcomes, Count(o),
         chip' = (IF o.effect THEN [chip EXCEPT !.olat = new] ELSE chip),
         cache' = [cache EXCEPT !.gpio = new] \/ (~o.ok /\ cache' = cache),
         Ask(pins, values, o.ok), lock' = Unlocked, Goto(t, Idle),
         UNCHANGED <<levels, works, retained>>
  PROVE  PioOutputStep(t, pins, values, new)
<1>1. o.ok \in BOOLEAN /\ (o.ok => o.effect)
  BY DEF Outcomes
<1>2. /\ chip' \in PioChip /\ chip'.gpinten = chip.gpinten
      /\ chip'.intcon = chip.intcon /\ chip'.defval = chip.defval
      /\ chip'.olat = new \/ (~o.ok /\ chip'.olat = chip.olat)
  <2>1. CASE o.effect
    BY <2>1 DEF PioTypeOK, PioChip
  <2>2. CASE ~o.effect
    BY <1>1, <2>2 DEF PioTypeOK, PioChip
  <2> QED BY <2>1, <2>2
<1>3. /\ cache' \in PioCache /\ cache'.gpinten = cache.gpinten
      /\ cache'.intcon = cache.intcon /\ cache'.defval = cache.defval
      /\ cache'.gpio = new \/ (~o.ok /\ cache'.gpio = cache.gpio)
  <2>1. CASE cache' = [cache EXCEPT !.gpio = new]
    BY <2>1 DEF PioTypeOK, PioCache
  <2>2. CASE ~o.ok /\ cache' = cache
    BY <2>2 DEF PioTypeOK, PioCache
  <2> QED BY <2>1, <2>2
<1>4. /\ bounds' \in [calls : Nat, faults : Nat, edges : Nat]
      /\ bounds'.faults = 0 => bounds.faults = 0
  BY PioCount
<1>5. Idle \in PioRecords
  BY DEF Idle, PioRecords, PioPlain
<1>6. /\ caller'[t] = Idle /\ \A u \in PioCallers : u # t => caller'[u] = caller[u]
      /\ caller' \in [PioCallers -> PioRecords]
  BY <1>5, PioGoto DEF PioCallers
<1>7. asked' \in [PioOutputs -> SUBSET BOOLEAN]
  <2> DEFINE ok == o.ok
  <2>1. asked \in [PioOutputs -> SUBSET BOOLEAN] /\ ok \in BOOLEAN /\ Ask(pins, values, ok)
    BY <1>1 DEF PioTypeOK
  <2> HIDE DEF ok
  <2> QED BY <2>1, PioAsk
<1>8. PioTypeOK'
  BY <1>2, <1>3, <1>4, <1>6, <1>7 DEF PioTypeOK, PioCallers
<1>9. \E ok \in BOOLEAN :
       /\ Ask(pins, values, ok)
       /\ chip'.olat = new \/ (~ok /\ chip'.olat = chip.olat)
       /\ cache'.gpio = new \/ (~ok /\ cache'.gpio = cache.gpio)
  BY <1>1, <1>2, <1>3
<1> QED BY <1>2, <1>3, <1>4, <1>6, <1>8, <1>9 DEF PioOutputStep

LEMMA PioSetStep ==
  ASSUME PioTypeOK, NEW t \in PioCallers, set_masked_raw(t)
  PROVE  /\ caller[t].at = "setting"
         /\ PioOutputStep(t, caller[t].mask, caller[t].value, caller[t].new)
<1>1. caller[t].at = "setting"
  BY DEF set_masked_raw, At
<1>2. caller[t].new \in SUBSET PioBits
  BY <1>1, PioLabels DEF PioSetting
<1>3. PICK o \in Outcomes :
        /\ Count(o)
        /\ chip' = (IF o.effect THEN [chip EXCEPT !.olat = caller[t].new] ELSE chip)
        /\ cache' = (IF o.ok THEN [cache EXCEPT !.gpio = caller[t].new] ELSE cache)
        /\ Ask(caller[t].mask, caller[t].value, o.ok)
  BY DEF set_masked_raw, SetChip
<1>4. lock' = Unlocked /\ Goto(t, Idle) /\ UNCHANGED <<levels, works, retained>>
  BY DEF set_masked_raw
<1>5. cache' = [cache EXCEPT !.gpio = caller[t].new] \/ (~o.ok /\ cache' = cache)
  BY <1>3
<1> QED BY <1>1, <1>2, <1>3, <1>4, <1>5, PioWriteOutputs

LEMMA PioConfigureStep ==
  ASSUME PioTypeOK, NEW t \in PioCallers, pin_configure(t)
  PROVE  /\ caller[t].at = "configuring" /\ caller[t].pin \in PioOutputs
         /\ LET pin == {caller[t].pin}
                b == {Bit(caller[t].pin)} IN
            \/ PioOutputStep(t, pin, pin, cache.gpio \union b)
            \/ PioOutputStep(t, pin, {}, cache.gpio \ b)
<1> DEFINE r == caller[t]
           new == IF r.high THEN cache.gpio \union {Bit(r.pin)} ELSE cache.gpio \ {Bit(r.pin)}
           values == IF r.high THEN {r.pin} ELSE {}
<1>1. r.at = "configuring"
  BY DEF pin_configure, At
<1>2. r.pin \in PioOutputs /\ r.high \in BOOLEAN
  BY <1>1, PioLabels DEF PioConfiguring
<1>3. new \in SUBSET PioBits
  <2>1. Bit(r.pin) \in PioBits /\ cache.gpio \in SUBSET PioBits
    BY <1>2, PioPins DEF PioTypeOK, PioCache
  <2> QED BY <2>1
<1>4. PICK o \in Outcomes :
        /\ Count(o)
        /\ chip' = (IF o.effect THEN [chip EXCEPT !.olat = new] ELSE chip)
        /\ cache' = [cache EXCEPT !.gpio = new]
        /\ Ask({r.pin}, values, o.ok)
  BY DEF pin_configure, SetChip
<1>5. lock' = Unlocked /\ Goto(t, Idle) /\ UNCHANGED <<levels, works, retained>>
  BY DEF pin_configure
<1>6. \/ new = cache.gpio \union {Bit(r.pin)} /\ values = {r.pin}
      \/ new = cache.gpio \ {Bit(r.pin)} /\ values = {}
  OBVIOUS
<1> HIDE DEF new, values
<1>7. PioOutputStep(t, {r.pin}, values, new)
  BY <1>3, <1>4, <1>5, PioWriteOutputs
<1> QED BY <1>1, <1>2, <1>6, <1>7

LEMMA PioUpdated ==
  ASSUME PioTypeOK, NEW pin \in PioInputs, NEW mode, NEW trig, Update(pin, mode, trig)
  PROVE  cache' \in PioCache /\ cache'.gpio = cache.gpio
<1> DEFINE b == {Bit(pin)}
           low == (trig = "low") # (b \subseteq HardInverted)
           gpinten == IF mode = "disabled" THEN cache.gpinten \ b ELSE cache.gpinten \union b
           intcon == IF mode = "level" THEN cache.intcon \union b ELSE cache.intcon \ b
           defval == CASE mode = "disabled" -> cache.defval \ b
                       [] mode = "level" -> IF low THEN cache.defval \union b
                                            ELSE cache.defval \ b
                       [] OTHER -> cache.defval
<1>1. cache' = [cache EXCEPT !.gpinten = gpinten, !.intcon = intcon, !.defval = defval]
  BY DEF Update, UpdatedCache
<1>2. b \in SUBSET PioBits
  BY PioPins
<1> HIDE DEF b, low
<1>3. /\ gpinten \in SUBSET PioBits /\ intcon \in SUBSET PioBits
  BY <1>2 DEF PioTypeOK, PioCache
<1>4. defval \in SUBSET PioBits
  <2>1. cache.defval \in SUBSET PioBits
    BY DEF PioTypeOK, PioCache
  <2>2. CASE mode = "disabled"
    BY <1>2, <2>1, <2>2
  <2>3. CASE mode = "level"
    BY <1>2, <2>1, <2>3
  <2>4. CASE mode # "disabled" /\ mode # "level"
    BY <1>2, <2>1, <2>4
  <2> QED BY <2>2, <2>3, <2>4
<1> HIDE DEF gpinten, intcon, defval
<1> QED BY <1>1, <1>3, <1>4 DEF PioTypeOK, PioCache

LEMMA PioInterruptStep ==
  ASSUME PioTypeOK, NEW t \in PioCallers, pin_interrupt_configure(t)
  PROVE  /\ caller[t].at = "updating" /\ caller'[t].at = "write" /\ lock' = Unlocked
         /\ \A u \in PioCallers : u # t => caller'[u] = caller[u]
         /\ cache'.gpio = cache.gpio
         /\ UNCHANGED <<chip, works, bounds, asked>>
         /\ PioTypeOK'
<1>1. /\ caller[t].at = "updating" /\ lock' = Unlocked
      /\ Update(caller[t].pin, caller[t].mode, caller[t].trig)
      /\ Goto(t, [at |-> "write"])
      /\ UNCHANGED <<chip, levels, works, bounds, asked>>
  BY DEF pin_interrupt_configure, At
<1>2. caller[t].pin \in PioInputs
  BY <1>1, PioLabels DEF PioInterrupting
<1>3. cache' \in PioCache /\ cache'.gpio = cache.gpio
  BY <1>1, <1>2, PioUpdated
<1>4. [at |-> "write"] \in PioRecords
  BY DEF PioRecords, PioPlain
<1>5. /\ caller'[t] = [at |-> "write"]
      /\ \A u \in PioCallers : u # t => caller'[u] = caller[u]
      /\ caller' \in [PioCallers -> PioRecords]
  BY <1>1, <1>4, PioGoto DEF PioCallers
<1>6. PioTypeOK'
  BY <1>1, <1>3, <1>5 DEF PioTypeOK, PioCallers
<1> QED BY <1>1, <1>3, <1>5, <1>6

LEMMA PioIsrStep ==
  ASSUME PioTypeOK, IsrInterruptConfigure
  PROVE  /\ lock = Unlocked /\ UNCHANGED <<chip, lock, caller, asked>>
         /\ cache'.gpio = cache.gpio
         /\ "write" \in Range(works')
         /\ bounds'.faults = bounds.faults
         /\ PioTypeOK'
<1>1. /\ lock = Unlocked /\ UNCHANGED <<chip, levels, lock, caller, asked>>
      /\ Submit("write")
  BY DEF IsrInterruptConfigure
<1>2. /\ bounds'.faults = bounds.faults
      /\ bounds' \in [calls : Nat, faults : Nat, edges : Nat]
  BY DEF IsrInterruptConfigure, PioTypeOK
<1>3. PICK pin \in PioInputs, mode \in Modes, trig \in Triggers : Update(pin, mode, trig)
  BY DEF IsrInterruptConfigure
<1>4. cache' \in PioCache /\ cache'.gpio = cache.gpio
  BY <1>3, PioUpdated
<1>5. works' \in Seq(PioItems) /\ Range(works') = Range(works) \union {"write"}
  BY <1>1, PioSubmit DEF PioTypeOK, PioItems
<1>6. PioTypeOK'
  BY <1>1, <1>2, <1>4, <1>5 DEF PioTypeOK
<1> QED BY <1>1, <1>2, <1>4, <1>5, <1>6

LEMMA PioWriteStep ==
  ASSUME PioTypeOK, NEW t \in PioCallers, write_interrupt_config(t)
  PROVE  /\ caller[t].at \in {"DEFVAL", "INTCON", "GPINTEN"}
         /\ caller[t].at = "DEFVAL" => caller'[t].at = "INTCON" /\ lock' = lock
         /\ caller[t].at = "INTCON" => caller'[t].at = "GPINTEN" /\ lock' = lock
         /\ caller[t].at = "GPINTEN" => caller'[t].at = "idle" /\ lock' = Unlocked
         /\ \A u \in PioCallers : u # t => caller'[u] = caller[u]
         /\ chip'.olat = chip.olat
         /\ bounds'.faults = 0 =>
              /\ bounds.faults = 0
              /\ caller[t].at = "DEFVAL" => chip'.defval = cache.defval
              /\ caller[t].at = "INTCON" => /\ chip'.intcon = cache.intcon
                                            /\ chip'.defval = chip.defval
              /\ caller[t].at = "GPINTEN" => /\ chip'.gpinten = cache.gpinten
                                             /\ chip'.intcon = chip.intcon
                                             /\ chip'.defval = chip.defval
         /\ UNCHANGED <<cache, works, asked>>
         /\ PioTypeOK'
<1> DEFINE at == caller[t].at
           written == CASE at = "DEFVAL" -> [chip EXCEPT !.defval = cache.defval]
                        [] at = "INTCON" -> [chip EXCEPT !.intcon = cache.intcon]
                        [] at = "GPINTEN" -> [chip EXCEPT !.gpinten = cache.gpinten]
<1>1. /\ at \in {"DEFVAL", "INTCON", "GPINTEN"}
      /\ Goto(t, [at |-> WriteOrder[at]])
      /\ lock' = IF at = "GPINTEN" THEN Unlocked ELSE lock
      /\ UNCHANGED <<levels, cache, works, asked>>
  BY DEF write_interrupt_config, WriteOrder
<1>2. PICK o \in Outcomes :
        Count(o) /\ chip' = (IF o.effect THEN Reconfigured(written, levels) ELSE chip)
  BY DEF write_interrupt_config, SetChip
<1>3. /\ bounds' \in [calls : Nat, faults : Nat, edges : Nat]
      /\ bounds'.faults = 0 => o.effect /\ bounds.faults = 0
  BY <1>2, PioCount
<1>4. /\ written \in PioChip /\ written.olat = chip.olat
      /\ at = "DEFVAL" => written.defval = cache.defval
      /\ at = "INTCON" => written.intcon = cache.intcon /\ written.defval = chip.defval
      /\ at = "GPINTEN" => /\ written.gpinten = cache.gpinten
                           /\ written.intcon = chip.intcon /\ written.defval = chip.defval
  <2>0. chip \in PioChip /\ cache \in PioCache
    BY DEF PioTypeOK
  <2>1. CASE at = "DEFVAL"
    <3>1. written = [chip EXCEPT !.defval = cache.defval]
      BY <2>1
    <3> QED BY <2>0, <2>1, <3>1 DEF PioChip, PioCache
  <2>2. CASE at = "INTCON"
    <3>1. written = [chip EXCEPT !.intcon = cache.intcon]
      BY <2>2
    <3> QED BY <2>0, <2>2, <3>1 DEF PioChip, PioCache
  <2>3. CASE at = "GPINTEN"
    <3>1. written = [chip EXCEPT !.gpinten = cache.gpinten]
      BY <2>3
    <3> QED BY <2>0, <2>3, <3>1 DEF PioChip, PioCache
  <2> QED BY <1>1, <2>1, <2>2, <2>3
<1>5. /\ at = "DEFVAL" => WriteOrder[at] = "INTCON"
      /\ at = "INTCON" => WriteOrder[at] = "GPINTEN"
      /\ at = "GPINTEN" => WriteOrder[at] = "idle"
  BY DEF WriteOrder
<1>6. [at |-> WriteOrder[at]] \in PioRecords
  BY <1>1, <1>5 DEF PioRecords, PioPlain
<1> HIDE DEF written
<1>7. LET s == Reconfigured(written, levels) IN
      /\ s \in PioChip /\ s.olat = written.olat /\ s.gpinten = written.gpinten
      /\ s.intcon = written.intcon /\ s.defval = written.defval
  BY <1>4, PioReconfigured DEF PioTypeOK
<1>8. chip' \in PioChip /\ chip'.olat = chip.olat
  BY <1>2, <1>4, <1>7 DEF PioTypeOK
<1>9. /\ caller'[t] = [at |-> WriteOrder[at]]
      /\ \A u \in PioCallers : u # t => caller'[u] = caller[u]
      /\ caller' \in [PioCallers -> PioRecords]
  BY <1>1, <1>6, PioGoto DEF PioCallers
<1>10. PioTypeOK'
  BY <1>1, <1>3, <1>8, <1>9 DEF PioTypeOK, PioCallers
<1>11. bounds'.faults = 0 => chip' = Reconfigured(written, levels)
  BY <1>2, <1>3
<1>12. bounds'.faults = 0 =>
         /\ bounds.faults = 0
         /\ at = "DEFVAL" => chip'.defval = cache.defval
         /\ at = "INTCON" => chip'.intcon = cache.intcon /\ chip'.defval = chip.defval
         /\ at = "GPINTEN" => /\ chip'.gpinten = cache.gpinten
                              /\ chip'.intcon = chip.intcon
                              /\ chip'.defval = chip.defval
  BY <1>3, <1>4, <1>7, <1>11
<1>13. /\ at = "DEFVAL" => caller'[t].at = "INTCON" /\ lock' = lock
       /\ at = "INTCON" => caller'[t].at = "GPINTEN" /\ lock' = lock
       /\ at = "GPINTEN" => caller'[t].at = "idle" /\ lock' = Unlocked
  BY <1>1, <1>5, <1>9
<1> QED BY <1>1, <1>8, <1>9, <1>10, <1>12, <1>13

LEMMA PioStartStep ==
  ASSUME PioTypeOK, WorkStart
  PROVE  /\ caller[WorkQueue].at = "idle" /\ caller'[WorkQueue].at \in PioItems
         /\ \A u \in PioCallers : u # WorkQueue => caller'[u] = caller[u]
         /\ "write" \in Range(works) =>
              caller'[WorkQueue].at = "write" \/ "write" \in Range(works')
         /\ UNCHANGED <<chip, cache, lock, bounds, asked, retained>>
         /\ PioTypeOK'
<1>1. /\ caller[WorkQueue].at = "idle" /\ works # <<>>
      /\ Goto(WorkQueue, [at |-> Head(works)]) /\ works' = Tail(works)
      /\ UNCHANGED <<chip, levels, cache, lock, bounds, asked, retained>>
  BY DEF WorkStart, At
<1>2. works \in Seq(PioItems)
  BY DEF PioTypeOK
<1>3. Head(works) \in PioItems /\ works' \in Seq(PioItems)
  BY <1>1, <1>2, HeadTailProperties
<1>4. [at |-> Head(works)] \in PioRecords
  BY <1>3 DEF PioItems, PioRecords, PioPlain
<1>5. /\ caller'[WorkQueue] = [at |-> Head(works)]
      /\ \A u \in PioCallers : u # WorkQueue => caller'[u] = caller[u]
      /\ caller' \in [PioCallers -> PioRecords]
  BY <1>1, <1>4, PioGoto DEF PioCallers
<1>6. "write" \in Range(works) => Head(works) = "write" \/ "write" \in Range(works')
  <2> SUFFICES ASSUME "write" \in Range(works), Head(works) # "write"
               PROVE  "write" \in Range(works')
    OBVIOUS
  <2>1. PICK i \in 1 .. Len(works) : works[i] = "write"
    BY <1>2 DEF Range
  <2>2. i # 1
    BY <1>1, <1>2, <2>1
  <2>3. i - 1 \in 1 .. Len(works') /\ works'[i - 1] = "write"
    BY <1>1, <1>2, <2>1, <2>2
  <2>4. DOMAIN works' = 1 .. Len(works')
    BY <1>3
  <2> QED BY <2>3, <2>4 DEF Range
<1>7. PioTypeOK'
  BY <1>1, <1>3, <1>5 DEF PioTypeOK, PioCallers
<1>8. caller'[WorkQueue].at = Head(works)
  BY <1>5
<1> QED BY <1>1, <1>3, <1>5, <1>6, <1>7, <1>8

(* The handler of the INT line.                                            *)
LEMMA PioHandlerStep ==
  ASSUME PioTypeOK, HandlerReadsIntf \/ HandlerReadsIntcap
  PROVE  /\ caller[WorkQueue].at \in {"INTF", "INTCAP"}
         /\ \/ caller'[WorkQueue].at = "INTCAP" /\ lock' = lock
            \/ caller'[WorkQueue].at = "idle" /\ lock' = Unlocked
         /\ \A u \in PioCallers : u # WorkQueue => caller'[u] = caller[u]
         /\ chip'.olat = chip.olat /\ chip'.gpinten = chip.gpinten
         /\ chip'.intcon = chip.intcon /\ chip'.defval = chip.defval
         /\ bounds'.faults = 0 => bounds.faults = 0
         /\ Range(works) \subseteq Range(works')
         /\ UNCHANGED <<cache, asked, retained>>
         /\ PioTypeOK'
<1>0. Idle \in PioRecords /\ Idle.at = "idle" /\ WorkQueue \in PioCallers
  BY DEF Idle, PioRecords, PioPlain, PioCallers
<1>1. CASE HandlerReadsIntf
  <2>1. /\ caller[WorkQueue].at = "INTF"
        /\ UNCHANGED <<chip, levels, cache, works, asked, retained>>
    BY <1>1 DEF HandlerReadsIntf, At
  <2>2. PICK o \in Outcomes :
          /\ Count(o)
          /\ \/ Goto(WorkQueue, [at |-> "INTCAP", intf |-> chip.intf]) /\ UNCHANGED lock
             \/ Goto(WorkQueue, Idle) /\ lock' = Unlocked
    BY <1>1 DEF HandlerReadsIntf
  <2>3. /\ bounds' \in [calls : Nat, faults : Nat, edges : Nat]
        /\ bounds'.faults = 0 => bounds.faults = 0
    BY <2>2, PioCount
  <2>4. [at |-> "INTCAP", intf |-> chip.intf] \in PioRecords
    BY DEF PioTypeOK, PioChip, PioRecords, PioHandling
  <2>5. CASE Goto(WorkQueue, [at |-> "INTCAP", intf |-> chip.intf]) /\ UNCHANGED lock
    <3>1. /\ caller'[WorkQueue] = [at |-> "INTCAP", intf |-> chip.intf]
          /\ \A u \in PioCallers : u # WorkQueue => caller'[u] = caller[u]
          /\ caller' \in [PioCallers -> PioRecords]
      BY <2>4, <2>5, PioGoto DEF PioCallers
    <3>2. PioTypeOK'
      BY <2>1, <2>3, <3>1 DEF PioTypeOK, PioCallers
    <3>3. caller'[WorkQueue].at = "INTCAP"
      BY <3>1
    <3> QED BY <2>1, <2>3, <2>5, <3>1, <3>2, <3>3
  <2>6. CASE Goto(WorkQueue, Idle) /\ lock' = Unlocked
    <3>1. /\ caller'[WorkQueue] = Idle
          /\ \A u \in PioCallers : u # WorkQueue => caller'[u] = caller[u]
          /\ caller' \in [PioCallers -> PioRecords]
      BY <1>0, <2>6, PioGoto DEF PioCallers
    <3>2. PioTypeOK'
      BY <2>1, <2>3, <3>1 DEF PioTypeOK, PioCallers
    <3> QED BY <1>0, <2>1, <2>3, <2>6, <3>1, <3>2
  <2> QED BY <2>2, <2>5, <2>6
<1>2. CASE HandlerReadsIntcap
  <2>1. /\ caller[WorkQueue].at = "INTCAP" /\ lock' = Unlocked /\ Goto(WorkQueue, Idle)
        /\ UNCHANGED <<levels, cache, asked, retained>>
    BY <1>2 DEF HandlerReadsIntcap, At
  <2>2. PICK o \in Outcomes :
          /\ Count(o)
          /\ chip' = (IF o.effect THEN Cleared(chip, levels) ELSE chip)
          /\ Submit("handler") \/ UNCHANGED works
    BY <1>2 DEF HandlerReadsIntcap, SetChip
  <2>3. /\ bounds' \in [calls : Nat, faults : Nat, edges : Nat]
        /\ bounds'.faults = 0 => bounds.faults = 0
    BY <2>2, PioCount
  <2>4. /\ chip' \in PioChip /\ chip'.olat = chip.olat /\ chip'.gpinten = chip.gpinten
        /\ chip'.intcon = chip.intcon /\ chip'.defval = chip.defval
    BY <2>2, PioCleared DEF PioTypeOK
  <2>5. works' \in Seq(PioItems) /\ Range(works) \subseteq Range(works')
    BY <2>2, PioSubmit DEF PioTypeOK, PioItems
  <2>6. /\ caller'[WorkQueue] = Idle
        /\ \A u \in PioCallers : u # WorkQueue => caller'[u] = caller[u]
        /\ caller' \in [PioCallers -> PioRecords]
    BY <1>0, <2>1, PioGoto DEF PioCallers
  <2>7. PioTypeOK'
    BY <2>1, <2>3, <2>4, <2>5, <2>6 DEF PioTypeOK, PioCallers
  <2> QED BY <1>0, <2>1, <2>3, <2>4, <2>5, <2>6, <2>7
<1> QED BY <1>1, <1>2

(* The start, the INT line and the pins.                                   *)
LEMMA PioEnvironmentStep ==
  ASSUME PioTypeOK,
         power_io_shield_init \/ NullWork \/ int_gpio_handler \/ PinChanges \/ OtherShield
  PROVE  /\ chip'.olat = chip.olat /\ chip'.gpinten = chip.gpinten
         /\ chip'.intcon = chip.intcon /\ chip'.defval = chip.defval
         /\ bounds'.faults = 0 => bounds.faults = 0
         /\ Range(works) \subseteq Range(works')
         /\ UNCHANGED <<cache, lock, caller, asked, retained>>
         /\ PioTypeOK'
<1>1. CASE int_gpio_handler
  <2>1. works' \in Seq(PioItems) /\ Range(works) \subseteq Range(works')
    BY <1>1, PioSubmit DEF int_gpio_handler, PioTypeOK, PioItems
  <2>2. UNCHANGED <<chip, levels, cache, lock, caller, bounds, asked, retained>>
    BY <1>1 DEF int_gpio_handler
  <2>3. PioTypeOK'
    BY <2>1, <2>2 DEF PioTypeOK
  <2> QED BY <2>1, <2>2, <2>3
<1>2. CASE PinChanges
  <2>1. UNCHANGED <<cache, lock, works, caller, asked, retained>>
    BY <1>2 DEF PinChanges
  <2>2. /\ bounds' \in [calls : Nat, faults : Nat, edges : Nat]
        /\ bounds'.faults = bounds.faults
    BY <1>2 DEF PinChanges, PioTypeOK
  <2>3. PICK b \in InBits \union OutBits : \E pinLevels \in SUBSET (levels \union {b}) :
          /\ levels' = pinLevels
          /\ chip' = Raise(chip, pinLevels, LevelBits(chip, pinLevels)
                                       \union ({b} \intersect (chip.gpinten \ chip.intcon)))
    BY <1>2 DEF PinChanges, SetChip
  <2>a. PICK pinLevels \in SUBSET (levels \union {b}) :
          /\ levels' = pinLevels
          /\ chip' = Raise(chip, pinLevels, LevelBits(chip, pinLevels)
                                       \union ({b} \intersect (chip.gpinten \ chip.intcon)))
    BY <2>3
  <2>4. pinLevels \in SUBSET PioBits
    BY PioPins DEF PioTypeOK, InBits, OutBits
  <2>5. LevelBits(chip, pinLevels) \union ({b} \intersect (chip.gpinten \ chip.intcon))
          \in SUBSET PioBits
    BY DEF LevelBits, PioTypeOK, PioChip
  <2>6. /\ chip' \in PioChip /\ chip'.olat = chip.olat /\ chip'.gpinten = chip.gpinten
        /\ chip'.intcon = chip.intcon /\ chip'.defval = chip.defval
    BY <2>a, <2>4, <2>5, PioRaise DEF PioTypeOK
  <2>7. PioTypeOK'
    BY <2>1, <2>2, <2>a, <2>4, <2>6 DEF PioTypeOK
  <2> QED BY <2>1, <2>2, <2>6, <2>7
<1>3. CASE OtherShield
  <2>1. UNCHANGED <<chip, levels, cache, lock, works, caller, asked, retained>>
    BY <1>3 DEF OtherShield
  <2>2. /\ bounds' \in [calls : Nat, faults : Nat, edges : Nat]
        /\ bounds'.faults = bounds.faults
    <3>1. CASE line.other
      BY <1>3, <3>1 DEF OtherShield, PioTypeOK
    <3>2. CASE ~line.other
      BY <1>3, <3>2 DEF OtherShield, PioTypeOK
    <3> QED BY <3>1, <3>2
  <2>3. PioTypeOK'
    BY <2>1, <2>2 DEF PioTypeOK
  <2> QED BY <2>1, <2>2, <2>3
<1>4. CASE power_io_shield_init
  <2> DEFINE directed == [chip EXCEPT !.iodir = InputBits]
  <2>1. UNCHANGED <<levels, cache, lock, works, caller, asked, retained>>
    BY <1>4 DEF power_io_shield_init
  <2>2. PICK o \in Outcomes :
          Count(o) /\ (chip' = Settle(directed, levels) \/ chip' = chip)
    BY <1>4 DEF power_io_shield_init, SetChip
  <2>3. /\ bounds' \in [calls : Nat, faults : Nat, edges : Nat]
        /\ bounds'.faults = 0 => bounds.faults = 0
    BY <2>2, PioCount
  <2>4. /\ directed \in PioChip /\ directed.olat = chip.olat
        /\ directed.gpinten = chip.gpinten /\ directed.intcon = chip.intcon
        /\ directed.defval = chip.defval
    BY PioInputBits DEF PioTypeOK, PioChip
  <2> HIDE DEF directed
  <2>5. /\ chip' \in PioChip /\ chip'.olat = chip.olat /\ chip'.gpinten = chip.gpinten
        /\ chip'.intcon = chip.intcon /\ chip'.defval = chip.defval
    BY <2>2, <2>4, PioSettle DEF PioTypeOK
  <2>6. PioTypeOK'
    BY <2>1, <2>3, <2>5 DEF PioTypeOK
  <2> QED BY <2>1, <2>3, <2>5, <2>6
<1>5. CASE NullWork
  <2>1. UNCHANGED <<chip, levels, cache, lock, works, caller, bounds, asked, retained>>
    BY <1>5 DEF NullWork
  <2> QED BY <2>1 DEF PioTypeOK
<1> QED BY <1>1, <1>2, <1>3, <1>4, <1>5

(* The labels at which a call has the semaphore.                           *)
PioHold == {"reading", "setting", "configuring", "updating", "DEFVAL", "INTCON", "GPINTEN",
            "INTF", "INTCAP"}

PioLocked == \A t \in PioCallers : caller[t].at \in PioHold => lock = t

(* The value is one that the output may have.                              *)
PioMay(p, high) ==
  /\ high => TRUE \in asked[p]
  /\ ~high => FALSE \in asked[p]

(* The cache has a value each output may have, as the expander has, and a  *)
(* masked write in progress is about the cache as it still is.             *)
PioOutputsKnown ==
  /\ \A p \in PioOutputs : /\ PioMay(p, Bit(p) \in chip.olat)
                           /\ PioMay(p, Bit(p) \in cache.gpio)
  /\ \A t \in PioCallers :
       /\ caller[t].at \in {"set", "setting"} => caller[t].value \subseteq caller[t].mask
       /\ caller[t].at = "setting" => caller[t].new = NewGpio(caller[t])

PioPending == (\E t \in PioCallers : Writing(t)) \/ "write" \in Range(works)

(* Until a transfer fails, the registers written so far are as cached, and *)
(* once one was configured all are unless a write is still to come.        *)
PioConfigKnown ==
  bounds.faults = 0 =>
    /\ \A t \in PioCallers :
         /\ caller[t].at \in {"INTCON", "GPINTEN"} => chip.defval = cache.defval
         /\ caller[t].at = "GPINTEN" => chip.intcon = cache.intcon
    /\ \/ PioPending \/ retained
       \/ chip.gpinten = cache.gpinten /\ chip.intcon = cache.intcon
            /\ chip.defval = cache.defval

PioInv == PioTypeOK /\ PioLocked /\ PioOutputsKnown /\ PioConfigKnown

LEMMA PioUnlocked ==
  ASSUME PioLocked, lock = Unlocked, NEW t \in PioCallers
  PROVE  caller[t].at \notin PioHold
BY PioAssumption DEF PioLocked, PioCallers, WorkQueue, Unlocked

LEMMA PioInitInv == PioInit => PioInv
<1> SUFFICES ASSUME PioInit PROVE PioInv
  OBVIOUS
<1>a. levels \in SUBSET PioBits /\ InBits \subseteq PioBits /\ OutBits \subseteq PioBits
  BY PioPins DEF PioInit, InBits, OutBits
<1>1. chip \in PioChip
  <2>1. PowerOn \in PioChip
    BY DEF PowerOn, PioChip, PioBits
  <2>2. ASSUME NEW c \in LeftBehind PROVE c \in PioChip
    BY <1>a, PioInputBits DEF LeftBehind, PioChip
  <2>3. chip = PowerOn \/ \E c \in LeftBehind : chip = Reconfigured(c, levels)
    BY DEF PioInit
  <2> QED BY <1>a, <2>1, <2>2, <2>3, PioReconfigured
<1>2. cache \in PioCache /\ cache.gpio = {} /\ cache.gpinten = {} /\ cache.intcon = {}
        /\ cache.defval = {}
  BY DEF PioInit, PioCache
<1>3. works \in Seq(PioItems) /\ retained
  BY DEF PioInit
<1>4. bounds \in [calls : Nat, faults : Nat, edges : Nat]
  BY DEF PioInit
<1>5. Idle \in PioRecords /\ Idle.at = "idle"
  BY DEF Idle, PioRecords, PioPlain
<1>6. /\ caller \in [PioCallers -> PioRecords]
      /\ \A t \in PioCallers : caller[t].at = "idle"
  BY <1>5 DEF PioInit, PioCallers
<1>7. /\ asked \in [PioOutputs -> SUBSET BOOLEAN]
      /\ \A p \in PioOutputs : FALSE \in asked[p] /\ (Bit(p) \in chip.olat => TRUE \in asked[p])
  BY DEF PioInit
<1>8. PioTypeOK
  BY <1>a, <1>1, <1>2, <1>3, <1>4, <1>6, <1>7 DEF PioTypeOK, PioCallers
<1>9. PioLocked /\ PioOutputsKnown /\ PioConfigKnown
  BY <1>2, <1>3, <1>6, <1>7 DEF PioLocked, PioHold, PioOutputsKnown, PioMay, PioConfigKnown
<1> QED BY <1>8, <1>9 DEF PioInv

LEMMA PioNextLocked == PioTypeOK /\ PioLocked /\ [PioNext]_pioVars => PioTypeOK' /\ PioLocked'
<1> SUFFICES ASSUME PioTypeOK, PioLocked, [PioNext]_pioVars PROVE PioTypeOK' /\ PioLocked'
  OBVIOUS
<1>0. WorkQueue \in PioCallers /\ \A t \in PioThreads : t \in PioCallers
  BY DEF PioCallers
<1>1. ASSUME NEW t \in PioThreads, Call(t) PROVE PioTypeOK' /\ PioLocked'
  BY <1>0, <1>1, PioCallStep DEF PioLocked, PioHold
<1>2. ASSUME NEW t \in PioCallers, Take(t) PROVE PioTypeOK' /\ PioLocked'
  <2>1. \A u \in PioCallers : caller[u].at \notin PioHold
    BY <1>2, PioTakeStep, PioUnlocked
  <2> QED BY <1>2, <2>1, PioTakeStep DEF PioLocked
<1>3. ASSUME NEW t \in PioCallers,
             port_get_raw(t) \/ set_masked_raw(t) \/ pin_configure(t)
      PROVE  PioTypeOK' /\ PioLocked'
  <2>1. /\ caller[t].at \in PioHold /\ caller'[t] = Idle /\ PioTypeOK'
        /\ \A u \in PioCallers : u # t => caller'[u] = caller[u]
    BY <1>3, PioGetStep, PioSetStep, PioConfigureStep DEF PioOutputStep, PioHold
  <2>2. caller'[t].at \notin PioHold
    BY <2>1 DEF Idle, PioHold
  <2> QED BY <2>1, <2>2 DEF PioLocked
<1>4. ASSUME NEW t \in PioCallers, pin_interrupt_configure(t) PROVE PioTypeOK' /\ PioLocked'
  BY <1>4, PioInterruptStep DEF PioLocked, PioHold
<1>5. ASSUME NEW t \in PioCallers, write_interrupt_config(t) PROVE PioTypeOK' /\ PioLocked'
  BY <1>5, PioWriteStep DEF PioLocked, PioHold
<1>6. CASE IsrInterruptConfigure
  BY <1>6, PioIsrStep DEF PioLocked
<1>7. CASE WorkStart
  BY <1>0, <1>7, PioStartStep DEF PioLocked, PioHold, PioItems
<1>8. CASE HandlerReadsIntf \/ HandlerReadsIntcap
  BY <1>0, <1>8, PioHandlerStep DEF PioLocked, PioHold
<1>9. CASE power_io_shield_init \/ NullWork \/ int_gpio_handler \/ PinChanges \/ OtherShield
  BY <1>9, PioEnvironmentStep DEF PioLocked
<1>10. CASE UNCHANGED pioVars
  BY <1>10 DEF pioVars, PioTypeOK, PioLocked
<1> QED BY <1>0, <1>1, <1>2, <1>3, <1>4, <1>5, <1>6, <1>7, <1>8, <1>9, <1>10
        DEF PioNext, ThreadStep, WorkStep

(* The outputs agree after a write of some pins: the others are as cached. *)
LEMMA PioOutputsAfter ==
  ASSUME PioTypeOK, PioOutputsKnown, NEW t \in PioCallers, NEW pins, NEW values, NEW new,
         PioOutputStep(t, pins, values, new),
         \A p \in PioOutputs :
           /\ p \in pins => (Bit(p) \in new <=> p \in values)
           /\ p \notin pins => (Bit(p) \in new <=> Bit(p) \in cache.gpio)
  PROVE  \A p \in PioOutputs : /\ PioMay(p, Bit(p) \in chip.olat)'
                               /\ PioMay(p, Bit(p) \in cache.gpio)'
<1> SUFFICES ASSUME NEW p \in PioOutputs
             PROVE  PioMay(p, Bit(p) \in chip.olat)' /\ PioMay(p, Bit(p) \in cache.gpio)'
  OBVIOUS
<1>1. PICK ok \in BOOLEAN :
       /\ Ask(pins, values, ok)
       /\ chip'.olat = new \/ (~ok /\ chip'.olat = chip.olat)
       /\ cache'.gpio = new \/ (~ok /\ cache'.gpio = cache.gpio)
  BY DEF PioOutputStep
<1>2. asked \in [PioOutputs -> SUBSET BOOLEAN]
  BY DEF PioTypeOK
<1>3. /\ p \notin pins => asked'[p] = asked[p]
      /\ p \in pins => /\ p \in values => TRUE \in asked'[p]
                       /\ p \notin values => FALSE \in asked'[p]
      /\ ~ok => asked[p] \subseteq asked'[p]
  BY <1>1, <1>2, PioAsk
<1>4. PioMay(p, Bit(p) \in chip.olat) /\ PioMay(p, Bit(p) \in cache.gpio)
  BY DEF PioOutputsKnown
<1>5. /\ Bit(p) \in new => TRUE \in asked'[p]
      /\ Bit(p) \notin new => FALSE \in asked'[p]
  BY <1>3, <1>4 DEF PioMay
<1> QED BY <1>1, <1>3, <1>4, <1>5 DEF PioMay

LEMMA PioNextOutputs ==
  PioTypeOK /\ PioLocked /\ PioOutputsKnown /\ [PioNext]_pioVars => PioOutputsKnown'
<1> SUFFICES ASSUME PioTypeOK, PioLocked, PioOutputsKnown, [PioNext]_pioVars
             PROVE  PioOutputsKnown'
  OBVIOUS
<1>0. WorkQueue \in PioCallers /\ \A t \in PioThreads : t \in PioCallers
  BY DEF PioCallers
<1>a. \A p \in PioOutputs : PioMay(p, Bit(p) \in chip.olat) /\ PioMay(p, Bit(p) \in cache.gpio)
  BY DEF PioOutputsKnown
<1>1. ASSUME NEW t \in PioThreads, Call(t) PROVE PioOutputsKnown'
  BY <1>0, <1>1, PioCallStep DEF PioOutputsKnown, PioMay, NewGpio
<1>2. ASSUME NEW t \in PioCallers, Take(t) PROVE PioOutputsKnown'
  <2>1. caller[t].at # "set" => caller'[t].at \notin {"set", "setting"}
    BY <1>2, PioTakeStep DEF Entered
  <2>2. caller[t].at = "set" => caller'[t].at = "setting" /\ caller'[t].new = NewGpio(caller[t])'
    <3> SUFFICES ASSUME caller[t].at = "set"
                 PROVE  caller'[t].at = "setting" /\ caller'[t].new = NewGpio(caller[t])'
      OBVIOUS
    <3>1. caller'[t].at = "setting"
      BY <1>2, PioTakeStep DEF Entered
    <3>2. /\ caller'[t].mask = caller[t].mask /\ caller'[t].value = caller[t].value
          /\ caller'[t].new = NewGpio(caller[t]) /\ cache' = cache
      BY <1>2, PioTakeStep
    <3>3. NewGpio(caller[t])' = NewGpio(caller[t])
      BY <3>2 DEF NewGpio
    <3> QED BY <3>1, <3>2, <3>3
  <2>3. /\ \A u \in PioCallers : u # t => caller'[u] = caller[u]
        /\ UNCHANGED <<chip, cache, asked>>
        /\ caller[t].at = "set" => caller'[t].mask = caller[t].mask
                                  /\ caller'[t].value = caller[t].value
    BY <1>2, PioTakeStep
  <2>4. \A p \in PioOutputs : /\ PioMay(p, Bit(p) \in chip.olat)'
                              /\ PioMay(p, Bit(p) \in cache.gpio)'
    BY <1>a, <2>3 DEF PioMay
  <2>5. ASSUME NEW u \in PioCallers
        PROVE  /\ caller'[u].at \in {"set", "setting"} =>
                    caller'[u].value \subseteq caller'[u].mask
               /\ caller'[u].at = "setting" => caller'[u].new = NewGpio(caller[u])'
    <3>1. CASE u = t
      BY <2>1, <2>2, <2>3, <3>1 DEF PioOutputsKnown
    <3>2. CASE u # t
      BY <2>3, <3>2 DEF PioOutputsKnown, NewGpio
    <3> QED BY <3>1, <3>2
  <2> QED BY <2>4, <2>5 DEF PioOutputsKnown
<1>3. ASSUME NEW t \in PioCallers, port_get_raw(t) PROVE PioOutputsKnown'
  <2>1. \A u \in PioCallers : caller'[u].at \notin PioHold
    BY <1>3, PioGetStep DEF PioLocked, PioHold, Idle
  <2>2. ASSUME NEW p \in PioOutputs
        PROVE  PioMay(p, Bit(p) \in chip.olat)' /\ PioMay(p, Bit(p) \in cache.gpio)'
    <3>1. chip'.olat = chip.olat
      BY <1>3, PioGetStep
    <3>2. CASE cache'.gpio = cache.gpio /\ asked' = asked
      BY <1>a, <3>1, <3>2 DEF PioMay
    <3>3. CASE /\ cache'.gpio = PinValues(chip, levels)
               /\ asked' = Misread(PinValues(chip, levels))
      <4>1. \/ asked'[p] = BOOLEAN
            \/ /\ asked'[p] = asked[p]
               /\ Bit(p) \in PinValues(chip, levels) <=> Bit(p) \in chip.olat
        BY <3>3 DEF Misread
      <4> QED BY <1>a, <3>1, <3>3, <4>1 DEF PioMay
    <3> QED BY <1>3, <3>2, <3>3, PioGetStep
  <2>3. caller'[t].at = "idle"
    BY <1>3, PioGetStep DEF Idle
  <2> QED BY <1>3, <2>1, <2>2, <2>3, PioGetStep DEF PioOutputsKnown, PioHold
<1>4. ASSUME NEW t \in PioCallers, NEW pins, NEW values, NEW new,
             PioOutputStep(t, pins, values, new), caller[t].at \in PioHold,
             \A p \in PioOutputs :
               /\ p \in pins => (Bit(p) \in new <=> p \in values)
               /\ p \notin pins => (Bit(p) \in new <=> Bit(p) \in cache.gpio)
      PROVE  PioOutputsKnown'
  <2>1. caller'[t].at = "idle"
    BY <1>4 DEF PioOutputStep, Idle
  <2>2. \A u \in PioCallers : u # t => caller'[u] = caller[u] /\ caller[u].at \notin PioHold
    BY <1>4 DEF PioOutputStep, PioLocked
  <2>3. \A p \in PioOutputs : PioMay(p, Bit(p) \in chip.olat)' /\ PioMay(p, Bit(p) \in cache.gpio)'
    BY <1>4, PioOutputsAfter
  <2> QED BY <2>1, <2>2, <2>3 DEF PioOutputsKnown, PioHold
<1>5. ASSUME NEW t \in PioCallers, set_masked_raw(t) PROVE PioOutputsKnown'
  <2> DEFINE r == caller[t]
  <2>1. r.at = "setting" /\ PioOutputStep(t, r.mask, r.value, r.new)
    BY <1>5, PioSetStep
  <2>2. /\ r.value \subseteq r.mask /\ r.mask \subseteq PioOutputs
        /\ r.new = (cache.gpio \ {Bit(p) : p \in r.mask}) \union {Bit(p) : p \in r.value}
    BY <2>1, PioLabels DEF PioOutputsKnown, NewGpio, PioSetting
  <2>3. ASSUME NEW p \in PioOutputs
        PROVE  /\ Bit(p) \in {Bit(q) : q \in r.mask} <=> p \in r.mask
               /\ Bit(p) \in {Bit(q) : q \in r.value} <=> p \in r.value
    BY <2>2, PioPins
  <2>4. \A p \in PioOutputs :
          /\ p \in r.mask => (Bit(p) \in r.new <=> p \in r.value)
          /\ p \notin r.mask => (Bit(p) \in r.new <=> Bit(p) \in cache.gpio)
    BY <2>2, <2>3
  <2>5. r.at \in PioHold
    BY <2>1 DEF PioHold
  <2> HIDE DEF r
  <2> QED BY <1>4, <2>1, <2>4, <2>5 DEF r
<1>6. ASSUME NEW t \in PioCallers, pin_configure(t) PROVE PioOutputsKnown'
  <2> DEFINE pin == {caller[t].pin}
             b == {Bit(caller[t].pin)}
  <2>1. /\ caller[t].at = "configuring" /\ caller[t].pin \in PioOutputs
        /\ \/ PioOutputStep(t, pin, pin, cache.gpio \union b)
           \/ PioOutputStep(t, pin, {}, cache.gpio \ b)
    BY <1>6, PioConfigureStep
  <2>2. \A p \in PioOutputs :
          /\ p \in pin => (Bit(p) \in (cache.gpio \union b) <=> p \in pin)
          /\ p \notin pin => (Bit(p) \in (cache.gpio \union b) <=> Bit(p) \in cache.gpio)
    BY <2>1, PioPins
  <2>3. \A p \in PioOutputs :
          /\ p \in pin => (Bit(p) \in (cache.gpio \ b) <=> p \in {})
          /\ p \notin pin => (Bit(p) \in (cache.gpio \ b) <=> Bit(p) \in cache.gpio)
    BY <2>1, PioPins
  <2>4. caller[t].at \in PioHold
    BY <2>1 DEF PioHold
  <2> HIDE DEF pin, b
  <2>5. CASE PioOutputStep(t, pin, pin, cache.gpio \union b)
    BY <1>4, <2>2, <2>4, <2>5
  <2>6. CASE PioOutputStep(t, pin, {}, cache.gpio \ b)
    BY <1>4, <2>3, <2>4, <2>6
  <2> QED BY <2>1, <2>5, <2>6
<1>7. ASSUME NEW t \in PioCallers, pin_interrupt_configure(t) PROVE PioOutputsKnown'
  BY <1>7, PioInterruptStep DEF PioOutputsKnown, PioMay, NewGpio
<1>8. ASSUME NEW t \in PioCallers, write_interrupt_config(t) PROVE PioOutputsKnown'
  BY <1>8, PioWriteStep DEF PioOutputsKnown, PioMay, NewGpio
<1>9. CASE IsrInterruptConfigure
  BY <1>9, PioIsrStep DEF PioOutputsKnown, PioMay, NewGpio
<1>10. CASE WorkStart
  BY <1>0, <1>10, PioStartStep DEF PioOutputsKnown, PioMay, NewGpio, PioItems
<1>11. CASE HandlerReadsIntf \/ HandlerReadsIntcap
  BY <1>0, <1>11, PioHandlerStep DEF PioOutputsKnown, PioMay, NewGpio
<1>12. CASE power_io_shield_init \/ NullWork \/ int_gpio_handler \/ PinChanges \/ OtherShield
  BY <1>12, PioEnvironmentStep DEF PioOutputsKnown, PioMay, NewGpio
<1>13. CASE UNCHANGED pioVars
  BY <1>13 DEF pioVars, PioOutputsKnown, PioMay, NewGpio
<1> QED BY <1>0, <1>1, <1>2, <1>3, <1>5, <1>6, <1>7, <1>8, <1>9, <1>10, <1>11, <1>12, <1>13
        DEF PioNext, ThreadStep, WorkStep

LEMMA PioNextConfig ==
  PioTypeOK /\ PioLocked /\ PioConfigKnown /\ [PioNext]_pioVars => PioConfigKnown'
<1> SUFFICES ASSUME PioTypeOK, PioLocked, PioConfigKnown, [PioNext]_pioVars,
                    bounds'.faults = 0
             PROVE  PioConfigKnown'
  BY DEF PioConfigKnown
<1>0. WorkQueue \in PioCallers /\ \A t \in PioThreads : t \in PioCallers
  BY DEF PioCallers
<1>1. ASSUME NEW t \in PioThreads, Call(t) PROVE PioConfigKnown'
  BY <1>0, <1>1, PioCallStep DEF PioConfigKnown, PioPending, Writing
<1>2. ASSUME NEW t \in PioCallers, Take(t) PROVE PioConfigKnown'
  <2>1. /\ caller'[t].at = Entered[caller[t].at] /\ caller[t].at \in DOMAIN Entered
        /\ \A u \in PioCallers : u # t => caller'[u] = caller[u]
        /\ UNCHANGED <<chip, cache, works, bounds, retained>>
    BY <1>2, PioTakeStep
  <2>2. Writing(t) => Writing(t)'
    BY <2>1 DEF Writing, Entered
  <2>3. caller'[t].at \notin {"INTCON", "GPINTEN"}
    BY <2>1 DEF Entered
  <2>4. PioPending => PioPending'
    BY <2>1, <2>2 DEF PioPending, Writing
  <2> QED BY <2>1, <2>3, <2>4 DEF PioConfigKnown
<1>3. ASSUME NEW t \in PioCallers,
             port_get_raw(t) \/ set_masked_raw(t) \/ pin_configure(t)
      PROVE  PioConfigKnown'
  <2>1. /\ caller[t].at \in {"reading", "setting", "configuring"} /\ caller'[t] = Idle
        /\ \A u \in PioCallers : u # t => caller'[u] = caller[u]
        /\ chip'.gpinten = chip.gpinten
        /\ chip'.intcon = chip.intcon /\ chip'.defval = chip.defval
        /\ cache'.gpinten = cache.gpinten /\ cache'.intcon = cache.intcon
        /\ cache'.defval = cache.defval
        /\ bounds.faults = 0 /\ UNCHANGED <<works, retained>>
    BY <1>3, PioGetStep, PioSetStep, PioConfigureStep DEF PioOutputStep
  <2>2. caller'[t].at = "idle"
    BY <2>1 DEF Idle
  <2> QED BY <2>1, <2>2 DEF PioConfigKnown, PioPending, Writing
<1>4. ASSUME NEW t \in PioCallers, pin_interrupt_configure(t) PROVE PioConfigKnown'
  <2>1. /\ caller[t].at = "updating" /\ caller'[t].at = "write"
        /\ \A u \in PioCallers : u # t => caller'[u] = caller[u]
    BY <1>4, PioInterruptStep
  <2>2. \A u \in PioCallers : caller'[u].at \notin {"INTCON", "GPINTEN"}
    BY <2>1 DEF PioLocked, PioHold
  <2>3. PioPending'
    BY <2>1 DEF PioPending, Writing
  <2> QED BY <2>2, <2>3 DEF PioConfigKnown
<1>5. CASE IsrInterruptConfigure
  <2>1. \A u \in PioCallers : caller'[u].at \notin PioHold
    BY <1>5, PioIsrStep, PioUnlocked
  <2>2. PioPending'
    BY <1>5, PioIsrStep DEF PioPending
  <2> QED BY <2>1, <2>2 DEF PioConfigKnown, PioHold
<1>6. ASSUME NEW t \in PioCallers, write_interrupt_config(t) PROVE PioConfigKnown'
  <2>1. /\ caller[t].at \in {"DEFVAL", "INTCON", "GPINTEN"} /\ bounds.faults = 0
        /\ \A u \in PioCallers : u # t => caller'[u] = caller[u]
        /\ UNCHANGED <<cache, works>>
    BY <1>6, PioWriteStep
  <2>2. \A u \in PioCallers : u # t => caller'[u].at \notin PioHold
    BY <2>1 DEF PioLocked, PioHold
  <2>3. CASE caller[t].at = "DEFVAL"
    <3>1. caller'[t].at = "INTCON" /\ chip'.defval = cache'.defval
      BY <1>6, <2>1, <2>3, PioWriteStep
    <3>2. PioPending'
      BY <3>1 DEF PioPending, Writing
    <3> QED BY <2>2, <3>1, <3>2 DEF PioConfigKnown, PioHold
  <2>4. CASE caller[t].at = "INTCON"
    <3>1. /\ caller'[t].at = "GPINTEN" /\ chip'.intcon = cache'.intcon
          /\ chip'.defval = chip.defval
      BY <1>6, <2>1, <2>4, PioWriteStep
    <3>2. chip'.defval = cache'.defval
      BY <2>1, <2>4, <3>1 DEF PioConfigKnown
    <3>3. PioPending'
      BY <3>1 DEF PioPending, Writing
    <3> QED BY <2>2, <3>1, <3>2, <3>3 DEF PioConfigKnown, PioHold
  <2>5. CASE caller[t].at = "GPINTEN"
    <3>1. /\ caller'[t].at = "idle" /\ chip'.gpinten = cache'.gpinten
          /\ chip'.intcon = chip.intcon /\ chip'.defval = chip.defval
      BY <1>6, <2>1, <2>5, PioWriteStep
    <3>2. chip'.defval = cache'.defval /\ chip'.intcon = cache'.intcon
      BY <2>1, <2>5, <3>1 DEF PioConfigKnown
    <3> QED BY <2>2, <3>1, <3>2 DEF PioConfigKnown, PioHold
  <2> QED BY <2>1, <2>3, <2>4, <2>5
<1>7. CASE WorkStart
  <2>1. PioPending => PioPending'
    BY <1>0, <1>7, PioStartStep DEF PioPending, Writing
  <2> QED BY <1>0, <1>7, <2>1, PioStartStep DEF PioConfigKnown, PioItems
<1>8. CASE HandlerReadsIntf \/ HandlerReadsIntcap
  <2>1. PioPending => PioPending'
    BY <1>0, <1>8, PioHandlerStep DEF PioPending, Writing
  <2> QED BY <1>0, <1>8, <2>1, PioHandlerStep DEF PioConfigKnown
<1>9. CASE power_io_shield_init \/ NullWork \/ int_gpio_handler \/ PinChanges \/ OtherShield
  <2>1. PioPending => PioPending'
    BY <1>9, PioEnvironmentStep DEF PioPending, Writing
  <2> QED BY <1>9, <2>1, PioEnvironmentStep DEF PioConfigKnown
<1>10. CASE UNCHANGED pioVars
  BY <1>10 DEF pioVars, PioConfigKnown, PioPending, Writing
<1> QED BY <1>0, <1>1, <1>2, <1>3, <1>4, <1>5, <1>6, <1>7, <1>8, <1>9, <1>10
        DEF PioNext, ThreadStep, WorkStep

LEMMA PioInvAsked == PioInv => ChipAsAsked
<1> SUFFICES ASSUME PioInv PROVE ChipAsAsked
  OBVIOUS
<1>1. OutputsAsAsked
  <2> SUFFICES ASSUME NEW p \in PioOutputs PROVE (Bit(p) \in chip.olat) \in asked[p]
    BY DEF OutputsAsAsked
  <2> DEFINE high == Bit(p) \in chip.olat
  <2>1. high \in BOOLEAN
    OBVIOUS
  <2>2. PioMay(p, high)
    BY DEF PioInv, PioOutputsKnown
  <2> HIDE DEF high
  <2>3. ASSUME high = TRUE PROVE high \in asked[p]
    BY <2>2, <2>3 DEF PioMay
  <2>4. ASSUME high = FALSE PROVE high \in asked[p]
    BY <2>2, <2>4 DEF PioMay
  <2>5. high \in asked[p]
    BY <2>1, <2>3, <2>4
  <2> QED BY <2>5 DEF high
<1>2. ConfigWritten
  <2>1. DOMAIN caller = PioCallers /\ bounds.faults \in Nat
    BY DEF PioInv, PioTypeOK, PioCallers
  <2>2. bounds.faults = 0 \/ bounds.faults > 0
    BY <2>1
  <2> QED BY <2>1, <2>2 DEF PioInv, PioConfigKnown, PioPending, ConfigWritten
<1> QED BY <1>1, <1>2 DEF ChipAsAsked

(* The power IO shield (port_set_masked_raw, pin_configure, port_get_raw,  *)
(* pin_interrupt_configure, write_interrupt_config): whatever threads, the *)
(* work queue and interrupts do at once, and whichever transfers fail, an  *)
(* output has a value some call asked for and no call has replaced, unless *)
(* it was high at the reset or was read at another level than its latch    *)
(* and not asked for since; and the expander gets the interrupt            *)
(* configuration of the cache, whatever it had at the reset.               *)
THEOREM ExpanderAsAsked == PioSpec => []ChipAsAsked
<1>1. PioInv /\ [PioNext]_pioVars => PioInv'
  BY PioNextLocked, PioNextOutputs, PioNextConfig DEF PioInv
<1> QED BY <1>1, PioInitInv, PioInvAsked, PTL DEF PioSpec
=============================================================================
