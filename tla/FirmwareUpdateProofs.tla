------------------------ MODULE FirmwareUpdateProofs ------------------------
(***************************************************************************)
(* Proofs about FirmwareUpdate for images of any number of blocks and any  *)
(* number of runs of the runner: what it calls complete is in slot 0.      *)
(***************************************************************************)
EXTENDS FirmwareUpdate, TLAPS

UpdateInv == EraseOK /\ CompleteMeansFlashed

LEMMA InitInv == Init => UpdateInv
<1> SUFFICES ASSUME Init PROVE UpdateInv
  OBVIOUS
<1> USE UpdateAssumption DEF Init, InitialErasure
<1>1. erasure \in [state : {"NOT_STARTED", "IN_PROGRESS", "COMPLETED"},
                   result : ResultCodes]
  BY DEF ResultCodes
<1>2. slot \in [Blocks -> {"old", "erased", "new"}]
  OBVIOUS
<1>3. TypeOK
  <2>1. resetting \in BOOLEAN
    OBVIOUS
  <2>2. download \in 0 .. Idle
    BY DEF Idle
  <2> QED BY <1>1, <1>2, <2>1, <2>2 DEF TypeOK
<1> QED
  BY <1>3
  DEF UpdateInv, EraseOK, EraseTracked, NoEraseUnderTransfer, SentIsWritten,
      CompleteMeansFlashed

(* Of the loader a reboot leaves only the flash.                           *)
LEMMA RebootStep ==
  ASSUME UpdateInv, Reboot, UNCHANGED <<slot, sent, runs>>,
         retention' \in {"DEFAULT", "PROGRAMMING"},
         bootmode' \in {"normal", "bootloader"},
         \/ UNCHANGED runner
         \/ runner = "session" /\ runner' = "session_wait"
  PROVE  UpdateInv'
<1> USE UpdateAssumption DEF UpdateInv, EraseOK, Reboot, InitialErasure
<1>1. TypeOK'
  <2>1. resetting' \in BOOLEAN
    OBVIOUS
  <2>2. download' \in 0 .. Idle
    BY DEF Idle
  <2>3. erasure' \in [state : {"NOT_STARTED", "IN_PROGRESS", "COMPLETED"},
                      result : ResultCodes]
    BY DEF ResultCodes
  <2>4. runner' \in {runner, "session_wait"}
    OBVIOUS
  <2> QED BY <2>1, <2>2, <2>3, <2>4 DEF TypeOK
<1>2. EraseTracked'
  BY DEF EraseTracked
<1>3. NoEraseUnderTransfer' /\ CompleteMeansFlashed'
  BY DEF NoEraseUnderTransfer, CompleteMeansFlashed
<1>4. SentIsWritten'
  BY DEF SentIsWritten, Idle
<1> QED BY <1>1, <1>2, <1>3, <1>4

(* The boot loader, and main() of the loader.                              *)
LEMMA BootStep ==
  ASSUME UpdateInv, Boot \/ LoaderMain
  PROVE  UpdateInv'
<1> USE UpdateAssumption DEF UpdateInv, EraseOK, client, UnchangedLoader
<1>1. TypeOK'
  BY DEF TypeOK, Boot, LoaderMain
<1> QED
  BY <1>1
  DEF Boot, LoaderMain, EraseTracked, NoEraseUnderTransfer, SentIsWritten,
      CompleteMeansFlashed, Idle, Blocks

(* The work item of the erase routine: no transfer is going on, so it does *)
(* not matter which pages it erases.                                       *)
LEMMA EraseStep ==
  ASSUME UpdateInv, EraseWorkBegins \/ ErasePage \/ EraseWorkEnds
  PROVE  UpdateInv'
<1> USE UpdateAssumption DEF UpdateInv, EraseOK, client
<1>1. runner \notin {"download", "transfer", "reset", "done"}
  BY DEF EraseWorkBegins, ErasePage, EraseWorkEnds, NoEraseUnderTransfer
<1>2. UNCHANGED <<runner, sent>>
  BY DEF EraseWorkBegins, ErasePage, EraseWorkEnds
<1>3. TypeOK'
  BY DEF TypeOK, EraseWorkBegins, ErasePage, EraseWorkEnds, ResultCodes
<1>4. EraseTracked'
  BY DEF EraseWorkBegins, ErasePage, EraseWorkEnds, EraseTracked, TypeOK
<1> QED
  BY <1>1, <1>2, <1>3, <1>4
  DEF NoEraseUnderTransfer, SentIsWritten, CompleteMeansFlashed

(* The requests of the runner before it transfers.                         *)
LEMMA PrepareStep ==
  ASSUME UpdateInv,
         RunnerErases \/ RunnerAsksResult \/ RunnerRequestsDownload
  PROVE  UpdateInv'
<1> USE UpdateAssumption DEF UpdateInv, EraseOK
<1>1. CASE RunnerErases
  BY <1>1
  DEF RunnerErases, StartErase, TypeOK, ResultCodes, EraseTracked,
      NoEraseUnderTransfer, SentIsWritten, CompleteMeansFlashed
<1>2. CASE RunnerAsksResult
  BY <1>2
  DEF RunnerAsksResult, EraseResult, TypeOK, EraseTracked,
      NoEraseUnderTransfer, SentIsWritten, CompleteMeansFlashed
<1>3. CASE RunnerRequestsDownload
  <2>1. sent = 0
    BY <1>3 DEF RunnerRequestsDownload, SentIsWritten
  <2> QED
    BY <1>3, <2>1
    DEF RunnerRequestsDownload, TypeOK, EraseTracked, NoEraseUnderTransfer,
        SentIsWritten, CompleteMeansFlashed, Idle
<1> QED BY <1>1, <1>2, <1>3

LEMMA SessionStep ==
  ASSUME UpdateInv, RunnerRequestsSession
  PROVE  UpdateInv'
<1>1. CASE running = "app" /\ SwitchToLoader
  <2>1. CASE Reboot /\ runner' = "session_wait"
    BY <1>1, <2>1, RebootStep
    DEF RunnerRequestsSession, SwitchToLoader, UpdateInv, EraseOK, TypeOK
  <2>2. CASE runner' = "failed" /\ UNCHANGED <<running, bootmode>> /\ UnchangedLoader
    BY <1>1, <2>2
    DEF RunnerRequestsSession, SwitchToLoader, UnchangedLoader, UpdateInv,
        EraseOK, TypeOK, EraseTracked, NoEraseUnderTransfer, SentIsWritten,
        CompleteMeansFlashed
  <2> QED BY <1>1, <2>1, <2>2 DEF SwitchToLoader
<1>2. CASE running = "loader" /\ session' = "PROGRAMMING" /\ runner' = "erase"
           /\ UNCHANGED <<running, retention, bootmode, erasure, work, download,
                          resetting>>
  BY <1>2
  DEF RunnerRequestsSession, UpdateInv, EraseOK, TypeOK, EraseTracked,
      NoEraseUnderTransfer, SentIsWritten, CompleteMeansFlashed
<1> QED BY <1>1, <1>2 DEF RunnerRequestsSession

(* A block is counted when its cells were erased and now hold it; it is    *)
(* the next block because the download is where the runner is.             *)
LEMMA TransferStep ==
  ASSUME UpdateInv, RunnerTransfers
  PROVE  UpdateInv'
<1> USE UpdateAssumption DEF UpdateInv, EraseOK, RunnerTransfers
<1>1. CASE Writable
  <2>1. /\ download = sent /\ sent < N /\ runner = "transfer"
        /\ slot' = [slot EXCEPT ![sent + 1] = "new"]
        /\ download' = sent + 1 /\ sent' = sent + 1 /\ UNCHANGED runner
    BY <1>1 DEF Writable, SentIsWritten, Idle, TypeOK
  <2>2. sent + 1 \in Blocks /\ sent \in Nat
    BY <2>1 DEF TypeOK, Blocks
  <2>3. TypeOK'
    BY <2>1, <2>2 DEF TypeOK, Idle, Blocks
  <2>4. \A b \in 1 .. sent' : slot'[b] = "new"
    BY <2>1, <2>2 DEF TypeOK, SentIsWritten, Blocks
  <2> QED
    BY <2>1, <2>3, <2>4
    DEF EraseTracked, NoEraseUnderTransfer, SentIsWritten, CompleteMeansFlashed
<1>2. CASE ~Writable
  BY <1>2
  DEF TypeOK, EraseTracked, NoEraseUnderTransfer, SentIsWritten,
      CompleteMeansFlashed
<1> QED BY <1>1, <1>2

LEMMA FinishStep ==
  ASSUME UpdateInv, RunnerExits \/ RunnerResets \/ RunnerGivesUp \/ RunnerStarts
  PROVE  UpdateInv'
<1> USE UpdateAssumption DEF UpdateInv, EraseOK, UnchangedLoader
<1>1. CASE RunnerExits
  <2>1. \A b \in Blocks : slot[b] = "new"
    BY <1>1 DEF RunnerExits, SentIsWritten, Blocks
  <2> QED
    BY <1>1, <2>1
    DEF RunnerExits, TypeOK, Idle, EraseTracked, NoEraseUnderTransfer,
        SentIsWritten, CompleteMeansFlashed
<1>2. CASE RunnerResets
  BY <1>2
  DEF RunnerResets, TypeOK, EraseTracked, NoEraseUnderTransfer, SentIsWritten,
      CompleteMeansFlashed
<1>3. CASE RunnerGivesUp
  BY <1>3
  DEF RunnerGivesUp, TypeOK, EraseTracked, NoEraseUnderTransfer, SentIsWritten,
      CompleteMeansFlashed
<1>4. CASE RunnerStarts
  BY <1>4
  DEF RunnerStarts, TypeOK, EraseTracked, NoEraseUnderTransfer, SentIsWritten,
      CompleteMeansFlashed
<1> QED BY <1>1, <1>2, <1>3, <1>4

LEMMA NextInv == UpdateInv /\ [Next]_vars => UpdateInv'
<1> SUFFICES ASSUME UpdateInv, [Next]_vars PROVE UpdateInv'
  OBVIOUS
<1>1. CASE SessionTimeout \/ ScheduledReset
  BY <1>1, RebootStep
  DEF SessionTimeout, ScheduledReset, client, UpdateInv, EraseOK, TypeOK
<1>2. CASE UNCHANGED vars
  BY <1>2
  DEF vars, client, UpdateInv, EraseOK, TypeOK, EraseTracked,
      NoEraseUnderTransfer, SentIsWritten, CompleteMeansFlashed
<1> QED
  BY <1>1, <1>2, BootStep, EraseStep, PrepareStep, SessionStep, TransferStep,
     FinishStep
  DEF Next, DeviceStep, RunnerStep

LEMMA UpdateInvariant == Spec => []UpdateInv
<1> QED BY InitInv, NextInv, PTL DEF Spec

(* The runner reports "Firmware transfer complete" only when slot 0 holds  *)
(* the whole new image: for every number of blocks, and whatever reboots,  *)
(* timeouts, failed erases and abandoned runs came before.                 *)
THEOREM CompleteIsFlashed == Spec => []CompleteMeansFlashed
<1>1. UpdateInv => CompleteMeansFlashed
  BY DEF UpdateInv
<1> QED BY <1>1, UpdateInvariant, PTL

(* erase_slot0_work_handler never runs under a transfer: the loader        *)
(* reports a result only when its work item is done, and the runner goes   *)
(* on only with a result.                                                  *)
THEOREM NoEraseDuringTransfer == Spec => []EraseOK
<1>1. UpdateInv => EraseOK
  BY DEF UpdateInv
<1> QED BY <1>1, UpdateInvariant, PTL
=============================================================================
