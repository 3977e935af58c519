--------------------------- MODULE FirmwareUpdate ---------------------------
(***************************************************************************)
(* A firmware update over UDS: the application that switches to the        *)
(* firmware loader (diag_session_ctrl.c), the loader (firmware_loader/src: *)
(* main.c, uds_session.c, uds_routine_control.c) and the client, the       *)
(* "ardep-uds" runner.  They share slot 0 of the flash and one byte of     *)
(* retained memory; everything else is lost in a reboot.                   *)
(*                                                                         *)
(* The data transfer services are modelled in UdsTransfer; here a block is *)
(* written if its cells are erased.                                        *)
(*                                                                         *)
(* External: MCUboot (boots the loader if the boot mode says so, and then  *)
(* clears it, or if slot 0 holds no valid image), flash, retained memory.  *)
(***************************************************************************)
EXTENDS Naturals, Sequences

CONSTANTS
  N,        \* blocks of the image
  MaxRuns   \* how often the runner is started

ASSUME UpdateAssumption == N \in Nat \ {0} /\ MaxRuns \in Nat \ {0}

VARIABLES
  running,    \* "boot", "app", "main" (main() of the loader) or "loader"
  retention,  \* the retained session type
  bootmode,
  slot,       \* what each block of slot 0 holds
  session,    \* the loader's session
  erasure,    \* state and result of the erase routine
  work,       \* its work item: "idle", "scheduled" or "running"
  download,   \* blocks written by the running download, or Idle
  resetting,  \* the reset of ECUReset is scheduled
  runner,     \* where the runner is
  sent,       \* blocks the runner has transferred
  runs        \* how often it was started

client == <<runner, sent, runs>>

vars == <<running, retention, bootmode, slot, session, erasure, work,
          download, resetting, client>>

Blocks == 1 .. N

(* No download is in progress.                                             *)
Idle == N + 1

Valid == \/ \A b \in Blocks : slot[b] = "old"
         \/ \A b \in Blocks : slot[b] = "new"

ResultCodes == {"OK", "GeneralProgrammingFailure"}

InitialErasure == [state |-> "NOT_STARTED", result |-> "OK"]

Init ==
  /\ running = "app"
  /\ retention = "DEFAULT" /\ bootmode = "normal"
  /\ slot = [b \in Blocks |-> "old"]
  /\ session = "DEFAULT"
  /\ erasure = InitialErasure
  /\ work = "idle"
  /\ download = Idle
  /\ resetting = FALSE
  /\ runner = "idle" /\ sent = 0 /\ runs = 0

Reboot ==
  /\ running' = "boot"
  /\ session' = "DEFAULT"
  /\ erasure' = InitialErasure
  /\ work' = "idle"
  /\ download' = Idle
  /\ resetting' = FALSE

UnchangedLoader == UNCHANGED <<session, erasure, work, download, resetting>>
-----------------------------------------------------------------------------
(* External: MCUboot.                                                      *)
Boot ==
  /\ running = "boot"
  /\ running' = IF bootmode = "bootloader" \/ ~Valid THEN "main" ELSE "app"
  /\ bootmode' = "normal"
  /\ UNCHANGED <<retention, slot, client>>
  /\ UnchangedLoader

(* Mutant: the stored session type is left as it is.                       *)
LoaderMainKeepsType ==
  /\ running = "main"
  /\ running' = "loader"
  /\ session' = IF retention = "PROGRAMMING" THEN "PROGRAMMING" ELSE session
  /\ runner' = IF runner = "session_wait" /\ retention = "PROGRAMMING"
               THEN "erase" ELSE runner
  /\ UNCHANGED <<retention, bootmode, slot, erasure, work, download,
                 resetting, sent, runs>>

(* main() of the loader.  The injected request is answered to the client   *)
(* that made it in the application.  Retained memory may fail to be read   *)
(* or written; main() returns then.                                        *)
LoaderMain ==
  /\ running = "main"
  /\ running' = "loader"
  /\ \/ /\ retention' = "DEFAULT"
        /\ session' = IF retention = "PROGRAMMING" THEN "PROGRAMMING" ELSE session
        /\ runner' = IF runner = "session_wait" /\ retention = "PROGRAMMING"
                     THEN "erase" ELSE runner
     \/ UNCHANGED <<retention, session, runner>>
  /\ UNCHANGED <<bootmode, slot, erasure, work, download,
                 resetting, sent, runs>>

(* on_session_timeout_action: a cold reboot, also in the middle of an      *)
(* erase, of which any part may be done.                                   *)
SessionTimeout ==
  /\ running = "loader"
  /\ session # "DEFAULT"
  /\ Reboot
  /\ UNCHANGED <<retention, bootmode, slot, client>>
-----------------------------------------------------------------------------
(* The erase routine 0xFF00.                                               *)

(* erase_slot0_work_handler runs 150 ms after the start.  The result it    *)
(* stores tells only whether the partition could be opened ...             *)
EraseWorkBegins ==
  /\ work = "scheduled"
  /\ \/ work' = "running" /\ UNCHANGED erasure
     \/ /\ work' = "idle"
        /\ erasure' = [state |-> "COMPLETED", result |-> "GeneralProgrammingFailure"]
  /\ UNCHANGED <<running, retention, bootmode, slot, session, download,
                 resetting, client>>

(* flash_area_erase goes from page to page.                                *)
ErasePage ==
  /\ work = "running"
  /\ \E b \in Blocks : slot[b] # "erased" /\ slot' = [slot EXCEPT ![b] = "erased"]
  /\ UNCHANGED <<running, retention, bootmode, session, erasure, work,
                 download, resetting, client>>

(* ... a failure of flash_area_erase, after any number of pages, is logged. *)
EraseWorkEnds ==
  /\ work = "running"
  /\ work' = "idle"
  /\ erasure' = [state |-> "COMPLETED", result |-> "OK"]
  /\ UNCHANGED <<running, retention, bootmode, slot, session, download,
                 resetting, client>>

(* RoutineControl start: refused while an erase is in progress.            *)
StartErase(onOk) ==
  \/ /\ erasure.state # "IN_PROGRESS"
     /\ erasure' = [state |-> "IN_PROGRESS", result |-> "OK"]
     /\ work' = "scheduled"
     /\ runner' = onOk
  \/ /\ erasure.state = "IN_PROGRESS"
     /\ runner' = "failed"
     /\ UNCHANGED <<erasure, work>>

(* Mutant: a result is reported before the erase has completed.            *)
EraseResultEarly(onOk) ==
  runner' = IF erasure.result = "OK" THEN onOk ELSE "failed"

(* RoutineControl request results: refused before the erase is completed.  *)
EraseResult(onOk) ==
  runner' = IF erasure.state = "COMPLETED" /\ erasure.result = "OK"
            THEN onOk ELSE "failed"
-----------------------------------------------------------------------------
(* uds_switch_to_firmware_loader_with_programming_session in the           *)
(* application: the session type is stored before the boot mode, and each  *)
(* may fail.                                                               *)
SwitchToLoader ==
  \/ /\ retention' = "PROGRAMMING"
     /\ bootmode' = "bootloader"
     /\ Reboot
     /\ runner' = "session_wait"
  \/ /\ retention' = "PROGRAMMING"
     /\ runner' = "failed"
     /\ UNCHANGED <<running, bootmode>> /\ UnchangedLoader
  \/ /\ runner' = "failed"
     /\ UNCHANGED <<running, retention, bootmode>> /\ UnchangedLoader

(* do_run of the runner, one request at a time.  It gives up when an       *)
(* answer is negative or does not come in time; the request may have been  *)
(* carried out.                                                            *)

RunnerStarts ==
  /\ runner \in {"idle", "failed", "done"}
  /\ runs < MaxRuns
  /\ runs' = runs + 1
  /\ sent' = 0
  /\ runner' = "session"
  /\ UNCHANGED <<running, retention, bootmode, slot>> /\ UnchangedLoader

RunnerRequestsSession ==
  /\ runner = "session"
  /\ \/ running = "app" /\ SwitchToLoader
     \/ /\ running = "loader"
        /\ session' = "PROGRAMMING"
        /\ runner' = "erase"
        /\ UNCHANGED <<running, retention, bootmode, erasure, work, download, resetting>>
  /\ UNCHANGED <<slot, sent, runs>>

RunnerErases ==
  /\ runner = "erase" /\ running = "loader"
  /\ StartErase("result")
  /\ UNCHANGED <<running, retention, bootmode, slot, session, download,
                 resetting, sent, runs>>

RunnerAsksResult ==
  /\ runner = "result" /\ running = "loader"
  /\ EraseResult("download")
  /\ UNCHANGED <<running, retention, bootmode, slot, session, erasure, work,
                 download, resetting, sent, runs>>

RunnerRequestsDownload ==
  /\ runner = "download" /\ running = "loader"
  /\ download' = 0
  /\ runner' = "transfer"
  /\ UNCHANGED <<running, retention, bootmode, slot, session, erasure, work,
                 resetting, sent, runs>>

(* The next block fits into the download and its cells can be written.     *)
Writable == download < N /\ slot[download + 1] = "erased"

(* Mutant: a block is acknowledged although it was not written.            *)
RunnerTransfersAlways ==
  /\ runner = "transfer" /\ running = "loader"
  /\ sent < N
  /\ IF Writable
     THEN slot' = [slot EXCEPT ![download + 1] = "new"] /\ download' = download + 1
     ELSE UNCHANGED <<slot, download>>
  /\ sent' = sent + 1
  /\ UNCHANGED <<running, retention, bootmode, session, erasure, work, runner,
                 resetting, runs>>

(* TransferData: refused without a download or on cells not erased.        *)
RunnerTransfers ==
  /\ runner = "transfer" /\ running = "loader"
  /\ sent < N
  /\ \/ /\ Writable
        /\ slot' = [slot EXCEPT ![download + 1] = "new"]
        /\ download' = download + 1
        /\ sent' = sent + 1
        /\ UNCHANGED runner
     \/ /\ ~Writable
        /\ runner' = "failed"
        /\ UNCHANGED <<slot, download, sent>>
  /\ UNCHANGED <<running, retention, bootmode, session, erasure, work,
                 resetting, runs>>

RunnerExits ==
  /\ runner = "transfer" /\ running = "loader"
  /\ sent = N
  /\ download' = Idle
  /\ runner' = IF download = Idle THEN "failed" ELSE "reset"
  /\ UNCHANGED <<running, retention, bootmode, slot, session, erasure, work,
                 resetting, sent, runs>>

(* ECUReset is answered before the reset, which is scheduled.              *)
RunnerResets ==
  /\ runner = "reset" /\ running = "loader"
  /\ resetting' = TRUE
  /\ runner' = "done"
  /\ UNCHANGED <<running, retention, bootmode, slot, session, erasure, work,
                 download, sent, runs>>

ScheduledReset ==
  /\ resetting
  /\ Reboot
  /\ UNCHANGED <<retention, bootmode, slot, client>>

RunnerGivesUp ==
  /\ runner \notin {"idle", "failed", "done"}
  /\ runner' = "failed"
  /\ UNCHANGED <<running, retention, bootmode, slot, sent, runs>> /\ UnchangedLoader

DeviceStep ==
  \/ Boot
  \/ LoaderMain
  \/ SessionTimeout
  \/ ScheduledReset
  \/ EraseWorkBegins
  \/ ErasePage
  \/ EraseWorkEnds

RunnerStep ==
  \/ RunnerRequestsSession
  \/ RunnerErases
  \/ RunnerAsksResult
  \/ RunnerRequestsDownload
  \/ RunnerTransfers
  \/ RunnerExits
  \/ RunnerResets
  \/ RunnerGivesUp

Next == DeviceStep \/ RunnerStep \/ RunnerStarts

Spec == Init /\ [][Next]_vars

(* The device runs, its session timer included, and the runner goes on or  *)
(* gives up; nothing makes anyone start it.                                *)
FairSpec ==
  /\ Spec
  /\ WF_vars(Boot) /\ WF_vars(LoaderMain) /\ WF_vars(SessionTimeout)
  /\ WF_vars(ScheduledReset)
  /\ WF_vars(EraseWorkBegins) /\ WF_vars(EraseWorkEnds)
  /\ WF_vars(RunnerStep)
-----------------------------------------------------------------------------
(* Types.                                                                  *)
TypeOK ==
  /\ running \in {"boot", "app", "main", "loader"}
  /\ retention \in {"DEFAULT", "PROGRAMMING"}
  /\ bootmode \in {"normal", "bootloader"}
  /\ slot \in [Blocks -> {"old", "erased", "new"}]
  /\ session \in {"DEFAULT", "PROGRAMMING"}
  /\ erasure \in [state : {"NOT_STARTED", "IN_PROGRESS", "COMPLETED"},
                  result : ResultCodes]
  /\ work \in {"idle", "scheduled", "running"}
  /\ download \in 0 .. Idle
  /\ resetting \in BOOLEAN
  /\ runner \in {"idle", "session", "session_wait", "erase", "result",
                 "download", "transfer", "reset", "done", "failed"}
  /\ sent \in 0 .. N
  /\ runs \in 0 .. MaxRuns

(* "Firmware transfer complete" means that slot 0 holds the whole new      *)
(* image, whatever failed, timed out or was tried before.                  *)
CompleteMeansFlashed ==
  runner \in {"reset", "done"} => \A b \in Blocks : slot[b] = "new"

(* The erase never takes away a block that the running transfer was        *)
(* acknowledged.                                                           *)
NoEraseUnderTransfer ==
  runner \in {"download", "transfer", "reset", "done"} => work = "idle"

(* The routine is in progress exactly as long as its work item is pending  *)
(* or runs: a result is reported only when nothing erases any more.        *)
EraseTracked == (work # "idle") <=> (erasure.state = "IN_PROGRESS")

(* A run starts from nothing.  While it transfers, the blocks it counts    *)
(* are in slot 0, and the loader's download is at the next one unless a    *)
(* reboot has ended it.                                                    *)
SentIsWritten ==
  /\ runner \in {"session", "session_wait", "erase", "result", "download"} =>
       sent = 0
  /\ runner = "transfer" =>
       /\ download \in {sent, Idle}
       /\ \A b \in 1 .. sent : slot[b] = "new"

(* "reset session type in storage to prevent reboot-loops": once nobody    *)
(* starts the runner any more the device stops rebooting, also with an     *)
(* invalid image in slot 0.                                                *)
NoRebootLoop == <>[](running # "boot")

(* "Slot0 erased successfully."                                            *)
ErasedWhenReported ==
  runner = "download" => \A b \in Blocks : slot[b] = "erased"

(* Types, and no erase that goes on under a transfer, with what makes this *)
(* and CompleteMeansFlashed inductive.                                     *)
EraseOK ==
  TypeOK /\ EraseTracked /\ NoEraseUnderTransfer /\ SentIsWritten
=============================================================================
