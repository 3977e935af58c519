------------------------------- MODULE CanLog -------------------------------
(***************************************************************************)
(* The log backend of lib/can_log/can_log.c.  A message is cut into CAN    *)
(* frames; the log thread sends one and waits, with a timeout, for the     *)
(* semaphore that the transmit callback gives.  In panic mode frames are   *)
(* handed to the controller without waiting.                               *)
(*                                                                         *)
(* Formatting and the contents of a frame are left out; a frame is its     *)
(* length.  The controller transmits in the order of the requests.         *)
(***************************************************************************)
EXTENDS Naturals, Sequences, FiniteSets

CONSTANTS
  CanMaxDlen,      \* CAN_MAX_DLEN
  LogLengths,      \* lengths of formatted messages
  Mailboxes,       \* transmit buffers of the controller
  LogMaxMessages   \* bound: messages

ASSUME CanLogAssumption ==
  /\ CanMaxDlen \in Nat \ {0}
  /\ LogLengths \subseteq Nat \ {0}
  /\ Mailboxes \in Nat \ {0}
  /\ LogMaxMessages \in Nat

VARIABLES
  can_tx_sem,
  panic_mode,
  canState,     \* state of the controller: "running", "bus off" or "stopped"
  logThread,    \* what the log thread is doing; left, the bytes still to send
  inFlight,     \* callbacks of the frames the controller has
  messages,     \* messages so far
  debt          \* history: timeouts since the log thread last found nothing in flight

logVars == <<can_tx_sem, panic_mode, canState, logThread, inFlight, messages, debt>>

LogInit ==
  /\ can_tx_sem = 0
  /\ panic_mode = FALSE
  /\ canState \in {"running", "stopped"}   \* CONFIG_CAN_LOG_AUTOSTART_BUS or not
  /\ logThread = [at |-> "idle", left |-> 0]
  /\ inFlight = <<>>
  /\ messages = 0
  /\ debt = 0

can_log_is_ready == canState = "running"

can_log_process ==
  /\ logThread.at = "idle" /\ messages < LogMaxMessages
  /\ messages' = messages + 1
  /\ \E n \in LogLengths : logThread' = [at |-> "line out", left |-> n]
  /\ UNCHANGED <<can_tx_sem, panic_mode, canState, inFlight, debt>>

Sent(left) == IF left > CanMaxDlen THEN left - CanMaxDlen ELSE 0

Continue(left) == [at |-> IF left = 0 THEN "idle" ELSE "line out", left |-> left]

(* can_send: accepted while there is a free mailbox; it may also be        *)
(* refused, at once or when its timeout ends.                              *)
CanSend(cb) ==
  \/ Len(inFlight) < Mailboxes /\ inFlight' = Append(inFlight, cb)
  \/ UNCHANGED inFlight

(* Mutant: the semaphore is not reset before a frame is sent.              *)
can_log_line_out_no_reset ==
  /\ logThread.at = "line out"
  /\ IF ~can_log_is_ready THEN logThread' = Continue(0) /\ UNCHANGED <<can_tx_sem, inFlight>>
     ELSE IF panic_mode THEN /\ CanSend("no wait")
                             /\ logThread' = Continue(Sent(logThread.left))
                             /\ UNCHANGED can_tx_sem
     ELSE /\ UNCHANGED can_tx_sem
          /\ logThread' = [logThread EXCEPT !.at = "send"]
          /\ UNCHANGED inFlight
  /\ debt' = IF inFlight = <<>> THEN 0 ELSE debt
  /\ UNCHANGED <<panic_mode, canState, messages>>

(* Not ready: the rest of the message is dropped.  Otherwise a frame is    *)
(* sent without waiting, or the semaphore is reset first.                  *)
can_log_line_out ==
  /\ logThread.at = "line out"
  /\ IF ~can_log_is_ready THEN logThread' = Continue(0) /\ UNCHANGED <<can_tx_sem, inFlight>>
     ELSE IF panic_mode THEN /\ CanSend("no wait")
                             /\ logThread' = Continue(Sent(logThread.left))
                             /\ UNCHANGED can_tx_sem
     ELSE /\ can_tx_sem' = 0
          /\ logThread' = [logThread EXCEPT !.at = "send"]
          /\ UNCHANGED inFlight
  /\ debt' = IF inFlight = <<>> THEN 0 ELSE debt
  /\ UNCHANGED <<panic_mode, canState, messages>>

LogSend ==
  /\ logThread.at = "send"
  /\ CanSend("give")
  /\ logThread' = [logThread EXCEPT !.at = "wait"]
  /\ UNCHANGED <<can_tx_sem, panic_mode, canState, messages, debt>>

(* k_sem_take with CONFIG_CAN_LOG_SEND_TIMEOUT_MS: given, or timed out.    *)
LogWait ==
  /\ logThread.at = "wait"
  /\ \/ can_tx_sem = 1 /\ can_tx_sem' = 0 /\ UNCHANGED debt
     \/ can_tx_sem = 0 /\ UNCHANGED can_tx_sem /\ debt' = debt + 1
  /\ logThread' = Continue(Sent(logThread.left))
  /\ UNCHANGED <<panic_mode, canState, inFlight, messages>>

(* can_log_tx_cb, can_log_tx_cb_no_wait: the oldest frame was sent or      *)
(* given up.                                                               *)
can_log_tx_cb ==
  /\ inFlight # <<>>
  /\ inFlight' = Tail(inFlight)
  /\ can_tx_sem' = IF Head(inFlight) = "give" THEN 1 ELSE can_tx_sem
  /\ UNCHANGED <<panic_mode, canState, logThread, messages, debt>>

can_log_panic ==
  /\ ~panic_mode
  /\ panic_mode' = TRUE
  /\ UNCHANGED <<can_tx_sem, canState, logThread, inFlight, messages, debt>>

(* External: the controller is started, stopped, or goes to bus-off.       *)
CanStateChanges ==
  /\ canState' \in {"running", "bus off", "stopped"} \ {canState}
  /\ UNCHANGED <<can_tx_sem, panic_mode, logThread, inFlight, messages, debt>>

LogNext ==
  \/ can_log_process
  \/ can_log_line_out
  \/ LogSend
  \/ LogWait
  \/ can_log_tx_cb
  \/ can_log_panic
  \/ CanStateChanges

(* The log does not run ahead of the bus: between two frames the           *)
(* controller holds at most as many log frames as waits have timed out     *)
(* since a frame was last begun with none in flight, although a callback   *)
(* that comes late gives the semaphore for a later frame.                  *)
LogPaced ==
  ~panic_mode /\ logThread.at \in {"idle", "line out"} => Len(inFlight) <= debt
=============================================================================
