----------------------------- MODULE UdsSession -----------------------------
(***************************************************************************)
(* Diagnostic sessions, LinkControl and ECU reset of the default instance: *)
(* default_instance.c, diag_session_ctrl.c, link_control.c, ecu_reset.c    *)
(* and the CAN functions of util.c, with the dispatch of UdsDispatch.      *)
(* Three handlers see the session events, in the order the linker put      *)
(* them: "session" (default_instance.c), "link" (link_control.c) and       *)
(* "custom", one of the application.                                       *)
(*                                                                         *)
(* External: the iso14229 library (keeps sessionType, runs the session     *)
(* timer, hands requests over in one receive buffer that keeps the bytes   *)
(* a shorter request does not overwrite), the CAN driver, whose calls may  *)
(* fail, retention and boot mode, the application's handler.               *)
(***************************************************************************)
EXTENDS Naturals, UdsDispatch

CONSTANTS
  Orders,          \* possible orders of the three handlers
  CustomConsumes,  \* does the application's handler consume the event?
  SwitchEnabled,   \* does a programming session start the firmware loader?
  CanFaults,       \* CAN driver calls that may fail: "stop", "set", "start"
  MaxFaults        \* how many may fail in a run

Handlers == {"session", "link", "custom"}

(* The linker puts every handler somewhere, once.                          *)
ASSUME SessionAssumption ==
  /\ Orders \subseteq {o \in Seq(Handlers) : Len(o) = 3 /\ ToSet(o) = Handlers}
  /\ CustomConsumes \in BOOLEAN /\ SwitchEnabled \in BOOLEAN
  /\ CanFaults \subseteq {"stop", "set", "start"}
  /\ MaxFaults \in Nat

VARIABLES
  order,        \* the order of the handlers in this build
  sessionType,
  modifier, modifier_set,  \* the statics of link_control.c
  bitrate, can,            \* bit rate and state of the CAN controller
  byte2,        \* third byte of the receive buffer
  reset,        \* is a reset scheduled?
  code,         \* the last response
  faults        \* faults so far

vars == <<order, sessionType, modifier, modifier_set, bitrate, can, byte2,
          reset, code, faults>>

SessionTypes == {"DEFAULT", "PROGRAMMING", "EXTENDED"}

(* Values of a byte: link modifiers and a value that is none.              *)
CanModifiers == {"CAN_125000", "CAN_250000", "CAN_500000", "CAN_1000000"}

Bytes == CanModifiers \cup {"other"}

(* uds_link_control_modifier_to_baudrate, for CAN                          *)
Baudrate(m) ==
  CASE m = "CAN_125000"  -> 125000
    [] m = "CAN_250000"  -> 250000
    [] m = "CAN_500000"  -> 500000
    [] m = "CAN_1000000" -> 1000000
    [] OTHER -> 0

DefaultBitrate == 500000

(* All of this is RAM and CAN registers.                                   *)
PowerOn ==
  /\ sessionType' = "DEFAULT"
  /\ modifier' = "other" /\ modifier_set' = FALSE
  /\ bitrate' = DefaultBitrate /\ can' = "started"
  /\ byte2' = "other"
  /\ reset' = FALSE
  /\ code' = "none"
  /\ UNCHANGED <<order, faults>>

Init ==
  /\ order \in Orders
  /\ sessionType = "DEFAULT"
  /\ modifier = "other" /\ modifier_set = FALSE
  /\ bitrate = DefaultBitrate /\ can = "started"
  /\ byte2 = "other"
  /\ reset = FALSE
  /\ code = "none"
  /\ faults = 0
-----------------------------------------------------------------------------
Links == [bitrate : {Baudrate(m) : m \in Bytes}, can : {"started", "stopped"}]

Link == [bitrate |-> bitrate, can |-> can]

(* The call that fails in this step, if any.                               *)
Fault(f) ==
  \/ f = "none" /\ UNCHANGED faults
  \/ f \in CanFaults /\ faults < MaxFaults /\ faults' = faults + 1

(* Mutant: after a refused bit rate the controller stays stopped.          *)
SetBitrateNoRestart(link, baud, f) ==
  IF f = "stop" \/ link.can = "stopped" THEN [code |-> "NRC", link |-> link]
  ELSE IF f = "set" \/ baud = 0
       THEN [code |-> "NRC", link |-> [link EXCEPT !.can = "stopped"]]
  ELSE IF f = "start"
       THEN [code |-> "NRC", link |-> [bitrate |-> baud, can |-> "stopped"]]
  ELSE [code |-> "OK", link |-> [bitrate |-> baud, can |-> "started"]]

(* uds_set_can_bitrate.  can_stop also fails on a stopped controller, and  *)
(* can_set_bitrate on a rate of 0.                                         *)
SetBitrate(link, baud, f) ==
  IF f = "stop" \/ link.can = "stopped" THEN [code |-> "NRC", link |-> link]
  ELSE IF f = "set" \/ baud = 0 THEN [code |-> "NRC", link |-> link]
  ELSE IF f = "start"
       THEN [code |-> "NRC", link |-> [bitrate |-> baud, can |-> "stopped"]]
  ELSE [code |-> "OK", link |-> [bitrate |-> baud, can |-> "started"]]
-----------------------------------------------------------------------------
(* The three handlers of the session events.                               *)

Acting(action, consume, next) ==
  [type |-> TRUE, check |-> "OK", apply |-> TRUE, action |-> action,
   consume |-> consume, next |-> next]

Passing(link) ==
  [type |-> TRUE, check |-> "OK", apply |-> FALSE, action |-> "OK",
   consume |-> "no", next |-> link]

(* diag_session_ctrl_action: a programming session switches to the         *)
(* firmware loader, which reboots unless retention or boot mode fail.      *)
SessionHandler(requested, switch, link) ==
  Acting(IF requested = "PROGRAMMING" /\ SwitchEnabled THEN switch ELSE "OK",
         "no", link)

(* Mutant: the bit rate is restored on a session change only.              *)
LinkHandlerNoTimeout(requested, f, link) ==
  IF requested = "DEFAULT"
  THEN Acting(SetBitrate(link, DefaultBitrate, f).code, "no",
              SetBitrate(link, DefaultBitrate, f).link)
  ELSE Passing(link)

(* uds_..._default_link_control_change_diag_session; "timeout" stands for  *)
(* the session timeout event.                                              *)
LinkHandler(requested, f, link) ==
  IF requested \in {"DEFAULT", "timeout"}
  THEN Acting(SetBitrate(link, DefaultBitrate, f).code, "no",
              SetBitrate(link, DefaultBitrate, f).link)
  ELSE Passing(link)

(* External: the application's handler.                                    *)
CustomHandler(answer, link) ==
  Acting(answer, IF CustomConsumes THEN "yes" ELSE "no", link)

SessionEvent(requested, switch, f, answer) ==
  HandleEvent(order, <<>>,
    [r \in Handlers |-> [link \in Links |->
      CASE r = "session" -> SessionHandler(requested, switch, link)
        [] r = "link"    -> LinkHandler(requested, f, link)
        [] r = "custom"  -> CustomHandler(answer, link)]],
    "OK", Link)
-----------------------------------------------------------------------------
(* A request reaches the server only over a running CAN controller, and a  *)
(* request of at least three bytes overwrites byte2.                       *)

DiagSessCtrl(requested) ==
  /\ can = "started"
  /\ \E switch \in {"reboot", "NRC"}, f \in {"none"} \cup CanFaults,
        answer \in {"OK", "NRC"} :
       LET result == SessionEvent(requested, switch, f, answer)
       IN  \/ /\ result.code = "reboot"
              /\ PowerOn
           \/ /\ result.code # "reboot"
              /\ Fault(f)
              /\ code' = result.code
              /\ bitrate' = result.state.bitrate
              /\ can' = result.state.can
              /\ sessionType' = IF result.code = "OK" THEN requested ELSE sessionType
              /\ UNCHANGED <<order, modifier, modifier_set, byte2, reset>>

(* The library returns to the default session whatever the handlers say;   *)
(* the application's handler succeeds.                                     *)
SessionTimeout ==
  /\ sessionType # "DEFAULT"
  /\ \E f \in {"none"} \cup CanFaults :
       LET result == SessionEvent("timeout", "NRC", f, "OK")
       IN  /\ Fault(f)
           /\ bitrate' = result.state.bitrate
           /\ can' = result.state.can
  /\ sessionType' = "DEFAULT"
  /\ code' = "none"
  /\ UNCHANGED <<order, modifier, modifier_set, byte2, reset>>

VerifiableModifiers == {"CAN_125000", "CAN_250000", "CAN_500000"}

(* LinkControl 0x01: check, then action, of the default handler.           *)
VerifyModeTransition(m) ==
  /\ can = "started"
  /\ byte2' = m
  /\ \/ /\ m \notin VerifiableModifiers
        /\ code' = "NRC"
        /\ UNCHANGED <<modifier, modifier_set>>
     \/ /\ m \in VerifiableModifiers
        /\ sessionType = "DEFAULT"
        /\ code' = "NRC"
        /\ UNCHANGED <<modifier, modifier_set>>
     \/ /\ m \in VerifiableModifiers
        /\ sessionType # "DEFAULT"
        /\ code' = "OK"
        /\ modifier' = m
        /\ modifier_set' = TRUE
  /\ UNCHANGED <<order, sessionType, bitrate, can, reset, faults>>

(* Mutant: the session is checked after the bit rate was set.              *)
TransitionModeLateCheck ==
  /\ can = "started"
  /\ \/ /\ ~modifier_set
        /\ code' = "NRC"
        /\ UNCHANGED <<bitrate, can, faults>>
     \/ /\ modifier_set
        /\ \E f \in {"none"} \cup CanFaults :
             LET result == SetBitrate(Link, Baudrate(byte2), f)
             IN  /\ Fault(f)
                 /\ code' = IF sessionType = "DEFAULT" THEN "NRC" ELSE result.code
                 /\ bitrate' = result.link.bitrate
                 /\ can' = result.link.can
  /\ UNCHANGED <<order, sessionType, modifier, modifier_set, byte2, reset>>

(* LinkControl 0x03 has no data: the action reads the byte that an earlier *)
(* request left behind, not the modifier that was verified.                *)
TransitionMode ==
  /\ can = "started"
  /\ \/ /\ ~modifier_set \/ sessionType = "DEFAULT"
        /\ code' = "NRC"
        /\ UNCHANGED <<bitrate, can, faults>>
     \/ /\ modifier_set /\ sessionType # "DEFAULT"
        /\ \E f \in {"none"} \cup CanFaults :
             LET result == SetBitrate(Link, Baudrate(byte2), f)
             IN  /\ Fault(f)
                 /\ code' = result.code
                 /\ bitrate' = result.link.bitrate
                 /\ can' = result.link.can
  /\ UNCHANGED <<order, sessionType, modifier, modifier_set, byte2, reset>>

(* Any other request of three bytes or more.                               *)
OtherRequest(b) ==
  /\ can = "started"
  /\ byte2' = b
  /\ UNCHANGED <<order, sessionType, modifier, modifier_set, bitrate, can,
                 reset, code, faults>>

(* EcuReset: only a hard reset is handled, and it is executed later.       *)
EcuReset(type) ==
  /\ can = "started"
  /\ code' = IF type = "HARD" THEN "OK" ELSE "NRC"
  /\ reset' = (reset \/ type = "HARD")
  /\ UNCHANGED <<order, sessionType, modifier, modifier_set, bitrate, can,
                 byte2, faults>>

DoScheduledReset == reset /\ PowerOn

Next ==
  \/ \E requested \in SessionTypes : DiagSessCtrl(requested)
  \/ SessionTimeout
  \/ \E m \in Bytes : VerifyModeTransition(m)
  \/ TransitionMode
  \/ \E b \in Bytes : OtherRequest(b)
  \/ \E type \in {"HARD", "SOFT"} : EcuReset(type)
  \/ DoScheduledReset

Spec == Init /\ [][Next]_vars
-----------------------------------------------------------------------------
(* Types.                                                                  *)
TypeOK ==
  /\ order \in Orders
  /\ sessionType \in SessionTypes
  /\ modifier \in Bytes /\ modifier_set \in BOOLEAN
  /\ bitrate \in {Baudrate(m) : m \in CanModifiers}
  /\ can \in {"started", "stopped"}
  /\ byte2 \in Bytes
  /\ reset \in BOOLEAN
  /\ code \in {"none", "OK", "NRC"}
  /\ faults \in 0 .. MaxFaults

(* "Automatically restores default baudrate on session timeout", and       *)
(* "Changing to default session should reset the bitrate": in the default  *)
(* session a tester finds the server at the default bit rate, in whatever  *)
(* order the handlers were linked, as long as the CAN driver does what it  *)
(* is asked.                                                               *)
DefaultSessionDefaultBitrate ==
  sessionType = "DEFAULT" /\ faults = 0 =>
    bitrate = DefaultBitrate /\ can = "started"

(* A controller call that fails while the bit rate is being changed, other *)
(* than can_start, never leaves the controller stopped.                    *)
CanStaysStarted == can = "started"

(* A request that is refused while no CAN call fails has not changed the   *)
(* link: of LinkControl requests this is so because they are checked       *)
(* before they act, of session requests only in the builds in which the    *)
(* handler of link_control.c comes last.                                   *)
RefusedKeepsLink ==
  [][code' = "NRC" /\ faults' = faults /\ order[Len(order)] = "link" =>
       bitrate' = bitrate /\ can' = can]_vars

(* The same promise for a session timeout during which no call fails,      *)
(* whatever failed before.                                                 *)
RestoredOnTimeout ==
  [][/\ sessionType # "DEFAULT" /\ sessionType' = "DEFAULT"
     /\ faults' = faults
     => bitrate' = DefaultBitrate /\ can' = "started"]_vars

(* The tester transitions to what it has verified: LinkControl 0x03        *)
(* carries no data ("zassert_equal(args->len, 0)"), so the new bit rate    *)
(* is the verified one.                                                    *)
TransitionToVerified ==
  [][bitrate' # bitrate /\ sessionType' # "DEFAULT" =>
       bitrate' = Baudrate(modifier)]_vars

(* Types, and a controller that is left running by every failure but that  *)
(* of can_start.                                                           *)
LinkOK == TypeOK /\ CanStaysStarted
=============================================================================
