--------------------------- MODULE MCPeripherals ----------------------------
(* The power IO shield driver, the high-voltage shield drivers and the CAN *)
(* log backend, which do not interact: each behaviour is about one of      *)
(* them, the power IO shield's outputs and interrupts apart.               *)
EXTENDS PowerIoShield, HvShield, CanLog

CONSTANTS thread1, thread2

VARIABLE unit

MCVars == <<pioVars, hvVars, logVars, unit>>

(* A gain for each DAC; the second is not supported.                       *)
MCGains == [dac \in 0 .. 1 |-> IF dac = 0 THEN 4 ELSE 3]

(* Bound: the outputs are looked at with no interrupt left behind by the   *)
(* reset, the interrupts with no output.  One interrupt, of a level or of  *)
(* changes, is left behind where that is the unit.                         *)
Started ==
  /\ levels = {} /\ chip.defval = {}
  /\ CASE unit = "outputs" -> chip.gpinten = {} /\ chip.intcon = {}
       [] unit = "left behind" -> /\ chip.olat = {} /\ Cardinality(chip.gpinten) = 1
                                  /\ chip.intcon \in {{}, chip.gpinten}
       [] OTHER -> chip = PowerOn

MCInit ==
  /\ PioInit /\ HvInit /\ LogInit
  /\ unit \in {"outputs", "interrupts", "left behind", "high voltage", "log"}
  /\ Started
  /\ unit # "high voltage" => stages = {}
  /\ unit # "log" => canState = "running"

(* Bound: a behaviour about outputs configures no interrupt and changes no *)
(* input; one about interrupts writes no output and changes no output's    *)
(* pin, they are configured by one thread and in ISRs, and no transfer     *)
(* fails, as the properties of interrupts promise nothing after a failure; *)
(* with an interrupt left behind there is one call.                        *)
Focused ==
  IF unit = "outputs"
  THEN /\ \A t \in PioThreads : caller'[t].at # "interrupt"
       /\ levels' \subseteq OutBits /\ works' = <<>> /\ ~line'.other
  ELSE /\ \A t \in PioThreads : caller'[t].at \notin {"set", "configure"}
       /\ caller'[thread2].at # "interrupt"
       /\ unit = "left behind" => bounds'.calls < 2
       /\ bounds'.faults = 0 /\ levels' \subseteq InBits

MCNext ==
  /\ \/ /\ unit \in {"outputs", "interrupts", "left behind"} /\ PioNext /\ Focused
        /\ UNCHANGED <<hvVars, logVars>>
     \/ unit = "high voltage" /\ HvNext /\ UNCHANGED <<pioVars, logVars>>
     \/ unit = "log" /\ LogNext /\ UNCHANGED <<pioVars, hvVars>>
  /\ UNCHANGED unit

Rest == UNCHANGED <<hvVars, logVars, unit>>

(* The threads, the system work queue and the interrupt of the INT line go *)
(* on, and the other shield is served.                                     *)
MCSpec ==
  /\ MCInit /\ [][MCNext]_MCVars
  /\ \A t \in PioThreads : WF_MCVars(ThreadStep(t) /\ Rest)
  /\ WF_MCVars(WorkStep /\ Rest)
  /\ WF_MCVars(int_gpio_handler /\ Rest)
  /\ WF_MCVars(OtherShield /\ line.other /\ Rest)
=============================================================================
