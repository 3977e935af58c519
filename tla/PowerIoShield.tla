--------------------------- MODULE PowerIoShield ----------------------------
(***************************************************************************)
(* The GPIO driver of the power IO shield,                                 *)
(* drivers/power_io_shield/power_io_shield.c.  The shield's MCP23017 port  *)
(* expander is reached over I2C, so every register access blocks the       *)
(* caller and may fail.  The driver caches four registers under a binary   *)
(* semaphore; the expander's INT line submits a work item that reads and   *)
(* clears the interrupt.  Interrupts may also be configured in an ISR,     *)
(* which then leaves the register writes to a second work item.            *)
(*                                                                         *)
(* A register is the set of its bits that are 1.  Calls that are refused   *)
(* change nothing and are no steps.                                        *)
(***************************************************************************)
EXTENDS Naturals, Sequences, FiniteSets, Functions

CONSTANTS
  PioThreads,    \* threads that call the driver
  PioInputs,     \* the input and fault pins that are connected
  PioOutputs,    \* the output pins that are connected
  PioMaxCalls,   \* bound: calls of all threads
  PioMaxFaults,  \* bound: failed I2C transfers
  PioMaxEdges    \* bound: level changes of the inputs

WorkQueue == "work queue"

Unlocked == "unlocked"   \* the semaphore has no holder, k_sem_init(.., 1, 1)

ASSUME PioAssumption ==
  /\ Unlocked \notin PioThreads
  /\ PioInputs \subseteq (0 .. 5) \union (16 .. 18)
  /\ PioOutputs \subseteq 8 .. 13
  /\ {PioMaxCalls, PioMaxFaults, PioMaxEdges} \subseteq Nat

VARIABLES
  chip,     \* the registers of the expander
  levels,   \* the input bits whose pin is high, and the output bits whose pin
            \* is not at the level of the latch
  cache,    \* reg_cache
  trigger,  \* int_trigger_rising, int_trigger_falling
  lock,     \* holder of the semaphore
  works,    \* items in the system work queue
  line,     \* the INT line: other, held by another shield; edge, not handled yet
  caller,   \* what each thread and the work queue are doing
  bounds,   \* calls, faults and edges so far
  asked,    \* history: the values each output may have after the calls so far
  fired,    \* pins whose callbacks were called, until the handler runs again
  hist,     \* history: kept, no level interrupt was taken away; used, the bits
            \* ever enabled; clean, no interrupt was enabled at the reset and no
            \* other shield has used the INT line
  retained, \* history: the interrupt registers are still those of the reset
  pioBoot   \* next step of power_io_shield_init, ready, failed or crashed

pioVars == <<chip, levels, cache, trigger, lock, works, line, caller, bounds,
             asked, fired, hist, retained, pioBoot>>

(***************************************************************************)
(* Pin numbers of the GPIO API and bits of the expander (hardware.h,       *)
(* power-io-shield.h).                                                     *)
(***************************************************************************)
power_io_shield_zephyr_pin_to_gpio_bit(pin) ==
  CASE pin \in 0 .. 7 -> pin + 8
    [] pin \in 8 .. 15 -> (pin - 8) + 2
    [] pin = 16 -> 14
    [] pin = 17 -> 0
    [] pin = 18 -> 1
    [] OTHER -> 0

Bit(pin) == power_io_shield_zephyr_pin_to_gpio_bit(pin)

power_io_shield_gpio_bits_to_zephyr_bits(bits) ==
  {b - 8 : b \in bits \intersect 8 .. 13}
    \union {(b - 2) + 8 : b \in bits \intersect 2 .. 7}
    \union {16 : b \in bits \intersect {14}}
    \union {17 : b \in bits \intersect {0}}
    \union {18 : b \in bits \intersect {1}}

HardInverted == 8 .. 13

InputBits == (8 .. 14) \union {0, 1}   \* IODIR

(***************************************************************************)
(* The expander: an interrupt is held, with the pins captured when it      *)
(* came, until INTCAP or GPIO is read; a level interrupt comes back at     *)
(* once while its level lasts, and the INT line stays active.  Bits 0-7    *)
(* and 8-15 are two ports.                                                 *)
(***************************************************************************)
Port(b) == {c \in 0 .. 15 : c \div 8 = b \div 8}

PinValues(c, lv) ==
  (lv \intersect c.iodir)
    \union {b \in (0 .. 15) \ c.iodir : (b \in c.olat) # (b \in lv)}

LevelBits(c, lv) ==
  {b \in c.gpinten \intersect c.intcon :
     (b \in PinValues(c, lv)) # (b \in c.defval)}

(* Causes in a port with nothing pending become pending.                   *)
Raise(c, lv, causes) ==
  LET new == {b \in causes : c.intf \intersect Port(b) = {}}
      ports == UNION {Port(b) : b \in new}
  IN  [c EXCEPT !.intf = @ \union new,
                !.intcap = (@ \ ports) \union (PinValues(c, lv) \intersect ports)]

Settle(c, lv) == Raise(c, lv, LevelBits(c, lv))

Cleared(c, lv) == Settle([c EXCEPT !.intf = {}], lv)

(* INTF shows the pins that are enabled.                                   *)
Reconfigured(c, lv) == Settle([c EXCEPT !.intf = @ \intersect c.gpinten], lv)

Active(c, other) == c.intf # {} \/ other

(* The host's GPIO sees the line becoming active, once it is told to.      *)
Edge(before, after) == pioBoot # "INT" /\ after /\ ~before

SetChip(c) ==
  /\ chip' = c
  /\ line' = [line EXCEPT !.edge = @ \/ Edge(Active(chip, line.other), Active(c, line.other))]

(***************************************************************************)
(* The steps of a call.                                                    *)
(***************************************************************************)
Idle == [at |-> "idle"]

At(t, label) == caller[t].at = label

Goto(t, rec) == caller' = [caller EXCEPT ![t] = rec]

(* An I2C transfer works, or fails before or after the chip acted on it.   *)
Outcomes ==
  {o \in [ok : BOOLEAN, effect : BOOLEAN] :
     IF o.ok THEN o.effect ELSE bounds.faults < PioMaxFaults}

Count(o) == bounds' = [bounds EXCEPT !.faults = IF o.ok THEN @ ELSE @ + 1]

Submit(item) == works' = IF item \in Range(works) THEN works ELSE Append(works, item)

(* An output pin takes the value; after a failure it may also be the old.  *)
Ask(pins, values, ok) ==
  asked' = [p \in PioOutputs |->
              IF p \notin pins THEN asked[p]
              ELSE {(p \in values)} \union (IF ok THEN {} ELSE asked[p])]

InBits == {Bit(p) : p \in PioInputs}

OutBits == {Bit(p) : p \in PioOutputs}

(* External: the registers after power-on.                                 *)
PowerOn == [iodir |-> 0 .. 15, olat |-> {}, gpinten |-> {}, intcon |-> {},
            defval |-> {}, intf |-> {}, intcap |-> {}]

(* External: what an earlier run of the program may leave in them when     *)
(* only the processor is reset.                                            *)
LeftBehind ==
  [iodir : {InputBits}, olat : SUBSET OutBits, gpinten : SUBSET InBits,
   intcon : SUBSET InBits, defval : SUBSET InBits, intf : SUBSET InBits, intcap : {{}}]

(* The processor starts: the driver's data is zero.                        *)
PioInit ==
  /\ levels \in SUBSET InBits
  /\ chip \in {PowerOn} \union {Reconfigured(c, levels) : c \in LeftBehind}
  /\ cache = [gpinten |-> {}, intcon |-> {}, defval |-> {}, gpio |-> {}]
  /\ trigger = [rising |-> {}, falling |-> {}]
  /\ lock = Unlocked
  /\ works = <<>>
  /\ line = [other |-> FALSE, edge |-> FALSE]
  /\ caller = [t \in PioThreads \union {WorkQueue} |-> Idle]
  /\ bounds = [calls |-> 0, faults |-> 0, edges |-> 0]
  /\ asked = [p \in PioOutputs |-> IF Bit(p) \in chip.olat THEN BOOLEAN ELSE {FALSE}]
  /\ fired = {}
  /\ hist = [kept |-> TRUE, used |-> {}, clean |-> chip.gpinten = {}]
  /\ retained = TRUE
  /\ pioBoot = "INT"

(* power_io_shield_init: the interrupt of the INT line is enabled, IOCON   *)
(* and IODIR are written and then the work items and the semaphore are set *)
(* up; an error ends it.  The other registers are left as they are.        *)
power_io_shield_init ==
  /\ pioBoot \in {"INT", "IOCON", "IODIR", "objects"}
  /\ \E o \in Outcomes :
       /\ pioBoot = "objects" => o.ok
       /\ Count(o)
       /\ pioBoot' = CASE ~o.ok -> "failed"
                       [] pioBoot = "INT" -> "IOCON"
                       [] pioBoot = "IOCON" -> "IODIR"
                       [] pioBoot = "IODIR" -> "objects"
                       [] OTHER -> "ready"
       /\ SetChip(IF pioBoot = "IODIR" /\ o.effect
                  THEN Settle([chip EXCEPT !.iodir = InputBits], levels) ELSE chip)
  /\ UNCHANGED <<levels, cache, trigger, lock, works, caller, asked, fired, hist, retained>>

(* A work item that was submitted before it was initialised is taken from  *)
(* the queue: it has no handler.                                           *)
NullWork ==
  /\ works # <<>> /\ pioBoot \notin {"ready", "crashed"}
  /\ pioBoot' = "crashed"
  /\ UNCHANGED <<chip, levels, cache, trigger, lock, works, line, caller, bounds,
                 asked, fired, hist, retained>>

Modes == {"disabled", "level", "edge"}

Triggers == {"low", "high", "both"}

(* Interrupt requests that are not refused.                                *)
ValidInterrupt(pin, mode, trig) ==
  /\ pin \notin 8 .. 15
  /\ mode = "level" => trig \in {"low", "high"}

(* Flags of a pin configuration: none of the refused ones for an output.   *)
ValidOutput(flags) == flags \intersect {"input", "pull", "single ended"} = {}

(* A thread enters one of the driver's operations.                         *)
Call(t) ==
  /\ At(t, "idle") /\ t # WorkQueue /\ pioBoot = "ready"
  /\ bounds.calls < PioMaxCalls
  /\ bounds' = [bounds EXCEPT !.calls = @ + 1]
  /\ \/ Goto(t, [at |-> "get"])
     \/ \E mask \in (SUBSET PioOutputs) \ {{}} : \E value \in SUBSET mask :
          Goto(t, [at |-> "set", mask |-> mask, value |-> value, new |-> {}])
     \/ \E pin \in PioOutputs, flags \in SUBSET {"high", "input"} :
          /\ ValidOutput(flags)
          /\ Goto(t, [at |-> "configure", pin |-> pin, high |-> "high" \in flags])
     \/ \E pin \in PioInputs, mode \in Modes, trig \in Triggers :
          /\ ValidInterrupt(pin, mode, trig)
          /\ Goto(t, [at |-> "interrupt", pin |-> pin, mode |-> mode, trig |-> trig])
  /\ UNCHANGED <<chip, levels, cache, trigger, lock, works, line, asked, fired, hist, retained, pioBoot>>

(* Where an operation is once it holds the semaphore.                      *)
Entered == [get |-> "reading", set |-> "setting", configure |-> "configuring",
            interrupt |-> "updating", write |-> "DEFVAL", handler |-> "INTF"]

(* new_gpio of port_set_masked_raw, from the cache.                        *)
NewGpio(r) ==
  (cache.gpio \ {Bit(p) : p \in r.mask}) \union {Bit(p) : p \in r.value}

Enter(t) ==
  Goto(t, IF At(t, "set")
          THEN [caller[t] EXCEPT !.at = "setting", !.new = NewGpio(caller[t])]
          ELSE [caller[t] EXCEPT !.at = Entered[@]])

(* Mutant: port_set_masked_raw does not wait for the semaphore.            *)
TakeAnyway(t) ==
  /\ caller[t].at \in DOMAIN Entered
  /\ lock = Unlocked \/ At(t, "set")
  /\ lock' = t
  /\ Enter(t)
  /\ UNCHANGED <<chip, levels, cache, trigger, works, line, bounds, asked, fired, hist, retained, pioBoot>>

(* k_sem_take(&data->lock, K_FOREVER), and what is computed from the cache. *)
Take(t) ==
  /\ caller[t].at \in DOMAIN Entered
  /\ lock = Unlocked
  /\ lock' = t
  /\ Enter(t)
  /\ UNCHANGED <<chip, levels, cache, trigger, works, line, bounds, asked, fired, hist, retained, pioBoot>>

(* The cache takes the level of a pin that is not at the level of its      *)
(* latch, and a later call for another pin writes it.                      *)
Misread(pins) ==
  [p \in PioOutputs |-> IF (Bit(p) \in pins) # (Bit(p) \in chip.olat) THEN BOOLEAN
                        ELSE asked[p]]

(* Reading GPIO clears the interrupts.  The value returned is              *)
(* power_io_shield_gpio_bits_to_zephyr_bits of the bits read, with the     *)
(* hard-inverted ones flipped.                                             *)
port_get_raw(t) ==
  /\ At(t, "reading")
  /\ \E o \in Outcomes :
       /\ Count(o)
       /\ SetChip(IF o.effect THEN Cleared(chip, levels) ELSE chip)
       /\ cache' = IF o.ok THEN [cache EXCEPT !.gpio = PinValues(chip, levels)] ELSE cache
       /\ asked' = IF o.ok THEN Misread(PinValues(chip, levels)) ELSE asked
  /\ lock' = Unlocked
  /\ Goto(t, Idle)
  /\ UNCHANGED <<levels, trigger, works, fired, hist, retained, pioBoot>>

set_masked_raw(t) ==
  /\ At(t, "setting")
  /\ LET r == caller[t] IN
     \E o \in Outcomes :
       /\ Count(o)
       /\ SetChip(IF o.effect THEN [chip EXCEPT !.olat = r.new] ELSE chip)
       /\ cache' = IF o.ok THEN [cache EXCEPT !.gpio = r.new] ELSE cache
       /\ Ask(r.mask, r.value, o.ok)
  /\ lock' = Unlocked
  /\ Goto(t, Idle)
  /\ UNCHANGED <<levels, trigger, works, fired, hist, retained, pioBoot>>

(* The cache keeps the new value when the write fails.                     *)
pin_configure(t) ==
  /\ At(t, "configuring")
  /\ LET r == caller[t]
         new == IF r.high THEN cache.gpio \union {Bit(r.pin)}
                ELSE cache.gpio \ {Bit(r.pin)}
     IN \E o \in Outcomes :
          /\ Count(o)
          /\ SetChip(IF o.effect THEN [chip EXCEPT !.olat = new] ELSE chip)
          /\ cache' = [cache EXCEPT !.gpio = new]
          /\ Ask({r.pin}, IF r.high THEN {r.pin} ELSE {}, o.ok)
  /\ lock' = Unlocked
  /\ Goto(t, Idle)
  /\ UNCHANGED <<levels, trigger, works, fired, hist, retained, pioBoot>>

(* The cache after pin_interrupt_configure; hard-inverted pins are active  *)
(* low.                                                                    *)
UpdatedCache(pin, mode, trig) ==
  LET b == {Bit(pin)}
      low == (trig = "low") # (b \subseteq HardInverted)
  IN  [cache EXCEPT
         !.gpinten = IF mode = "disabled" THEN @ \ b ELSE @ \union b,
         !.intcon = IF mode = "level" THEN @ \union b ELSE @ \ b,
         !.defval = CASE mode = "disabled" -> @ \ b
                      [] mode = "level" -> IF low THEN @ \union b ELSE @ \ b
                      [] OTHER -> @]

UpdatedTrigger(pin, mode, trig) ==
  LET b == {Bit(pin)}
      Wanted(edge) == trig = "both" \/ (trig = edge) # (b \subseteq HardInverted)
  IN  IF mode # "edge" THEN trigger
      ELSE [rising |-> (trigger.rising \ b) \union (IF Wanted("high") THEN b ELSE {}),
            falling |-> (trigger.falling \ b) \union (IF Wanted("low") THEN b ELSE {})]

Update(pin, mode, trig) ==
  /\ cache' = UpdatedCache(pin, mode, trig)
  /\ trigger' = UpdatedTrigger(pin, mode, trig)
  /\ hist' = [hist EXCEPT !.kept = @ /\ cache.intcon \subseteq cache'.intcon,
                           !.used = @ \union cache'.gpinten]
  /\ retained' = FALSE

(* In a thread the registers are then written by a direct call.            *)
pin_interrupt_configure(t) ==
  /\ At(t, "updating")
  /\ Update(caller[t].pin, caller[t].mode, caller[t].trig)
  /\ lock' = Unlocked
  /\ Goto(t, [at |-> "write"])
  /\ UNCHANGED <<chip, levels, works, line, bounds, asked, fired, pioBoot>>

(* In an ISR the semaphore is not waited for, and the writes are left to   *)
(* the work queue.                                                         *)
IsrInterruptConfigure ==
  /\ pioBoot = "ready"
  /\ bounds.calls < PioMaxCalls
  /\ bounds' = [bounds EXCEPT !.calls = @ + 1]
  /\ lock = Unlocked
  /\ \E pin \in PioInputs, mode \in Modes, trig \in Triggers :
       ValidInterrupt(pin, mode, trig) /\ Update(pin, mode, trig)
  /\ Submit("write")
  /\ UNCHANGED <<chip, levels, lock, line, caller, asked, fired, pioBoot>>

WriteOrder == [DEFVAL |-> "INTCON", INTCON |-> "GPINTEN", GPINTEN |-> "idle"]

(* Three writes under the semaphore; a failure is only logged.             *)
write_interrupt_config(t) ==
  /\ caller[t].at \in DOMAIN WriteOrder
  /\ LET at == caller[t].at
         written == CASE at = "DEFVAL" -> [chip EXCEPT !.defval = cache.defval]
                      [] at = "INTCON" -> [chip EXCEPT !.intcon = cache.intcon]
                      [] at = "GPINTEN" -> [chip EXCEPT !.gpinten = cache.gpinten]
     IN /\ \E o \in Outcomes :
             /\ Count(o)
             /\ SetChip(IF o.effect THEN Reconfigured(written, levels) ELSE chip)
        /\ Goto(t, [at |-> WriteOrder[at]])
        /\ lock' = IF at = "GPINTEN" THEN Unlocked ELSE lock
  /\ UNCHANGED <<levels, cache, trigger, works, asked, fired, hist, retained, pioBoot>>

(* The system work queue takes its next item.                              *)
WorkStart ==
  /\ At(WorkQueue, "idle") /\ works # <<>> /\ pioBoot = "ready"
  /\ Goto(WorkQueue, [at |-> Head(works)])
  /\ works' = Tail(works)
  /\ UNCHANGED <<chip, levels, cache, trigger, lock, line, bounds, asked, fired, hist, retained, pioBoot>>

int_gpio_handler ==
  /\ line.edge
  /\ line' = [line EXCEPT !.edge = FALSE]
  /\ Submit("handler")
  /\ UNCHANGED <<chip, levels, cache, trigger, lock, caller, bounds, asked, fired, hist, retained, pioBoot>>

(* The interrupt handler up to INTF: an error, or nothing pending here,    *)
(* ends it.                                                                *)
HandlerReadsIntf ==
  /\ At(WorkQueue, "INTF")
  /\ \E o \in Outcomes :
       /\ Count(o)
       /\ IF o.ok /\ chip.intf # {}
          THEN Goto(WorkQueue, [at |-> "INTCAP", intf |-> chip.intf]) /\ UNCHANGED lock
          ELSE Goto(WorkQueue, Idle) /\ lock' = Unlocked
  /\ fired' = {}
  /\ UNCHANGED <<chip, levels, cache, trigger, works, line, asked, hist, retained, pioBoot>>

(* ints: what the callbacks are called for.                                *)
Ints(intf, intcap) ==
  cache.gpinten \intersect intf
    \intersect (cache.intcon \union (intcap \intersect trigger.rising)
                             \union (trigger.falling \ intcap))

(* Mutant: the work is submitted again for edges.                          *)
ResubmittedEdges(ints) == ints \ cache.intcon # {}

(* Level interrupts have to be looked at again.                            *)
Resubmitted(ints) == ints \intersect cache.intcon # {}

(* Reading INTCAP clears the interrupts; the callbacks are called, and the *)
(* work is submitted again if one was a level interrupt.                   *)
HandlerReadsIntcap ==
  /\ At(WorkQueue, "INTCAP")
  /\ LET ints == Ints(caller[WorkQueue].intf, chip.intcap) IN
     \E o \in Outcomes :
       /\ Count(o)
       /\ SetChip(IF o.effect THEN Cleared(chip, levels) ELSE chip)
       /\ fired' = IF o.ok THEN power_io_shield_gpio_bits_to_zephyr_bits(ints) ELSE {}
       /\ IF o.ok /\ Resubmitted(ints)
          THEN Submit("handler") ELSE UNCHANGED works
  /\ Goto(WorkQueue, Idle)
  /\ lock' = Unlocked
  /\ UNCHANGED <<levels, cache, trigger, asked, hist, retained, pioBoot>>

(* External: an input changes, and an enabled change interrupt, or a level *)
(* interrupt, is raised; or the pin of an output leaves the level of its   *)
(* latch or comes back to it.                                              *)
PinChanges ==
  /\ bounds.edges < PioMaxEdges
  /\ bounds' = [bounds EXCEPT !.edges = @ + 1]
  /\ \E b \in InBits \union OutBits :
       LET lv == IF b \in levels THEN levels \ {b} ELSE levels \union {b} IN
       /\ levels' = lv
       /\ SetChip(Raise(chip, lv, LevelBits(chip, lv)
                                     \union ({b} \intersect (chip.gpinten \ chip.intcon))))
  /\ UNCHANGED <<cache, trigger, lock, works, caller, asked, fired, hist, retained, pioBoot>>

(* External: another shield on the INT line asks for service and gets it.  *)
OtherShield ==
  /\ line.other \/ bounds.edges < PioMaxEdges
  /\ line' = [other |-> ~line.other,
              edge |-> line.edge \/ Edge(Active(chip, line.other), Active(chip, ~line.other))]
  /\ bounds' = [bounds EXCEPT !.edges = IF line.other THEN @ ELSE @ + 1]
  /\ hist' = [hist EXCEPT !.clean = FALSE]
  /\ UNCHANGED <<chip, levels, cache, trigger, lock, works, caller, asked, fired,
                 retained, pioBoot>>

ThreadStep(t) ==
  \/ Take(t)
  \/ port_get_raw(t)
  \/ set_masked_raw(t)
  \/ pin_configure(t)
  \/ pin_interrupt_configure(t)
  \/ write_interrupt_config(t)

WorkStep ==
  \/ NullWork
  \/ WorkStart
  \/ Take(WorkQueue)
  \/ write_interrupt_config(WorkQueue)
  \/ HandlerReadsIntf
  \/ HandlerReadsIntcap

PioNext ==
  \/ power_io_shield_init
  \/ \E t \in PioThreads : Call(t) \/ ThreadStep(t)
  \/ IsrInterruptConfigure
  \/ WorkStep
  \/ int_gpio_handler
  \/ PinChanges
  \/ OtherShield


(***************************************************************************)
(* Properties.                                                             *)
(***************************************************************************)

(* An output of the expander is what the last successful call asked for,   *)
(* or what a later failed call asked for: masked writes and configurations *)
(* from several threads never change an output nobody addressed.  Before   *)
(* it is addressed again that is not true of an output that was high when  *)
(* the processor was reset, or whose pin was not at the level of the latch *)
(* when it was read: the cache has another value than the latch.           *)
OutputsAsAsked == \A p \in PioOutputs : (Bit(p) \in chip.olat) \in asked[p]

Writing(t) == caller[t].at \in {"write", "DEFVAL", "INTCON", "GPINTEN"}

(* Once an interrupt was configured since the reset, and unless a transfer *)
(* failed or a write is still to come, the expander has the interrupt      *)
(* configuration of the cache, whoever configured it and from whatever     *)
(* context, and whatever the expander had at the reset.                    *)
ConfigWritten ==
  \/ retained
  \/ bounds.faults > 0
  \/ \E t \in DOMAIN caller : Writing(t)
  \/ "write" \in Range(works)
  \/ /\ chip.gpinten = cache.gpinten
     /\ chip.intcon = cache.intcon
     /\ chip.defval = cache.defval

(* The outputs and the interrupt registers of the expander are as the      *)
(* driver's callers asked.                                                 *)
ChipAsAsked == OutputsAsAsked /\ ConfigWritten

Addressed(t, p) ==
  \/ At(t, "setting") /\ p \in caller[t].mask
  \/ At(t, "configuring") /\ p = caller[t].pin

(* "apply new values where mask is set": only a call that addresses an     *)
(* output changes its latch.  Not true of the code, see ChipAsAsked.       *)
OnlyMaskedChange ==
  [][\A p \in PioOutputs : (Bit(p) \in chip'.olat) # (Bit(p) \in chip.olat) =>
       \E t \in PioThreads : Addressed(t, p)]_pioVars

EdgesOnly == hist.kept /\ cache.intcon = {}

(* With edge interrupts only, on a line of its own and with no interrupt   *)
(* enabled at the reset, an interrupt of the expander is cleared, so that  *)
(* INT can signal the next one.                                            *)
InterruptCleared ==
  (chip.intf # {} /\ bounds.faults = 0 /\ EdgesOnly /\ hist.clean)
    ~> (chip.intf = {} \/ bounds.faults > 0 \/ ~EdgesOnly \/ ~hist.clean)

(* A level interrupt that is the only one, and was never configured        *)
(* otherwise, has its callback called again and again while the level      *)
(* lasts.                                                                  *)
LevelServed ==
  \A p \in PioInputs :
    <>[](/\ hist = [kept |-> TRUE, used |-> {Bit(p)}, clean |-> TRUE]
         /\ bounds.faults = 0
         /\ LevelBits(chip, levels) = {Bit(p)})
      => []<>(p \in fired) /\ []<>(p \notin fired)

(* An edge interrupt is cleared, or a level interrupt's callback called    *)
(* again, on the conditions stated above.                                  *)
InterruptsServed == InterruptCleared /\ LevelServed

(* Without the conditions on the other shield and on what was configured   *)
(* before.  Neither holds: section 5 of the README.                        *)
InterruptClearedStacked ==
  (chip.intf # {} /\ bounds.faults = 0 /\ EdgesOnly)
    ~> (chip.intf = {} \/ bounds.faults > 0 \/ ~EdgesOnly)

LevelServedAlways ==
  \A p \in PioInputs :
    <>[](/\ bounds.faults = 0 /\ hist.clean
         /\ chip.gpinten = {Bit(p)} /\ LevelBits(chip, levels) = {Bit(p)})
      => []<>(p \in fired) /\ []<>(p \notin fired)
=============================================================================
